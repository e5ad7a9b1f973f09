------------------------------ MODULE Xv6Memory -----------------------------
(***************************************************************************)
(* The memory of xv6 processes: the page allocator (kernel/kalloc.c), user *)
(* page tables (kernel/vm.c), and the operations that build, copy, grow    *)
(* and free them: allocproc(), freeproc(), growproc() and kfork() of       *)
(* proc.c, sys_sbrk(), and sys_exec() with kexec().                        *)
(*                                                                         *)
(* Sizes and addresses are in units of 1/PgSize of a page, so that a size  *)
(* need not be a multiple of a page.  A page table has its root, the page  *)
(* table pages below it for the trampoline and the trapframe (high) and    *)
(* for user memory (low), Levels of each, and the mapped user pages.       *)
(* Which free page kalloc() returns makes no difference, so pages are      *)
(* counted.  Of the content of a user page only the set of processes that  *)
(* wrote it matters, or that it is junk.  Permission bits are left out.    *)
(***************************************************************************)
EXTENDS Integers, FiniteSets

CONSTANTS
    Slots,          \* entries of the process table
    InitSlot,       \* that of the first process
    NPages,         \* physical pages
    PgSize,         \* units of a page
    TopPage,        \* user pages are 0 .. TopPage - 1, TRAPFRAME is TopPage
    Levels,         \* levels of page tables below the root: two
    Growth,         \* arguments of sbrk()
    SegmentEnds,    \* ends of program segments
    Argc            \* numbers of arguments of exec()

VPages == 0 .. TopPage - 1
Junk   == {"junk"}          \* kalloc() and kfree() fill the page with it
Hole   == {"hole"}          \* no page is mapped here

\* kexec() does not compare the end of a segment with TRAPFRAME, but a segment that long
\* would not fit in the physical memory of the machine.
ASSUME MemoryAssumption ==
    /\ InitSlot \in Slots /\ {"junk", "hole"} \intersect Slots = {}
    /\ PgSize \in Nat \ {0} /\ TopPage \in Nat \ {0} /\ Levels \in Nat
    /\ NPages \in Nat /\ NPages >= 2 + Levels
    /\ Growth \subseteq Int /\ SegmentEnds \subseteq 0 .. TopPage * PgSize /\ Argc \subseteq Nat

VARIABLES
    kmem,       \* the length of the free list
    mem,        \* process -> trapframe, page table, size
    exec,       \* process -> what sys_exec() and kexec() have built
    lineage,    \* history: the process and its ancestors
    mpanic      \* the panic(): "remap" of mappages(), "leaf" of freewalk(), or "none"

memoryVars == <<kmem, mem, exec, lineage, mpanic>>

NoTable == [root |-> 0, high |-> 0, low |-> 0, map |-> [v \in VPages |-> Hole]]
NoMem   == [trapframe |-> 0, table |-> NoTable, sz |-> 0]
NoExec  == [at |-> "none", table |-> NoTable, sz |-> 0, argv |-> 0]
PgUp(x) == (x + PgSize - 1) \div PgSize

Mapped(t, range) == Cardinality({v \in range : t.map[v] # Hole})
-----------------------------------------------------------------------------
(* Operators on k = [free, panic]                                          *)

MK == [free |-> kmem, panic |-> mpanic]

\* kalloc() when there is a page, and kfree() of n pages.
Kalloc(k)   == [k EXCEPT !.free = @ - 1]
Kfree(k, n) == [k EXCEPT !.free = @ + n]

\* walk() with alloc, for a part of the address space that has n page table pages: it
\* allocates the others, and those that it could allocate stay when it fails.
Walked(k, n)    == IF Levels - n <= k.free THEN Levels ELSE n + k.free
WalkAlloc(k, n) == [k EXCEPT !.free = @ - (Walked(k, n) - n)]

\* mappages() of one user page.
Mappages(r, v, content) ==
    LET k == WalkAlloc(r.k, r.t.low)
        t == [r.t EXCEPT !.low = Walked(r.k, r.t.low)]
    IN  IF t.low # Levels THEN [k |-> k, t |-> t, ok |-> FALSE]
        ELSE IF t.map[v] # Hole
        THEN [k |-> [k EXCEPT !.panic = "remap"], t |-> t, ok |-> TRUE]
        ELSE [k |-> k, t |-> [t EXCEPT !.map[v] = content], ok |-> TRUE]

\* uvmunmap() of pages first .. last - 1, freeing the memory.
Uvmunmap(k, t, first, last) ==
    LET range == {v \in VPages : first <= v /\ v < last}
    IN  [k |-> Kfree(k, Mapped(t, range)),
         t |-> [t EXCEPT !.map = [v \in VPages |-> IF v \in range THEN Hole ELSE @[v]]]]

\* memset() or memmove() gives a page that kalloc() returned its content.
Memset(content) == content

\* A new page with content, mapped at v: the loop bodies of uvmalloc() and
\* uvmcopy(), and the end of vmfault().
AddPage(r, v, content) ==
    LET m == Mappages([r EXCEPT !.k = Kalloc(@)], v, Memset(content))
    IN  IF ~r.ok \/ r.k.free = 0 THEN [r EXCEPT !.ok = FALSE]
        ELSE IF ~m.ok THEN [m EXCEPT !.k = Kfree(@, 1)]
        ELSE m

\* The loops: n pages from first on, with what c has there.  uvmcopy() skips the holes.
AddPages(k, t, first, n, c) ==
    LET go[i \in 0 .. n] ==
            IF i = 0 THEN [k |-> k, t |-> t, ok |-> TRUE]
            ELSE IF c[first + i - 1] = Hole THEN go[i - 1]
            ELSE AddPage(go[i - 1], first + i - 1, c[first + i - 1])
    IN  go[n]

\* uvmalloc(): sz is the new size, 0 on error.
Uvmalloc(k, t, old, new) ==
    LET n == IF new > old THEN PgUp(new) - PgUp(old) ELSE 0
        r == AddPages(k, t, PgUp(old), n, [v \in VPages |-> {}])
        u == Uvmunmap(r.k, r.t, PgUp(old), PgUp(new))
    IN  IF new < old THEN [k |-> k, t |-> t, sz |-> old]
        ELSE IF r.ok THEN [k |-> r.k, t |-> r.t, sz |-> new]
        ELSE [k |-> u.k, t |-> u.t, sz |-> 0]

\* uvmdealloc(): new may be below 0, which as an unsigned number is large.
Uvmdealloc(k, t, old, new) ==
    LET u == Uvmunmap(k, t, PgUp(new), PgUp(old))
    IN  IF new < 0 \/ new >= old THEN [k |-> k, t |-> t, sz |-> old]
        ELSE [k |-> u.k, t |-> u.t, sz |-> new]

\* uvmcopy()
Uvmcopy(k, old, new, sz) ==
    LET r == AddPages(k, new, 0, PgUp(sz), old.map)
        u == Uvmunmap(r.k, r.t, 0, PgUp(sz))
    IN  IF r.ok THEN r ELSE [k |-> u.k, t |-> u.t, ok |-> FALSE]

\* The page table pages that freewalk() frees.
Freewalk(t) == t.root + t.high + t.low

\* proc_freepagetable() and uvmfree(): user pages below sz, then the tables.
FreeTable(k, t, sz) ==
    LET u == Uvmunmap(k, t, 0, PgUp(sz))
        f == Kfree(u.k, Freewalk(t))
    IN  IF Mapped(u.t, VPages) > 0 THEN [f EXCEPT !.panic = "leaf"] ELSE f

\* proc_pagetable(): a root and the way to the trampoline and the trapframe, or
\* root 0 and everything freed.
ProcPagetable(k) ==
    LET high == Walked(Kalloc(k), 0)
        w    == WalkAlloc(Kalloc(k), 0)
        t    == [root |-> 1, high |-> high, low |-> 0, map |-> NoTable.map]
    IN  IF k.free = 0 THEN [k |-> k, t |-> NoTable]
        ELSE IF high # Levels THEN [k |-> FreeTable(w, t, 0), t |-> NoTable]
        ELSE [k |-> w, t |-> t]

\* freeproc()
Freeproc(k, m) ==
    LET f == Kfree(k, m.trapframe)
    IN  IF m.table.root = 0 THEN f ELSE FreeTable(f, m.table, m.sz)

\* allocproc(): the memory of a new process, NoMem when there is not enough.
Allocproc(k) ==
    LET p == ProcPagetable(Kalloc(k))
    IN  IF k.free = 0 THEN [k |-> k, m |-> NoMem]
        ELSE IF p.t.root = 0
        THEN [k |-> Freeproc(p.k, [NoMem EXCEPT !.trapframe = 1]), m |-> NoMem]
        ELSE [k |-> p.k, m |-> [trapframe |-> 1, table |-> p.t, sz |-> 0]]
-----------------------------------------------------------------------------
(* Operations of processes                                                 *)

Runs(p)    == mpanic = "none" /\ mem[p].table.root # 0
InUser(p)  == Runs(p) /\ exec[p].at = "none"
Becomes(k) == kmem' = k.free /\ mpanic' = k.panic

\* The memory of a process, and what exec() builds, with another page table and size.
Image(m, t, sz)        == [trapframe |-> m.trapframe, table |-> t, sz |-> sz]
Building(e, at, t, sz) == [at |-> at, table |-> t, sz |-> sz, argv |-> e.argv]

\* userinit()
MemoryInit ==
    LET a == Allocproc([free |-> NPages, panic |-> "none"])
    IN  /\ kmem = a.k.free /\ mpanic = "none"
        /\ mem = [p \in Slots |-> IF p = InitSlot THEN a.m ELSE NoMem]
        /\ exec = [p \in Slots |-> NoExec]
        /\ lineage = [p \in Slots |-> IF p = InitSlot THEN {p} ELSE {}]

\* The memory side of kfork(): nothing remains when any of it fails.
ForkMemory(p, q) ==
    /\ InUser(p) /\ mem[q] = NoMem
    /\ LET a == Allocproc(MK)
           c == Uvmcopy(a.k, mem[p].table, a.m.table, mem[p].sz)
           fails == a.m = NoMem \/ ~c.ok
       IN  /\ Becomes(IF a.m = NoMem THEN a.k
                      ELSE IF ~c.ok THEN Freeproc(c.k, Image(a.m, c.t, a.m.sz))
                      ELSE c.k)
           /\ mem' = IF fails THEN mem
                     ELSE [mem EXCEPT ![q] = Image(a.m, c.t, mem[p].sz)]
           /\ lineage' = IF fails THEN lineage
                         ELSE [lineage EXCEPT ![q] = lineage[p] \union {q}]
    /\ UNCHANGED exec

\* freeproc() by the parent's kwait(), after kexit().
FreeMemory(p) ==
    /\ InUser(p) /\ p # InitSlot
    /\ Becomes(Freeproc(MK, mem[p]))
    /\ mem' = [mem EXCEPT ![p] = NoMem]
    /\ lineage' = [lineage EXCEPT ![p] = {}]
    /\ UNCHANGED exec

\* sys_sbrk() that grows or shrinks at once: growproc().
Sbrk(p, n) ==
    /\ InUser(p)
    /\ mem[p].sz + n <= TopPage * PgSize        \* else it fails
    /\ LET m   == mem[p]
           new == IF n > 0 THEN Uvmalloc(MK, m.table, m.sz, m.sz + n)
                  ELSE Uvmdealloc(MK, m.table, m.sz, m.sz + n)
       IN  /\ Becomes(new.k)
           /\ mem' = [mem EXCEPT ![p] =
                        Image(m, new.t, IF n > 0 /\ new.sz = 0 THEN m.sz ELSE new.sz)]
    /\ UNCHANGED <<exec, lineage>>

\* sys_sbrk() that only notes the new size.
SbrkLazy(p, n) ==
    /\ InUser(p) /\ n >= 0
    /\ mem[p].sz + n <= TopPage * PgSize
    /\ mem' = [mem EXCEPT ![p] = Image(@, @.table, @.sz + n)]
    /\ UNCHANGED <<kmem, mpanic, exec, lineage>>

\* The table after a write to page v by p, if the page is there.
Loaded(t, v, p) == [t EXCEPT !.map[v] = IF @ = Hole THEN Hole ELSE @ \union {p}]

\* vmfault() allocates: below the size and not mapped, ismapped().
Faults(m, v) == v * PgSize < m.sz /\ m.table.map[v] = Hole

\* The process writes to a page, or the kernel does in copyout(); copyin() is the
\* same but for the write.  Without memory the process is killed or the call fails.
Access(p, v) ==
    /\ InUser(p)
    /\ LET now == [k |-> MK, t |-> mem[p].table, ok |-> TRUE]
           r   == IF Faults(mem[p], v) THEN AddPage(now, v, {}) ELSE now
       IN  /\ Becomes(r.k)
           /\ mem' = [mem EXCEPT ![p] = Image(@, Loaded(r.t, v, p), @.sz)]
    /\ UNCHANGED <<exec, lineage>>
-----------------------------------------------------------------------------
(* sys_exec() and kexec()                                                  *)

In(p, place) == Runs(p) /\ exec[p].at = place
ImageKept    == UNCHANGED <<mem, lineage>>

\* sys_exec() allocates a page for every argument; label bad frees those it got.
ExecArgs(p, n) ==
    /\ InUser(p) /\ n <= kmem
    /\ kmem' = kmem - n
    /\ exec' = [exec EXCEPT ![p] = Building([argv |-> n], "open", NoTable, 0)]
    /\ ImageKept /\ UNCHANGED mpanic

\* The file is no program, or there is no memory for a page table; else go on.
ExecTable(p) ==
    /\ In(p, "open")
    /\ LET t == ProcPagetable(MK)
       IN  \/ Becomes(MK) /\ exec' = [exec EXCEPT ![p] = Building(@, "bad", @.table, @.sz)]
           \/ /\ Becomes(t.k)
              /\ exec' = [exec EXCEPT ![p] =
                            Building(@, IF t.t.root = 0 THEN "bad" ELSE "load", t.t, 0)]
    /\ ImageKept

\* One program segment: uvmalloc() and loadseg(), which may fail.
ExecSegment(p, end) ==
    /\ In(p, "load")
    /\ LET u == Uvmalloc(MK, exec[p].table, exec[p].sz, end)
       IN  /\ Becomes(u.k)
           /\ \E loaded \in BOOLEAN :
                exec' = [exec EXCEPT ![p] =
                            Building(@, IF u.sz # 0 /\ loaded THEN "load" ELSE "bad",
                                     u.t, IF u.sz = 0 THEN @.sz ELSE u.sz)]
    /\ ImageKept

\* The guard page and the stack.  The arguments may not fit.
ExecStack(p) ==
    /\ In(p, "load") /\ PgUp(exec[p].sz) + 2 <= TopPage
    /\ LET sz == PgUp(exec[p].sz) * PgSize
           u  == Uvmalloc(MK, exec[p].table, sz, sz + 2 * PgSize)
       IN  /\ Becomes(u.k)
           /\ \E fits \in BOOLEAN :
                exec' = [exec EXCEPT ![p] =
                            Building(@, IF u.sz # 0 /\ fits THEN "commit" ELSE "bad",
                                     u.t, IF u.sz = 0 THEN sz ELSE u.sz)]
    /\ ImageKept

\* Mutant: the old image is freed up to the new size.
OldSize_New(p) == exec[p].sz

\* oldsz of kexec().
OldSize(p) == mem[p].sz

\* The new image replaces the old one; sys_exec() frees the arguments.
ExecCommit(p) ==
    /\ In(p, "commit")
    /\ Becomes(Kfree(FreeTable(MK, mem[p].table, OldSize(p)), exec[p].argv))
    /\ mem' = [mem EXCEPT ![p] = Image(@, exec[p].table, exec[p].sz)]
    /\ exec' = [exec EXCEPT ![p] = NoExec]
    /\ UNCHANGED lineage

\* Label bad: the new image is freed, the old one stays.
ExecBad(p) ==
    /\ In(p, "bad")
    /\ Becomes(Kfree(IF exec[p].table.root = 0 THEN MK
                     ELSE FreeTable(MK, exec[p].table, exec[p].sz), exec[p].argv))
    /\ exec' = [exec EXCEPT ![p] = NoExec]
    /\ ImageKept

MemoryNext ==
    \E p \in Slots :
        \/ \E q \in Slots : ForkMemory(p, q)
        \/ FreeMemory(p)
        \/ \E n \in Growth : Sbrk(p, n) \/ SbrkLazy(p, n)
        \/ \E v \in VPages : Access(p, v)
        \/ \E n \in Argc : ExecArgs(p, n)
        \/ ExecTable(p) \/ ExecStack(p) \/ ExecCommit(p) \/ ExecBad(p)
        \/ \E e \in SegmentEnds : ExecSegment(p, e)

MemorySpec == MemoryInit /\ [][MemoryNext]_memoryVars
-----------------------------------------------------------------------------
(* Properties                                                              *)

TablePages(t) == t.root + t.high + t.low + Mapped(t, VPages)
PagesOf(p)    == mem[p].trapframe + TablePages(mem[p].table)
                 + TablePages(exec[p].table) + exec[p].argv

\* Every page is in the free list or belongs to a process or to an exec() under
\* way, whichever way fork, exec, sbrk and exit go, also when memory runs out half
\* way: no page is lost and none is freed twice.
PagesAccounted ==
    kmem + Cardinality(UNION {{p} \X (1 .. PagesOf(p)) : p \in Slots}) = NPages

\* The assertions "mappages: remap" and "freewalk: leaf" hold: all pages of a
\* process lie below its size, also those allocated lazily or left by a failure.
MemoryNoPanic == mpanic = "none"

\* A process finds in its memory what it, its ancestors or its program put there,
\* never the junk or the data of another process that the page had before.
MemoryIsPrivate ==
    \A p \in Slots, v \in VPages :
        mem[p].table.map[v] \in {Hole} \union SUBSET lineage[p]

\* Pages are accounted for, page tables are torn down without a panic, and memory is
\* private, through every failure of fork, exec, sbrk and page faults.
MemorySound == PagesAccounted /\ MemoryNoPanic /\ MemoryIsPrivate
=============================================================================
