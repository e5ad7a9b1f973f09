-------------------------- MODULE TransactionalDisk -------------------------
(***************************************************************************)
(* What the file system expects of xv6's log: system calls change blocks   *)
(* in transactions; a crash takes the disk back to a moment at which no    *)
(* system call was in progress, never to the middle of one.                *)
(***************************************************************************)
CONSTANTS Procs, Blocks, Values, InitialDisk

VARIABLES
    mem,       \* the blocks as the system calls see them
    stable,    \* the blocks as a crash would leave them
    active     \* system calls between begin_op() and end_op()

vars == <<mem, stable, active>>

Init == mem = InitialDisk /\ stable = InitialDisk /\ active = {}

Begin(p) ==
    /\ p \notin active
    /\ active' = active \union {p}
    /\ UNCHANGED <<mem, stable>>

Write(p, b, v) ==
    /\ p \in active
    /\ mem' = [mem EXCEPT ![b] = v]
    /\ UNCHANGED <<stable, active>>

End(p) ==
    /\ p \in active
    /\ active' = active \ {p}
    /\ UNCHANGED <<mem, stable>>

\* All that the finished system calls did becomes durable at once.
Commit ==
    /\ active = {}
    /\ stable' = mem
    /\ UNCHANGED <<mem, active>>

Crash ==
    /\ mem' = stable
    /\ active' = {}
    /\ UNCHANGED stable

Next ==
    \/ \E p \in Procs : Begin(p) \/ End(p)
    \/ \E p \in Procs, b \in Blocks, v \in Values : Write(p, b, v)
    \/ Commit
    \/ Crash

Spec == Init /\ [][Next]_vars
=============================================================================
