---------------------------- MODULE MCComponents ----------------------------
(***************************************************************************)
(* Small components, model-checked side by side: of the shell the history, *)
(* command lines and directories, of S.H.A.M. the chat mode, of xv6        *)
(* processes, memory, spin locks, the disk with the buffer cache, the      *)
(* console and malloc().  Their models share no state, so a behaviour is   *)
(* one of a single component, the focus, and the others stay as they are.  *)
(***************************************************************************)
EXTENDS ShellLog, ShellLine, MCShellDirs, Xv6Proc, Xv6Memory, Xv6Spinlock, Xv6Disk,
        Xv6Console, ShamChat, Xv6Malloc

VARIABLE focus

AllInit ==
    /\ HistoryInit /\ LineInit /\ DirsInit /\ ProcInit /\ MemoryInit /\ SpinInit
    /\ DiskInit /\ ConsoleInit /\ ChatInit /\ MallocInit
    /\ focus \in {"history", "line", "dirs", "process", "memory", "spinlock", "disk",
                  "console", "chat", "malloc"}
    /\ focus # "disk" => free = Descs
    /\ focus # "chat" => reliable

\* The components but f stay as they are.
OthersStay(f) ==
    /\ UNCHANGED focus
    /\ f # "history"  => UNCHANGED historyVars
    /\ f # "line"     => UNCHANGED line
    /\ f # "dirs"     => UNCHANGED dirVars
    /\ f # "process"  => UNCHANGED taskVars
    /\ f # "memory"   => UNCHANGED memoryVars
    /\ f # "spinlock" => UNCHANGED spinVars
    /\ f # "disk"     => UNCHANGED ioVars
    /\ f # "console"  => UNCHANGED consoleVars
    /\ f # "chat"     => UNCHANGED chatVars
    /\ f # "malloc"   => UNCHANGED heapVars

AllNext ==
    \/ focus = "history"  /\ HistoryNext /\ OthersStay("history")
    \/ focus = "line"     /\ LineNext    /\ OthersStay("line")
    \/ focus = "dirs"     /\ DirsNext    /\ OthersStay("dirs")
    \/ focus = "process"  /\ ProcNext    /\ OthersStay("process")
    \/ focus = "memory"   /\ MemoryNext  /\ OthersStay("memory")
    \/ focus = "spinlock" /\ SpinNext    /\ OthersStay("spinlock")
    \/ focus = "disk"     /\ DiskNext    /\ OthersStay("disk")
    \/ focus = "console"  /\ ConsoleNext /\ OthersStay("console")
    \/ focus = "chat"     /\ ChatNext    /\ OthersStay("chat")
    \/ focus = "malloc"   /\ MallocNext  /\ OthersStay("malloc")

allVars == <<historyVars, line, dirVars, taskVars, memoryVars, spinVars, ioVars, consoleVars,
             chatVars, heapVars, focus>>

AllSpec == AllInit /\ [][AllNext]_allVars
-----------------------------------------------------------------------------
\* sbrk() by less and by more than a page, and by more than there may be.
SbrkSizes == {-3, 1, 3}
=============================================================================
