# Verification of the operating-systems-and-networks mini-project

TLA+ models of the three programs of the repository, TLC runs that check them on
small instances, and TLAPS proofs for all instances. `PROJECT.json` lists, for
every definition, the lines of code it stands for, and for every property a
mutant of the code that breaks it.

Run a model with `tlc -config X.cfg M`, check the proofs with `tlapm P.tla` for each of
`ShamProofs`, `ProcessProofs`, `RingProofs`, `Xv6SchedulersProofs`, `Xv6DiskProofs`,
`Xv6FilesProofs`, `Xv6FilesSafety` and `Xv6FilesLinks`.

## 1. The system

| Part | Code | State | Operations |
|---|---|---|---|
| S.H.A.M. file transfer | `networking/sham.h`, `client.c`, `server.c` | client: `window_base`, `next_seq_num`, window array, retries; server: `next_expected_seq`, `recv_buffer`; datagrams on the way | three-way handshake, sliding window with cumulative ACKs and retransmission, four-way termination, `received_file` |
| S.H.A.M. chat | same files | standard input with its buffer and a socket, under `select()`; datagrams on the way | send a line, show a line, `/quit` |
| Shell job control | `shell/src/jobs.c`, `job_control.c`, `signals.c`, `executor.c`, `main.c` | job table, `foreground_pid`, `next_job_id`; the kernel's children | background and foreground commands, pipelines, `fg`, `bg`, `ping`, Ctrl-C, Ctrl-Z, Ctrl-D, `check_background_jobs()` |
| Shell history | `shell/src/log.c` | ring buffer of 15 commands, file `.shell_log` | add, show, purge, load, save |
| Shell command lines | `parser.c`, `executor.c` | the line | check it against the grammar, split it again to run it |
| Shell directories | `hop.c`, `reveal.c` | working directory, `prev_dir` | change directory, list |
| xv6 schedulers | `xv6/kernel/proc.c`, `mlfq_scheduler.c`, `trap.c`, `proc_init.c` | process table with `p->lock`, `ctime`, `queue`, `time_slice`; per CPU `c->proc` | Round Robin, FCFS, CFS and MLFQ `scheduler()`, `yield()`, priority boost |
| xv6 `getreadcount` | `xv6/kernel/file.c`, `sysproc.c` | `total_bytes_read` | count, read |
| xv6 log and buffer cache | `xv6-source/kernel/log.c`, `bio.c` | log header, pinned buffers, disk | `begin_op`, `log_write`, `end_op`, commit, recovery |
| xv6 pipes | `xv6-source/kernel/pipe.c`, `file.c` | ring buffer, open ends, reference counts | read, write, close |
| xv6 processes | `xv6-source/kernel/proc.c`, `sysproc.c`, `trap.c` | process table, parents, channels, `killed`, `wait_lock` and `p->lock` | fork, exit with reparenting, wait, kill, sleep, wakeup, pause |
| xv6 files | `fs.c`, `file.c`, `sysfile.c` | inodes and their copies in memory, block bitmap, directories, file table, descriptors, current directories | create, link, unlink, mkdir, mknod, open, chdir, read, write, dup, close; `ireclaim()` after a crash |
| xv6 memory | `kalloc.c`, `vm.c`, `exec.c`, `proc.c` | free pages, page tables, sizes | fork, exec, sbrk (eager and lazy), page faults, exit |
| xv6 spin locks | `spinlock.c` | `locked`, `cpu`; per CPU `noff`, `intena`, the interrupt flag | acquire, release, interrupts |
| xv6 disk path | `bio.c`, `sleeplock.c`, `virtio_disk.c` | buffers with counts and sleep locks, descriptors, rings | bread, bwrite, brelse, bpin, requests, interrupts |
| xv6 console | `console.c`, `uart.c` | input ring with three indices, transmitter | read, write, line editing, echo, interrupts |
| xv6 `malloc()` | `user/umalloc.c` | ring of free blocks | malloc, free, morecore |

The parts of one program interact through shared state and calls, the two S.H.A.M.
programs through datagrams only. What is hard about them:

* **S.H.A.M.** — datagrams are lost, repeated and reordered; a timer races a late
  ACK; the slot of a packet is computed from a window base that moves; `FIN` is sent
  once; a receive of the server fails in the middle. Correct means: the receiver's buffer
  is a prefix of the file, success is reported only when it is complete, a server that has
  seen the `FIN` writes all of it, both programs end.
* **Shell** — children stop, continue and end at any time, the two handlers run at any
  time, the table is only brought up to date between command lines, the table and the
  ids run out, `fork()` fails. Correct means: the table names children of the shell,
  its errors are corrected, the shell gets control back.
* **History** — the ring wraps around, is saved and loaded again; the shell is killed
  while it saves. Correct means: file, memory and the list of newest commands agree.
* **Schedulers** — several CPUs scan one table, the lock of a process is handed over
  across `swtch()`. Correct means: no process runs twice, `sched()` finds exactly one
  lock held, the best process is chosen, nobody starves.
* **Log** — system calls share transactions, buffers are recycled, the machine crashes
  between any two disk writes, also during recovery. Correct means: transactions.
* **Pipes** — wakeups race with falling asleep, processes are killed in the middle,
  counters wrap around. Correct means: a queue, no lost wakeup, freed once.

* **Chat** — either side or both leave at any time; a `FIN` crosses a line on its way.
  Correct means: what is typed is shown, and nobody stays behind in a chat that is over.
* **Command lines** — a line is parsed twice, by different code. Correct means: the parser
  accepts the grammar, and what runs is what was parsed.
* **Directories** — other programs remove directories, one of several arguments of `hop`
  fails. Correct means: `prev_dir` is the directory that was left, and `reveal` looks where `hop` goes.
* **Processes** — exits of parents, children and grandchildren interleave; an entry of the
  table and its kernel stack are reused. Correct means: every exit is seen by a parent.
* **Files** — several processes create and remove the same names while inodes, blocks
  and table entries run out half way through a call, and the power fails. Correct means:
  link counts, blocks, references and locks stay consistent, in memory and on disk.
* **Memory** — runs out anywhere inside fork, exec and sbrk. Correct means: no page is
  lost, freed twice, or seen by another process.
* **Spin locks** — an interrupt in the middle of `push_off()`, nested locks. Correct means:
  exclusion, and interrupts are given back exactly when the last lock is.
* **Disk path** — two requests end while the handler looks; buffers are recycled. Correct
  means: a holder reads the latest data, no sleeper and no descriptor is forgotten.
* **Console** — echo and output share a port without a common lock, indices wrap around.
  Correct means: input is kept in order, sleepers wake up, the port is not overrun.
* **`malloc()`** — splitting and joining after any sequence of calls. Correct means:
  nothing is given out twice, and free memory is in one piece where it can be.

`PROJECT.json` lists these hazards one by one with the line where each bites.

## 2. Modules

| Module | Models |
|---|---|
| `Sham` | packet format; UDP as two bounded queues that may lose, repeat and reorder |
| `ShamClient`, `ShamServer` | the two programs in file mode, one action per send, receive and timeout |
| `ShamTransfer` | their composition with the network, its properties and the invariant `Coherent` |
| `FileDelivery` | abstract: what a file transfer promises |
| `ShellJobs` | job table, commands, handlers; the kernel's process states are external |
| `ShamChat` | both `handle_chat_mode()` loops |
| `ShellLog` | ring buffer, file, sessions, kills |
| `ShellLine` | the parser, and the executor's own splitting of a line |
| `ShellDirs` | `hop` and `reveal` while directories come and go |
| `Xv6Log` | `log.c` down to the single disk write, with crashes and recovery |
| `TransactionalDisk` | abstract: what the file system expects of the log |
| `Xv6Schedulers` | the four schedulers, their locks, ticks and the processes' comings and goings |
| `Xv6Pipe` | a pipe with `sleep()`, `wakeup()`, `kkill()`, `fork()` and file reference counts |
| `Xv6Proc` | fork, exit, wait, kill, sleep, wakeup, pause |
| `Xv6Files` | inodes, blocks, directories, paths, open files and their system calls, crash and boot |
| `Xv6Memory` | page allocator, user page tables, fork, exec, sbrk, page faults, exit |
| `Xv6Spinlock` | spin locks with interrupts |
| `Xv6Disk` | buffer cache, sleep locks and disk driver; the device is external |
| `Xv6Console` | console and serial port; the port is external |
| `Xv6Malloc` | `malloc()`, `free()`, `morecore()` |
| `ShamProofs` | theorems about `ShamTransfer` and `ShamChat` |
| `ProcessProofs` | theorems about parents and children, and what is theirs: `ShellJobs` and `ShellDirs`, `Xv6Proc` and `Xv6Memory` |
| `RingProofs` | theorems about the rings: `Xv6Pipe`, `Xv6Console`, `ShellLog`, `Xv6Malloc` |
| `Xv6SchedulersProofs` | theorems about `Xv6Schedulers` and `Xv6Spinlock` |
| `Xv6DiskProofs` | theorems about `Xv6Disk` and `Xv6Log` |
| `Xv6FilesProofs` | what the operators of `Xv6Files` keep; the invariant `Tables`, and the theorem about the tables in memory |
| `Xv6FilesSafety` | the order of directories and the blocks of inodes, and the theorems about locks, blocks and inodes without links; the invariant of the links, and the steps that change none |
| `Xv6FilesLinks` | the steps that change links, and the theorems about link counts on disk and panics |
| `MCXv6Schedulers`, `MCXv6Pipe`, `MCXv6Files`, `MCShellDirs` | constants of the checked instances |
| `MCWaiting` | job control, the log and a transfer on a quick network, side by side, each with its fairness |
| `MCComponents` | ten components that share no state, side by side: `focus`, chosen in `Init`, says which of them moves |

Several properties of a component that belong together are one named conjunction; its parts have names
and comments of their own (for example `FamilySound == ParentLives /\ ReapedIsGone /\ KilledIsMeant`).

### S.H.A.M.

`cpc` and `spc` are the places of the two `main()` functions where they block or loop;
the header of each module lists them. A payload is the file offset it was read from and
its length, so that a corrupted or misplaced byte is visible in `recv_buffer`. The
client's window is the array of the code, indexed by `WinIdx`, which is `win_idx` with
the current `window_base`. Clocks are abstracted to `Pace`: with `"any"` every timer may
fire at any time; `"rtt"` says that a round trip is shorter than a timer, `"transfer"` that
the whole transfer is. `window_size` and `window[i].acked` are left out, since no branch
reads the one and nothing sets the other. Sequence numbers do not wrap: they
start at 101 and a file would need 4 GB.

With `ServerFaults`, any receive of the server may return -1 (an error of `recvfrom()` that is not its timeout, such as
`EINTR` after a stop, or a stray datagram shorter than a header), and so may `fopen()` fail. In the handshake that ends the
server (`HandshakeError`); in the data loop it leaves the loop without a `FIN` and writes what is in the buffer
(`DataError`, state `broken`). So `received_file` may be a part of the file: `WrittenIsReceived` says which part, and that after a `FIN` it is the whole.
`FileDelivery` promises no more: its receiver ends `done`, with the whole file after `"ok"`, or `broken`, with what it has.

`ShamChat` starts after the handshake. Lines are numbered as they are typed. A terminal gives
standard input's buffer a line at a time, a pipe may give several, and `select()` does not
see what is in the buffer. The network is reliable, or loses and reorders. Sequence numbers
are left out, since chat mode writes but never reads them; `select()` does not fail.

### Shell

`proc` and `event` are the kernel's view: a child's state and the one change `waitpid()`
has not reported. Commands that fork are actions with the new process id as parameter.
`waiting` is what the shell waits for. `lost` is a history variable: the children which
the code never puts into its table by design (all but the last of a pipeline, and
what a full table refuses); it also notes that a `fork()` of a pipeline failed, after
which `waitpid(-1)` may reap anything. The shell never calls `setpgid()`, so Ctrl-C and
Ctrl-Z reach the children the terminal knows of as well as the one the handler signals.

`ShellLog` has the two steps of `save_log()` as actions (`fopen("w")` truncates,
`fclose()` writes), and `Killed` may come in between; `fopen()` may fail, too (`SaveFails`), and then the
file stays as it is. Two history variables say what is expected: `recent`, which commands the ring ought to show, and
`kept`, which ought to be in the file. A file that exists is taken to be readable.

`ShellLine` has no steps of its own: its states are all lines of up to `MaxLine` characters, typed one
by one, and the parser and the executor are functions of the line. A character is a name character, a blank or one of the special ones
(`;`, `&`, `|`, `<`, `>`). `ParseInput` follows `parse_input()` with its moving pointer; `IsValid` and `Meaning`
are the reference, which reads the grammar over token positions; `Executed`, with `Groups`, `Pipeline`
and `ParseCommand`, follows the executor, which cuts the line at separators again. `LineUnderstood` says that the grammar in
`parser.c`'s comments is accepted, that nothing is accepted which `TEST_COMMANDS.txt` would not run either, and that what is accepted runs
as it was parsed: the same groups, pipelines and arguments, and the input file of a pipeline's first and the output file of its last
command. The others are opened by nobody (`executor.c:271`, `281`; `Redirected`).

`ShellDirs` has `hop`'s loop over its arguments with a step per argument, so that
directories can be removed between two of them. A removed directory stays the working directory of who is in
it: `getcwd()` fails there and names lead nowhere, but `..` still leads to its parent.

### xv6

`Xv6Log` has one action per disk write of `commit()` and of recovery, and `Crash` clears
all memory. `log_write()` at a full log panics, also for a block that is in the log already, since it checks the size
before it looks for the block (`log.c:221`). `Write` is therefore for calls that have written fewer than `MAXOPBLOCKS` blocks:
one that has written that many may not write even one of them again, which is one block less than
`param.h` allows ("max # of blocks any FS op writes"). No call of `fs.c` and `sysfile.c` comes near it. Buffers are filled and recycled at any time unless pinned. The refinement
mapping gives `TransactionalDisk` the blocks as system calls see them (`Current`) and as a
recovery would leave them (`Recovered`).

`Xv6Schedulers` chooses `policy`, the build option, in `Init`. `acquire()` of each slot is a
step, so scans of two CPUs interleave slot by slot. `Keep` is the hand-over-hand locking
of FCFS and CFS. `Enter` and `Leave` are the release and acquire by the process itself.
Under CFS the log loop acquires a lock that the CPU already holds, and
`acquire()` panics (`Log`): no process ever runs, so `vruntime` stays 0 and the code
behind it is not modelled. `waited` is a history variable for `BestFirst`.

In `Xv6Pipe` a process holds `pi->lock` except while it waits for it or sleeps; falling
asleep takes two steps, between which `p->lock` is held. A byte is its number modulo the
counters' `Modulus`, so runs are not bounded in length. `untold` is a history variable for
the bytes that a killed writer leaves without a wakeup.

`Xv6Proc`: a step is what happens under one lock, or up to the next place where another
process can see or do something. `p->lock` is shown where it is held across steps: in
`sleep()` after the release of the caller's lock, and in `kexit()` until the scheduler has left the
stack. Nobody kills the first process, which would panic. `asked` is the history
variable of kills that were meant for the present holder of an entry.

`Xv6Files` puts a step boundary wherever a process may wait for an inode's lock or another
process can see a difference: `namex()` is a step per name, `iput()` that frees an inode is
two, `writei()` is a step per block. The operators on `K` (`Balloc`, `Bmap`, `Iget`, `Ilock`,
`Iupdate`, `Itrunc`, `Dirlink`) are the functions of `fs.c`; each keeps the partial effects it leaves
when it fails. The log is taken at its word: `disk` becomes `fs` when the last system call
ends its transaction, which is what `Xv6Log` shows with `TransactionalDisk`. Sizes count blocks, or
entries in a directory; of a block's content only which inodes wrote it. `Image` is a disk
with a directory and, in it, a file or a directory. `buried`, `buriedDisk` and `dangling` are history
variables for two things that the code permits (below): the inodes entered into a removed directory, in memory and on disk, and that a process
went up from a directory whose parent is gone. The inode table has an entry for every inode, so that `iget()` never runs out of entries.

`Xv6Memory` counts pages, since it does not matter which free one `kalloc()` returns. A page
table has page-table pages for the trampoline (high) and for user memory (low), and the mapped
pages with the set of processes that wrote them, or junk. Sizes are in parts of
a page, so that `sbrk()` crosses page boundaries and does not. `AddPages` is the loop of `uvmalloc()` and of
`uvmcopy()`: a recursive function of the rounds done, so that the proofs can speak about it.

`Xv6Spinlock` has a step for every access another CPU can see. A CPU's handler is
a thread of its own that can come in whenever the interrupt flag is on, also between the two reads
and writes of `push_off()`.

`Xv6Disk`: clients use buffers as `log.c` and `fs.c` do: what was modified is written or pinned
before it is released. The rings are sets; the device takes requests in any order;
`virtio_disk_intr()` acknowledges the interrupt in one step and looks at the ring in another.
Content is only whether it is the latest.

`Xv6Console`: what happens under `cons.lock` is one step with the echo, which `uartputc_sync()`
sends without `tx_lock`. Indices wrap at `IndexMod` instead of 2^32.

`Xv6Malloc` is in units of a header, with `base` at address 0. `blocks`, a function from a free block's
address to its size and successor, is the ring. The program may call `sbrk()` itself between two
calls (`foreign`), so that the heap has gaps.

## 3. Runs

| Run | Configuration | Checks |
|---|---|---|
| `sham_hostile_network` | loss, duplication, reordering, timers at any time, failing receives and `fopen()` of the server; 5 bytes in packets of 2, window 2, 1 retry | `Coherent`, `Integrity`, `AckSound`, `NeverTakenBack`, refinement of `FileDelivery` (`Implements`), `ClientTerminates` |
| `sham_retransmission` | *violation*: a packet the server drops on purpose is lost | `ResendsUnacked` |
| `sham_fin_lost` | *violation*: loss | `ReportedIsWritten` |
| `jobs_log_transfer` | job control: 3 process ids, 2 jobs, pipelines, failing forks, outside signals | `JobTableSound`, `WrongIsPending`, `ForegroundIsWaited`, `StopReturnsPrompt` |
| | log: 2 system calls, 3 blocks, 2 values, log of 2 blocks | `LogAdmits`, refinement of `TransactionalDisk` (`Transactional`), `SleepersWake` |
| | transfer: no loss, shorter than the timer; 13 bytes in packets of 2, window 3 | `FileArrives` |
| `shell_pipeline_stopped` | *violation*: 2 process ids | `PipelineReturnsPrompt` |
| `shell_append_kept` | *violation*: lines of 6 characters | `OverwritesFile` |
| `shell_hop_back` | *violation*: three directories | `HopGoesBack` |
| `small_components` | see below | `Persistent`, `HistorySound`, `LineUnderstood`, `DirsSound`, `ChatSound`, `FamilySound`, `NoLostExit`, `MemorySound`, `SpinSound`, `DiskSound`, `ConsoleInput`, `SerialOutput`, `HeapSound` |
| `xv6_files` | 2 symmetric processes, 4 inodes, 5 blocks, files of 1 direct and 1 indirect block, 3 entries per directory block, 2 files, 2 descriptors, 3 system calls, 1 crash | `LinksOnDisk`, `BlocksSound`, `OrphansAreUsed`, `NoLockCycle`, `NoPanic`, `TablesSound` |
| `xv6_schedulers` | 2 CPUs, 3 processes (2 under MLFQ), 2 queues, boost every 2 ticks | `SwitchSound`, `BestFirst`, `ScanEnds`, `RoundRobinRunsAll` |
| `xv6_mlfq_starvation` | *violation*: 1 CPU, 3 processes, boost every 2 ticks | `BoostPreventsStarvation` |
| `xv6_pipe` | 3 processes, buffer of 2 bytes, counters modulo 4, reads and writes of 3 bytes | `PipeIsFifo`, `SleepsForAReason`, `PipeLives` |

### Why these bounds

* Five bytes in packets of two make three packets, one more than the window, with a
  short last one: the window moves while packets are on the way and a slot is reused. One
  retry separates "resent" from "given up". Three datagrams per channel are enough for a
  reordering and an overflow. The proofs remove all of these bounds for safety.
* Three process ids allow a two-stage pipeline next to a job, and reuse of an id; two
  table slots fill up. Job ids are bounded by `MaxJobId`: the code's are not, and nothing but
  their distinctness matters.
* History: a ring of four with three commands wraps around several times and repeats commands.
* Lines of five characters hold every pair of neighbouring operators and a name on each side; the
  parser's and the executor's loops look one token ahead. Three directories in a chain and two arguments
  let the first succeed and the second fail, and a directory vanish in between.
* Chat: two lines a side, in one piece or two, and three datagrams on the way.
* Processes: three, one of them `init`: a child, a grandchild that is reparented, reuse of an
  entry. More generations only repeat `reparent()`.
* Memory: 15 pages are enough for two processes but not for an `exec()` next to a grown one,
  so that every allocation of every operation is one that fails in some behaviour. Half pages give
  sizes that are no multiples of a page.
* Spin locks: two CPUs, two locks, their handlers; the proofs remove these bounds.
* Disk: three sectors for two buffers force recycling; 8 descriptors serve two requests of three, 5
  serve one, so that one client sleeps for descriptors.
* Console: a ring of two fills up within a line, indices modulo 4 wrap around; a FIFO of two bytes
  with an echo and a writer.
* `malloc()`: 12 units in pieces of two and three, got from `sbrk()` four at a time: blocks are split, joined below, above and on
  both sides, and memory runs out.
* Files: both processes work on the names `a`, `b` and `a/b`, which may be files, directories or
  devices. One free inode and two free blocks run out within a call. Three system calls suffice for
  one process to use what a second removes and a third call reuses; a crash may come after any step.
* A log of two blocks with `MAXOPBLOCKS` 1 has room for two system calls; the third
  block shows that space is freed, and that a call rewrites a block of another one's in a full log.
* Two CPUs and three slots let a scan hold a candidate and wait for a slot while the
  other CPU does the same. `MaxTime` 1 separates older from younger. MLFQ has two queues
  with slices of one and two ticks; `MaxProcs` keeps it at two processes at a time.
* A buffer of two bytes fills up within one write of three; modulo 4 the counters wrap
  around after two fillings. Short reads and writes come from `copyin()` and `copyout()` that
  fail. Three processes make two readers, or two writers. The two heirs of the first
  process are symmetric; the run has no liveness property.

### Fairness

* S.H.A.M.: weak fairness of both programs. They run on ordinary schedulers and block only
  in a receive with a timeout (or, the server in its handshake and data loop, without
  one, where the action is then disabled). Strong fairness of `Timer`: every round of
  `send_file()` takes up to 100 ms, so the 500 ms of a slot that is looked at again and again
  pass. The network owes nothing: it may lose everything.
* Shell: weak fairness of the shell's own steps; none for the user, the processes and signals.
* Log: commits, recovery and system calls go on; a woken process runs again.
* Schedulers: weak fairness of each CPU and of the clock; processes owe nothing but are
  interrupted. `ClockSpec` adds that the clock does not stop while it is held up by
  the assumption that `scheduler()` takes less than a tick (`ShortLoop`).
  That assumption is used in the violation only: it excludes counterexamples with a slow scan.
* Chat, lines, directories, processes, files, memory, locks, disk and console are checked for safety
  only, without fairness. Lost wakeups there are invariants: whoever sleeps has a waker (`NoLostExit`,
  `DiskSleeperWakes`, `TxSleeperWakes`, `ReaderSleepsForInput`).
* Deadlock is not checked where a run really may stop: both programs end; the shell is
  left; CFS panics; all processes exit; the number of system calls is used up; a chat is over.

### What the violations show

1. `sham_retransmission` — `networking/README.md` says that unacknowledged packets are
   retransmitted. After the window has moved, the slot that the loop looks up for the
   packet at `window_base` holds an acknowledged packet, which is sent instead of the lost one. The
   transfer stays correct (see `Integrity`), but it fails after the retries.
2. `sham_fin_lost` — when the single `FIN` is lost, the client reports success and ends,
   and the server waits for ever and writes nothing.
3. `shell_pipeline_stopped` — Ctrl-Z during a foreground pipeline leaves the shell in a
   `waitpid()` that does not ask for stopped children.
4. `shell_append_kept` — in `a >> x > y` the second redirection appends as well: `parse_command()` never takes
   `append_output` back (`executor.c:99`), while `parser.c` does and `shell/README.md:86` says that `>` overwrites.
5. `shell_hop_back` — after `hop` without arguments, `hop -` stays where it is: `cmd_hop()` stores the directory it has gone
   to as `prev_dir` (`hop.c:22`); `shell/README.md:20` says that `hop -` goes to the previous directory. `DirsSound` is
   about all other forms.
6. `xv6_mlfq_starvation` — the boost returns all processes to queue 0, whose first slots
   are served first: with more CPU-bound processes than ticks between boosts (64 slots, 48 ticks)
   the last slots never run, although `mlfq_scheduler.c` and `xv6/README.md` rule starvation out.

### Seen while modelling, without a run

* S.H.A.M.: a transfer without any loss fails when it is slower than the retries of its
  first slots allow (about 5.5 s). The client's final ACK always carries `ack_num` 1.
* Shell: Ctrl-C also kills background jobs, for want of process groups; only
  the last process of a pipeline is listed; after a failed fork of a pipeline
  `waitpid(-1)` reaps some other child, whose entry stays. There is no SIGCHLD
  handler, so `activities` shows the table as of the last command line.
* History: a shell that is killed between `fopen("w")` and `fclose()` loses the whole
  history (`Killed` says so), and shells that run together overwrite each other's.
* S.H.A.M.: a receive of the server that fails in the middle of a transfer leaves a part of the file as
  `received_file`, and nothing tells it from a whole one (`server.c:174`, `236`).
* Command lines: `TEST_COMMANDS.txt:137` and `138` run lines like `sleep 2 & ; echo third`, which `parse_input()` refuses as
  invalid, since it wants a command after the `&` (`IsListed` has them, `IsValid` does not). Redirections inside a
  pipeline are parsed and ignored: `a | b < f` does not read `f`. More than 100 groups, or too many pipes or arguments, are
  written past their arrays.
* Directories: `reveal -` reports an error where `hop -` is silent.
* History: where `fopen()` fails, the file keeps the older commands and the shell goes on (`log.c:60`).
* Chat: lines that a pipe delivered together stay in the buffer until more input comes; end of
  file on standard input makes the loop spin; a lost `FIN` leaves the other side waiting;
  repeated and reordered lines are printed as they come.
* Processes: `kill(0)` finds an unused entry and marks it (`proc.c:597`); `allocproc()` does not
  clear the mark, so the next process in that entry is killed. `kill(1)` panics.
* Files: `create()` and `link()` do not look whether the directory still has a name, so what they
  enter into a removed directory is lost with its links counted (`buriedDisk`, an exception of `LinksOnDisk`);
  `..` of a removed directory whose parent was removed, too, may lead to an inode that has been freed, so that `ilock()`
  panics, or that is in use for something new, so that even a directory whose inode is not filled in yet can be searched
  (`dangling`, the exception of `NoPanic` and `LinksOnDisk`).
* Files and buffers: `iget()` panics when `NINODE` inodes are in use (`fs.c:268`), `bget()` when all buffers are
  (`bio.c:88`): `NPROC` is above `NBUF`, and reads need no admission by `begin_op()`. Neither panic is in the models.
* Log: a call that rewrites a block after it has written `MAXOPBLOCKS` of them can panic in a full log (`log.c:221`).
* Console: what is typed into a full ring is dropped (`console.c:165`); `ConsoleInput` is about what was stored.
* `malloc()` of 2 GB or more passes a truncated number to `sbrk()`. `getreadcount` counts without a lock.
* CFS panics at its first decision. FCFS is preempted at every tick, and chooses the oldest
  again. `xv6/README.md` speaks of five queues, the code has four.
* Pipes: a writer that is killed after some bytes returns without waking the reader (the
  exception in `SleepsForAReason`), and a kill between the look at `p->killed` and `sleep()`
  leaves the victim asleep until the pipe changes.

## 4. Proofs

`ShamProofs` proves for **every** file size, packet size, window size, retry limit, buffer
size and for a network that loses, repeats and reorders (from `ShamAssumption` alone, which
says that these are numbers and truth values):

| Theorem | Statement |
|---|---|
| `TypeCorrect` | `Spec => []TypeOK`; in particular `win_idx` never leaves the array |
| `AlwaysCoherent` | `Spec => []Coherent`, the inductive invariant |
| `IntegrityHolds` | the server's buffer is a prefix of the file |
| `AckSoundHolds` | acknowledged ≤ stored ≤ sent |
| `SuccessHolds` | success is reported only when every byte has arrived |
| `WrittenHolds` | `WrittenIsReceived`: after a `FIN` a written `received_file` is the file, after a failing receive its beginning |
| `ServiceProvided` | `Spec => Implements`: the protocol refines `FileDelivery` |

None of the safety properties is inductive. A late duplicate could break `Integrity`
if it were accepted, so the invariant must speak about the packets on the way.
`Coherent` has three parts: `PacketsOK` (every packet in a channel or a window slot
carries the bytes its sequence number says, no ACK is ahead of the server's buffer, a `FIN`
means success), `ClientOK` (the client's cursors agree with what it has read, and an
accepted ACK is sound) and `ServerOK` (the next expected number is the size of
the buffer, its bytes are in place, and what was written is what was received). It does **not** need the window array to hold the
right packet in the right slot — it does not (see `sham_retransmission`) — only that each slot is
genuine. The proof goes action by action; lemmas on the channels (`PutLemma`, `WithoutLemma`,
`RecvLemma`) say that nothing appears which was not sent. An empty file is a case
of its own: the final ACK can then be taken for that of the handshake.

The part on spin locks of `Xv6SchedulersProofs` proves for **any** set of CPUs and any non-empty set of locks (`SpinAssumption`):

| Theorem | Statement |
|---|---|
| `Inductive` | `SpinSpec => []SpinInv`, the inductive invariant |
| `OneOwner` | a lock has one owner, among all CPUs and handlers |
| `NeverPanics` | no `acquire` of a lock that the CPU holds, no `release` of another's, no `pop_off` too many |
| `Restored` | interrupts are on exactly between critical sections |
| `SpinLocksSound` | the conjunction `SpinSound`, which `small_components` checks |

Exclusion alone is not inductive: an interrupt handler shares `noff` and `intena` with the
code it interrupts, and `push_off()` reads the interrupt flag before it turns it off.
`SpinInv` therefore has, besides the types, `Owners` (owned locks are locked, by one thread, and
`lk->cpu` names its CPU except at the ends of a critical section) and for every CPU `Cpu(c)`: while its
code runs, `noff` is the number of its `push_off()` still open and the interrupt flag is on if and only if that is
0; while its handler runs, the interrupted code owns nothing and is outside
`acquire()` or has only just read the flag, as on. Each action has a lemma (`PushOffStep`, `AcquireSpinStep`, ...);
`Frame` says that a CPU is left alone by what happens on another.

### Chat (`ShamProofs`)

`ChatInvariant` and `ChatIsSound` hold for any number of lines, any buffering of standard input, any number of
packets on the way, and both kinds of network (`ShamChatAssumption`). `ChatInv` describes each
direction (`Flow`): on a lossy network nothing is printed or on the way that was not sent and a `FIN` on the
way means that the other side has left its loop; on a reliable one, what was got followed by what is on the way is what was
said followed by the packets that end a chat. The last equation makes
`ChatSound` inductive: without it a line on the way could be overtaken or forgotten.

### Shell (`ProcessProofs`)

| Theorem | For | Statement |
|---|---|---|
| `JobsInvariant` | any process ids, any table size | `JobInv` |
| `TableIsSound` | | `JobTableSound`: the table lists the shell's children, each once, none is forgotten |
| `NoChangeIsLost` | | `WrongIsPending`: a wrong status is one that `waitpid()` will still report |
| `HandlersAreRight` | | `ForegroundIsWaited`: the handlers know the process that the shell waits for |
| `DirsInvariant` | any tree of directories, any number of arguments | `DirsInv` |
| `DirsAreSound` | | `DirsSound`: `prev_dir` is the directory that the last `hop` left, if it had arguments; `reveal` looks where `hop` goes |

The table alone is not inductive, because a foreground command is in no slot until it stops, and `fg` has a
process in a slot and waits for it. `Waits` says for every place of the shell which of the two it
is and what is still to happen to the slot; `Agrees` ties a status to the event that the kernel keeps. `ForksWell` is
the hypothesis of all but the kernel's part, as in the properties: after a pipeline whose `fork()` failed,
`waitpid(-1)` may reap anything. `DirsInv` needs to know that every removed directory on the way up from the
working directory is in `dead` (`WaysUp`), so that a `hop ..` out of one leads where `reveal ..` looked. `ShellDirsAssumption` says
that the directories form a tree; the way to the root is defined as an intersection of closed
sets, so that it needs no recursion.

### Rings (`RingProofs`)

| Theorem | For | Statement |
|---|---|---|
| `PipeInvariant` | any finite set of processes, any buffer size, any counter width that it divides | `PipeInv` |
| `BytesInOrder` | | `PipeIsFifo`, also when `nread` and `nwrite` wrap around |
| `NoWakeupIsLost` | | `SleepsForAReason` |
| `FreedOnce` | | `PipeLives` |
| `ConsoleInvariant` | any ring, any index width that it divides, a FIFO of at least two bytes | `ConsoleInv` |
| `InputIsKept` | | `ConsoleInput`: `cons.buf` holds what was typed and not erased, readers are woken, end of file |
| `OutputGoesOn` | | `SerialOutput`: writers are woken, the FIFO is not overrun |
| `HistoryInvariant` | any length of the history, any commands | `HistoryInv` |
| `CommandsPersist` | | `Persistent`: outside a save, the file holds what ought to be in it |
| `HistoryIsSound` | | `HistorySound` |
| `HeapInvariant` | any heap, any requests, any size of `morecore()`'s pieces | `HeapInv` |
| `HeapIsSound` | | `HeapSound`: nothing is given out twice or lost, adjacent free blocks are joined |

The first three components share the lemmas on counters that wrap around (`Step`, `Slot`: moving an index by a number smaller than its
range, and taking it modulo the size of the ring), which are about `%` and where the size must divide the range,
as 512 and 128 divide 2^32. `Window` says which byte each cell of a pipe between the two counters holds, `Locks` and `Owners`
who holds `pi->lock` and which files there are, `Sleepers` why each process sleeps at every step, also between
the two steps of falling asleep. `InputInv` says the same of `cons.buf`, in two stretches, and that what is being
edited never fills the ring: the last character of a full ring ends the line. `HistoryInv` says of every
step of `save_log()` what the ring and the file hold. `UartFifo >= 2` holds of the 16550, whose FIFO `uartinit()`
turns on: with a single byte, an echo and a writer could overrun it.

`HeapInv` describes the ring of `malloc()` locally: each block's successor is the next higher free address (`Follows`),
and the free blocks, the program's blocks and the units that it got from `sbrk()` itself together tile the heap (`Tiles`). Three lemmas
say that tiles stay tiles when two are joined, one is cut, and one is added at the top; `FreedGood` and `TakenGood` are the four ways
of `free()` and the two of `malloc()` in those terms. The search round the ring is a recursive function; nothing
is needed of it but that what it finds satisfies the condition it looks for (`FoundIsIn`). That it finds one
whenever there is one follows from the order of the ring, by an induction along it that is out of the prover's reach.

### xv6

| Theorem | For | Statement |
|---|---|---|
| `ProcInvariant` | any processes | `ProcInv` |
| `FamiliesAreSound` | | `FamilySound`: a child has a parent that can wait for it, a reaped entry is left, a kill hits who was meant |
| `NoExitIsLost` | | `NoLostExit`: a parent asleep in `kwait()` misses no exit |
| `MemoryInvariant` | any processes, pages, page sizes, page-table levels, arguments of `sbrk()` and `exec()` | `MemInv` |
| `MemoryIsSound` | | `MemorySound`: no page is lost or freed twice, no table is torn down with a page in it, memory is private |
| `SchedulersInvariant` | any number of CPUs, slots, queues; all four policies | `SchedInv` |
| `SwitchesAreSound` | | `SwitchSound`: no process runs twice, a switch hands over one process with its lock |
| `TheBestRunsFirst` | | `BestFirst`: FCFS takes the oldest, MLFQ one of the highest queue |
| `LogInvariant` | any finite set of processes, any blocks, a log that holds one system call | `LogInv` |
| `LogAdmitsAll` | | `LogAdmits`: `log_write()` does not panic, rewrites included, and who sleeps has a waker |
| `LogIsTransactional` | | `Transactional`: the log refines `TransactionalDisk`, with crashes at any time |
| `DiskInvariant` | any finite set of clients, any blocks and buffers, any number of descriptors from three on | `DiskInv` |
| `DiskIsSound` | | `DiskSound`: a holder reads the latest content, no descriptor or sleeper is lost |
| `TablesAreSound` | any finite set of processes and of names, any inodes, blocks and files, any calls | `TablesSound`: a cached inode is that of the disk, every reference is held by somebody, a file is referenced by its descriptors |
| `NoLockCircle` | the same | `NoLockCycle`: no set of processes waits for each other's inode locks |
| `BlocksAreSound` | the same | `BlocksSound`: on disk, each block in use has one place in one inode, and no file has another one's data |
| `OrphansHaveUsers` | the same | `OrphansAreUsed`: an inode without links is referenced as long as it exists |
| `LinksAreSound` | the same | `LinksOnDisk`: link counts on disk are those of the entries, whenever the power fails |
| `NothingPanics` | the same | `NoPanic`: no modelled panic is reached |

* `ProcInv` ties every place in the kernel to the state, the locks and the parent of the process there
  (`StateFits`, `LockFits`, `ForkFits`, `HasParent`), and says what is true of the children of a process that is about to sleep
  in `kwait()` (`WaitFits`): the moment between its look at the table and `sleep()` is where an exit could be lost.
* `MemInv` says of each process and each `exec()` under way (`SlotOk`, `ExecOk`) that its user pages are below its size, also when a
  failure left it half built, that what they hold was written by it or its ancestors, and that all of them together
  with the free list own every page once (`Owned`). Each operator on page tables has a lemma (`UvmunmapFacts`,
  `UvmallocFacts`, `UvmcopyFacts`, `FreeTableFacts`, ...) saying that it moves pages between the free list and the table and loses
  none (`Keeps`). The loops are done by induction all the same: `LoopRuns` shows that a loop has a state after every round, and
  `AddPagesFacts` looks at the first round that would break what the loop keeps. `MemoryAssumption` takes program
  segments to end below `TRAPFRAME`; `kexec()` does not check it, but 2^38 bytes exceed the machine's memory.
* `SchedInv` says which locks a CPU holds at each place (`LocksOK`, `CpuOK`): during FCFS's scan two at a time, across
  `swtch()` the lock that the other side gives back. `OldestSoFar` and `HighestSoFar` say what a scan knows
  of the slots it has passed.
* `LogInv` says in each phase of a commit and of a recovery which of the three copies of a block is up to date
  (`HeaderSound`, `BuffersSound`, `CopiesSound`), which buffers are pinned, and how much room is promised (`Reserved`, by
  counting). A crash maps to a step of the abstract disk in every phase. `MaxOpBlocks <= LogBlocks` is `param.h`'s
  `LOGBLOCKS (MAXOPBLOCKS*3)`: a smaller log never admits anybody.
* `DiskInv` derives reference counts and lock owners from what each client has and does (`Counted`, `Owned`), finds the
  request that each sleeping client waits for (`Requests`), and says where the latest content of a block is (`Latest`): on the disk,
  or in its only buffer, which then is pinned or held by who will write it.

* `Tables`, the invariant behind `TablesAreSound`, says what a process holds at each of the 22 places of its system call: which of its
  fields hold inodes that it refers to (`Shape`, `InSlot`), and which inode it has locked (`LocksOK`). `RefsOK`
  counts these references for every inode with those of the current directories and open files; `ReferencesAreHeld`
  is what is left of it when all processes are back in user mode, and is not inductive: it says nothing of the calls under way. `CopiesOK` says how far the copy in memory may
  be from the inode in the file system: `writei()` is ahead of it until its `iupdate()`, and `iput()` of the last reference
  leaves a stale copy until the entry is given up. That nobody else sees either needs the count: `iput()` frees an inode only when
  the one reference is its own, so that nobody has it locked or in hand (`LockedCounts`). `FilesOK` does the same for
  descriptors. A step of one process is reduced to the inodes it touches by `UserStep` (calls with a path) and `FilesStep`
  (calls with a descriptor); each operation on inodes has a lemma that says what it changes (`BmapGrown`, `ItruncFacts`, `DirlinkFacts`, ...).

* `Ordered`, behind `NoLockCircle`, is about directories and not about locks. A process that holds an inode's lock while it waits
  for another is in `unlink()` or `create()` and goes from a directory to an inode in it (`WaitIsWay`), so a circle of waiting processes would
  be a circle of directories. `Ways` are the entries of all directories, `".."` left out, and the pairs that a process is about to
  lock: the entry that `unlink()` found may be gone from a directory that was emptied since, and `create()` makes its entry last. `Leads` says that every
  set of inodes has one from which no way leads into the set; one more way to an inode from which none leads on keeps that
  (`LeadsMore`). `link()` enters such an inode because it refuses directories, `create()` because its inode is new; both have looked in
  an earlier step, and `PlaceOK` says that it is still so: a type changes only when the last reference goes, which needs
  the counts of `Tables`. The disk has an order of its own, since a crash goes back to it.

* `Stored` is behind `BlocksAreSound` and `OrphansHaveUsers`. It looks at an inode as it is in use, in memory if it is there (`Latest`):
  every block that is marked as used has one place in one inode (`OnePlace`, `NoneLost`), and holds what was written to that inode
  (`OwnBlocks`). What `iupdate()` has saved of the inode may lag behind, but only by blocks that it does not name yet (`SavedSome`), and the same
  holds of the disk alone, which is what a crash leaves (`Bare`): the last process to leave a transaction
  commits, and then no `writei()` is under way (`LoneSaved`). An inode that `iput()` has freed but not given up is `Gone`, and has no blocks.
  `Watched` finds the user of an inode without links: it is in memory, or `create()` has just allocated it; while the system boots, `ireclaim()`
  has not come to it yet. Each operation of `fs.c` keeps these parts from any state of the kernel, valid or on the way to a panic (`Keeps`: `KeepsBmap`,
  `KeepsItrunc`, `KeepsDirlink`, ...), so that the proof of a system call's step is the row of its operations.

* `Joined`, behind `LinksAreSound` and `NothingPanics`, holds until somebody goes up from a directory whose parent is gone (`Consistent`). In memory
  and on disk the directories are a tree (`Tree`): a directory has one name, its `".."` leads back, and only what is buried is in a removed
  directory. An inode has as many links as there are names of it and `".."` of directories below it, and one more for every call that
  has counted a link and not entered it, or removed an entry and not discounted it (`Counted`, `Owed`); at a commit nobody owes
  any, and the disk is left with the same equation. `InHands` says what a process knows of the inode it creates or removes: it is new, or has
  no entries, and nobody else has it. `InTable` says that what is in the table is allocated, but for an inode that is being freed and
  one that `create()` has just taken: that is why `ilock()` finds a type. `unlink()` may discount a directory's `".."` because the directory
  is empty and has no other name. The proof attempts corrected two properties: the exceptions of `LinksOnDisk` and `NoPanic`
  were too small in an earlier form, for trees deeper than the run's.

`NothingIsTakenBack` (`ShamProofs`) is the action property `NeverTakenBack`, from `Coherent`.

All inductive invariants were checked by TLC on the instances of section 3 before they were proved.
The assumptions on constants are in the modules that declare them, and every run
evaluates them. They say what the code's constants and ids are (numbers, distinct values, finite sets where something
is counted).

Only model-checked: all liveness (`ClientTerminates`, `FileArrives`, `StopReturnsPrompt`, `SleepersWake`, `ScanEnds`,
`RoundRobinRunsAll`), which is out of the prover's reach; `LineUnderstood`, since parser and executor are recursive over the line, and what
they compute is induction over data.

## 5. Not modelled

* S.H.A.M.: MD5 and the log lines of both programs (no control depends on them); files above the
  10 MB of `recv_buffer`, which are copied past its end.
* Shell: the opening of redirections and `execvp()` in the child; the exit status of commands; history's
  `log execute`, which runs a logged line again, and two shells that share one history file; lines longer
  than a buffer; the sorted output of `reveal` and `activities`.
* xv6: `getreadcount` (one counter, which nothing depends on); start-up, trap entry and system call dispatch; the
  kernel's own page table and the initialisation of devices; permission bits; user programs and `mkfs`, which are
  upstream's.
* Liveness of xv6's processes, files and disk: there the safety invariants about sleepers stand in for it.
* Data: file contents, strings, formats.

## 6. What is left

1. `Xv6Files` over `Xv6Log` itself instead of its abstract specification, and `Xv6Log` over `Xv6Disk`.
2. Liveness of `kwait()` and of disk requests, under fair scheduling.
3. The unlocked counter of `getreadcount`.
