---------------------------- MODULE ProcessProofs ---------------------------
(***************************************************************************)
(* Proofs about parents and children, and what belongs to them: the jobs   *)
(* and the directories of the shell, and the processes of xv6 and their    *)
(* memory.                                                                 *)
(*                                                                         *)
(* ShellJobs, for any number of process ids and of slots in the job table: *)
(* the table lists the children of the shell, each once and no others; a   *)
(* status that is out of date is one whose change waitpid() has yet to     *)
(* report; and the signal handlers only know the process that the shell    *)
(* waits for.  The invariant says for every place of the shell what the    *)
(* process it waits for has to do with the table (Waits).  All but the     *)
(* kernel's part holds until a fork() of a pipeline fails, as the          *)
(* properties do.                                                          *)
(*                                                                         *)
(* ShellDirs, for any tree of directories and any number of arguments:     *)
(* hop - goes back to the directory left last, and reveal looks where a    *)
(* hop with the same argument goes.  The invariant adds that a removed     *)
(* directory on the way up from the working directory is remembered, and   *)
(* that what reveal showed is still so until the hop is done.              *)
(*                                                                         *)
(* Xv6Proc and Xv6Memory, for any number of processes and pages: every     *)
(* child has a parent that can wait for it, entries are reused only when   *)
(* their process has left, and a parent that sleeps in kwait() misses no   *)
(* exit.  Whatever fails in fork(), exec(), sbrk() or a page fault, every  *)
(* physical page is in the free list or in use once, page tables are torn  *)
(* down without a panic, and memory is private.                            *)
(*                                                                         *)
(* The loops of uvmalloc() and uvmcopy() are recursive functions, and the  *)
(* induction over their rounds looks at the first round that would break   *)
(* what they keep: a set of numbers has a least member.                    *)
(***************************************************************************)
EXTENDS ShellJobs, ShellDirs, Xv6Proc, Xv6Memory, FiniteSetTheorems, WellFoundedInduction, TLAPS
-----------------------------------------------------------------------------
(* The jobs of the shell                                                   *)

Foreground == {"fg_set", "fg_wait", "fg_done"}
FgCommand  == {"job_set", "job_wait", "job_done"}

\* What waitpid() may report of a process is the state that the process is in.
EventFits(p) ==
    /\ event[p] = "exit" <=> proc[p] = "zombie"
    /\ event[p] = "stop" => proc[p] = "stopped"
    /\ event[p] = "cont" => proc[p] = "running"

\* If status st is not the state of p, the change is still to be reported.
Agrees(st, p) ==
    /\ st = "running" /\ proc[p] = "stopped" => event[p] = "stop"
    /\ st = "stopped" /\ proc[p] = "running" => event[p] = "cont"

\* The job in slot i, if there is one.
JobFits(i) ==
    jobs[i].in_use =>
        /\ jobs[i].pid \in Pids
        /\ jobs[i].job_id < next_job_id
        /\ \/ proc[jobs[i].pid] # "free"
           \/ slot = i /\ pc = "job_done" /\ status = "exit"
        /\ HeldByFg(i) \/ Agrees(jobs[i].status, jobs[i].pid)

\* Jobs i and j are two jobs.
Distinct(i, j) ==
    jobs[i].in_use /\ jobs[j].in_use /\ i # j =>
        jobs[i].job_id # jobs[j].job_id /\ jobs[i].pid # jobs[j].pid

\* No job is process p.
NotAJob(p) == \A i \in JobSlots : jobs[i].in_use => jobs[i].pid # p

\* What the shell knows of the process p that it waits for.
WaitOutcome(p) ==
    IF pc \in {"fg_done", "job_done"}
    THEN \/ status = "exit" /\ proc[p] = "free"
         \/ status = "stop" /\ proc[p] # "free" /\ Agrees("stopped", p)
    ELSE proc[p] # "free"

\* The processes that the shell waits for and the job table.
Waits ==
    /\ pc \in Foreground =>
        \E w \in Pids : waiting = <<w>> /\ NotAJob(w) /\ WaitOutcome(w)
    /\ pc \in FgCommand =>
        \E w \in Pids : waiting = <<w>> /\ jobs[slot].in_use /\ jobs[slot].pid = w /\ WaitOutcome(w)
    /\ pc = "pipe_wait" =>
        \A k \in 1 .. Len(waiting) : waiting[k] \in Pids /\ NotAJob(waiting[k])

\* A child is in the table, or the foreground command, or was never put there.
Listed(p) ==
    \/ proc[p] = "free"
    \/ p \in lost
    \/ \E i \in JobSlots : jobs[i].in_use /\ jobs[i].pid = p
    \/ pc \in Foreground /\ waiting = <<p>>

TableOK ==
    /\ \A i \in JobSlots : JobFits(i)
    /\ \A i, j \in JobSlots : Distinct(i, j)
    /\ Waits
    /\ \A p \in Pids : Listed(p)

\* Whatever has failed: one process is waited for in a foreground command.
OneWaited == pc \in Foreground \union FgCommand => Len(waiting) = 1

JobInv ==
    /\ TypeOK
    /\ \A p \in Pids : EventFits(p)
    /\ OneWaited
    /\ ForegroundIsWaited
    /\ ForksWell => TableOK
-----------------------------------------------------------------------------
(* What the steps do to the job table and to the processes                 *)

\* The parts of TypeOK, one process and one job at a time.
LEMMA Types ==
    ASSUME TypeOK
    PROVE  /\ \A p \in Pids : /\ proc[p] \in {"free", "running", "stopped", "zombie"}
                              /\ event[p] \in {"none", "stop", "cont", "exit"}
           /\ \A i \in JobSlots : /\ jobs[i].in_use \in BOOLEAN /\ jobs[i].job_id \in Nat
                                  /\ jobs[i].pid \in Pids \union {NoPid}
                                  /\ jobs[i].status \in JobStatus
           /\ pc \in PC /\ next_job_id \in Nat /\ slot \in JobSlots
           /\ status \in {"none", "stop", "exit"}
           /\ NoPid \notin Pids
  BY ShellJobsAssumption DEF TypeOK, Job, NoPid

\* The fields of a job but its status.
SameJob(i) ==
    /\ jobs'[i].in_use = jobs[i].in_use /\ jobs'[i].pid = jobs[i].pid
    /\ jobs'[i].job_id = jobs[i].job_id

\* A status is written.
LEMMA SetStatusEffect ==
    ASSUME TypeOK, NEW i \in JobSlots, NEW st \in JobStatus, SetStatus(i, st)
    PROVE  /\ jobs' \in [JobSlots -> Job]
           /\ SameJob(i) /\ jobs'[i].status = st
           /\ \A j \in JobSlots \ {i} : jobs'[j] = jobs[j]
<1>1. jobs \in [JobSlots -> Job]
  BY DEF TypeOK
<1>2. /\ jobs' = [jobs EXCEPT ![i] = jobs'[i]]
      /\ jobs'[i] = [jobs[i] EXCEPT !.status = st]
  BY <1>1 DEF SetStatus
<1>3. jobs[i] \in Job
  BY <1>1
<1>4. jobs'[i] \in Job /\ SameJob(i) /\ jobs'[i].status = st
  BY <1>2, <1>3 DEF Job, SameJob
<1> QED
  BY <1>1, <1>2, <1>4

\* A job is removed.
LEMMA RemoveEffect ==
    ASSUME TypeOK, NEW i \in JobSlots, RemoveJob(i)
    PROVE  /\ jobs' \in [JobSlots -> Job]
           /\ ~ jobs'[i].in_use
           /\ \A j \in JobSlots \ {i} : jobs'[j] = jobs[j]
<1>1. jobs \in [JobSlots -> Job]
  BY DEF TypeOK
<1>2. /\ jobs' = [jobs EXCEPT ![i] = jobs'[i]]
      /\ jobs'[i] = [jobs[i] EXCEPT !.in_use = FALSE]
  BY <1>1 DEF RemoveJob
<1>3. jobs[i] \in Job
  BY <1>1
<1>4. jobs'[i] \in Job /\ jobs'[i].in_use = FALSE
  BY <1>2, <1>3 DEF Job
<1> QED
  BY <1>1, <1>2, <1>4

\* A job is added in slot i.
JobAdded(i, p, st) ==
    /\ ~ jobs[i].in_use
    /\ jobs'[i].in_use /\ jobs'[i].pid = p /\ jobs'[i].status = st
    /\ jobs'[i].job_id = next_job_id
    /\ \A j \in JobSlots \ {i} : jobs'[j] = jobs[j]
    /\ next_job_id' = next_job_id + 1

\* add_job(): the table is full, or one slot takes the job.
LEMMA AddEffect ==
    ASSUME TypeOK, NEW p \in Pids \union {NoPid}, NEW st \in JobStatus, AddJob(p, st)
    PROVE  /\ jobs' \in [JobSlots -> Job] /\ next_job_id' \in Nat
           /\ \/ jobs' = jobs /\ next_job_id' = next_job_id /\ Refused(p) = {p}
              \/ \E i \in JobSlots : JobAdded(i, p, st) /\ Refused(p) = {}
<1>1. jobs \in [JobSlots -> Job] /\ next_job_id \in Nat
  BY DEF TypeOK
<1>2. CASE InUse = JobSlots /\ UNCHANGED <<jobs, next_job_id>>
  BY <1>1, <1>2 DEF Refused
<1>3. ASSUME NEW i \in JobSlots \ InUse,
             jobs' = [jobs EXCEPT ![i] = [in_use |-> TRUE, job_id |-> next_job_id,
                                          pid |-> p, status |-> st]],
             next_job_id' = next_job_id + 1
      PROVE  jobs' \in [JobSlots -> Job] /\ next_job_id' \in Nat /\ JobAdded(i, p, st)
             /\ Refused(p) = {}
  <2>1. [in_use |-> TRUE, job_id |-> next_job_id, pid |-> p, status |-> st] \in Job
    BY <1>1 DEF Job
  <2>2. jobs' \in [JobSlots -> Job] /\ next_job_id' \in Nat
    BY <1>1, <1>3, <2>1
  <2>3. JobAdded(i, p, st)
    BY <1>1, <1>3 DEF JobAdded, InUse
  <2> QED
    BY <1>3, <2>2, <2>3 DEF Refused
<1> QED
  BY <1>2, <1>3 DEF AddJob

\* What a signal does to a process, at most.
Change(p) ==
    \/ proc'[p] = proc[p] /\ event'[p] = event[p]
    \/ proc[p] \in {"running", "stopped"} /\ proc'[p] = "zombie" /\ event'[p] = "exit"
    \/ proc[p] = "running" /\ proc'[p] = "stopped" /\ event'[p] = "stop"
    \/ proc[p] = "stopped" /\ proc'[p] = "running" /\ event'[p] = "cont"

ChildTypes ==
    /\ proc' \in [Pids -> {"free", "running", "stopped", "zombie"}]
    /\ event' \in [Pids -> {"none", "stop", "cont", "exit"}]

\* A signal for some processes.
LEMMA SignalEffect ==
    ASSUME TypeOK, NEW P, NEW sig \in {"KILL", "STOP", "CONT"}, Signal(P, sig)
    PROVE  /\ ChildTypes /\ lost' = lost
           /\ \A p \in Pids : Change(p)
           /\ sig = "CONT" => \A p \in Pids : p \in P => proc'[p] # "stopped"
<1>1. ASSUME NEW p \in Pids
      PROVE  /\ proc'[p] \in {"free", "running", "stopped", "zombie"}
             /\ event'[p] \in {"none", "stop", "cont", "exit"}
             /\ Change(p)
             /\ sig = "CONT" /\ p \in P => proc'[p] # "stopped"
  <2>1. /\ proc[p] \in {"free", "running", "stopped", "zombie"}
        /\ event[p] \in {"none", "stop", "cont", "exit"}
    BY Types
  <2>2. CASE p \notin P
    BY <2>1, <2>2 DEF Signal, Change
  <2>3. CASE p \in P
    <3>1. proc'[p] = Deliver(p, sig)[1] /\ event'[p] = Deliver(p, sig)[2]
      BY <2>3 DEF Signal
    <3>2. CASE sig = "KILL" /\ proc[p] \in {"running", "stopped"}
      <4>1. Deliver(p, sig) = <<"zombie", "exit">>
        BY <3>2 DEF Deliver
      <4> QED
        BY <3>1, <3>2, <4>1 DEF Change
    <3>3. CASE sig = "STOP" /\ proc[p] = "running"
      <4>1. Deliver(p, sig) = <<"stopped", "stop">>
        BY <3>3 DEF Deliver
      <4> QED
        BY <3>1, <3>3, <4>1 DEF Change
    <3>4. CASE sig = "CONT" /\ proc[p] = "stopped"
      <4>1. Deliver(p, sig) = <<"running", "cont">>
        BY <3>4 DEF Deliver
      <4> QED
        BY <3>1, <3>4, <4>1 DEF Change
    <3>5. CASE /\ ~ (sig = "KILL" /\ proc[p] \in {"running", "stopped"})
               /\ ~ (sig = "STOP" /\ proc[p] = "running")
               /\ ~ (sig = "CONT" /\ proc[p] = "stopped")
      <4>1. Deliver(p, sig) = <<proc[p], event[p]>>
        BY <3>5 DEF Deliver
      <4> QED
        BY <2>1, <3>1, <3>5, <4>1 DEF Change
    <3> QED
      BY <3>2, <3>3, <3>4, <3>5
  <2> QED
    BY <2>2, <2>3
<1>2. ChildTypes
  BY <1>1 DEF Signal, ChildTypes
<1> QED
  BY <1>1, <1>2 DEF Signal

\* waitpid() has reported on p.
LEMMA ReportedEffect ==
    ASSUME TypeOK, NEW p \in Pids, Reported(p)
    PROVE  /\ ChildTypes /\ lost' \subseteq Pids \union {NoPid}
           /\ event'[p] = "none"
           /\ event[p] = "exit" => proc'[p] = "free"
           /\ event[p] # "exit" => proc'[p] = proc[p]
           /\ \A q \in Pids \ {p} : proc'[q] = proc[q] /\ event'[q] = event[q]
           /\ NoPid \in lost' <=> NoPid \in lost
           /\ \A q \in Pids : q \in lost /\ q \notin lost' => proc'[q] = "free"
<1>1. /\ proc \in [Pids -> {"free", "running", "stopped", "zombie"}]
      /\ event \in [Pids -> {"none", "stop", "cont", "exit"}]
      /\ lost \subseteq Pids \union {NoPid} /\ NoPid # p
  BY Types DEF TypeOK
<1>2. event[p] = "exit" => proc'[p] = "free"
  BY <1>1 DEF Reported
<1>3. lost' = IF event[p] = "exit" THEN lost \ {p} ELSE lost
  BY DEF Reported
<1>4. ChildTypes
  BY <1>1 DEF Reported, ChildTypes
<1>5. /\ event'[p] = "none" /\ (event[p] # "exit" => proc'[p] = proc[p])
      /\ \A q \in Pids \ {p} : proc'[q] = proc[q] /\ event'[q] = event[q]
  BY <1>1 DEF Reported
<1> QED
  BY <1>1, <1>2, <1>3, <1>4, <1>5

\* fork() of some processes.
LEMMA ForkEffect ==
    ASSUME TypeOK, NEW P \in SUBSET Pids, Fork(P)
    PROVE  /\ ChildTypes /\ event' = event
           /\ \A p \in P : proc[p] = "free" /\ proc'[p] = "running"
           /\ \A p \in Pids \ P : proc'[p] = proc[p]
  BY DEF TypeOK, Fork, ChildTypes
-----------------------------------------------------------------------------
(* What holds whether or not a fork() has failed                           *)

\* A foreground command waits for one process.
LEMMA HeadLemma ==
    ASSUME TypeOK, OneWaited, pc \in Foreground \union FgCommand
    PROVE  /\ Head(waiting) \in Pids \union {NoPid}
           /\ waiting = <<Head(waiting)>>
<1>1. waiting \in Seq(Pids \union {NoPid}) /\ Len(waiting) = 1
  BY DEF TypeOK, OneWaited
<1> QED
  BY <1>1

\* Every step keeps the types.
LEMMA StepTypes == TypeOK /\ OneWaited /\ [Next]_vars => TypeOK'
<1> SUFFICES ASSUME TypeOK, OneWaited, [Next]_vars PROVE TypeOK'
  OBVIOUS
<1>1. CASE CheckDone \/ EndOfLine \/ OtherCommand \/ PipelineDone \/ UNCHANGED vars
  BY <1>1 DEF TypeOK, CheckDone, EndOfLine, OtherCommand, PipelineDone, vars, shellVars,
     kernelVars, PC
<1>2. ASSUME NEW p \in Pids, CheckChild(p) PROVE TypeOK'
  <2>1. ChildTypes /\ lost' \subseteq Pids \union {NoPid}
    BY <1>2, ReportedEffect DEF CheckChild
  <2>2. jobs' \in [JobSlots -> Job]
    <3>1. ASSUME NEW i \in InUse, RemoveJob(i) PROVE jobs' \in [JobSlots -> Job]
      BY <3>1, RemoveEffect DEF InUse
    <3>2. ASSUME NEW i \in InUse, NEW st \in JobStatus, SetStatus(i, st)
          PROVE  jobs' \in [JobSlots -> Job]
      BY <3>2, SetStatusEffect DEF InUse
    <3>3. \/ jobs' = jobs
          \/ \E i \in InUse : \/ RemoveJob(i)
                              \/ SetStatus(i, "stopped") \/ SetStatus(i, "running")
      <4>1. event[p] \in {"none", "stop", "cont", "exit"} /\ event[p] # "none"
        BY <1>2, Types DEF CheckChild
      <4> QED
        BY <1>2, <4>1 DEF CheckChild
    <3> QED
      BY <3>1, <3>2, <3>3 DEF TypeOK, JobStatus
  <2> QED
    BY <1>2, <2>1, <2>2 DEF CheckChild, TypeOK, ChildTypes
<1>3. CASE SetForeground
  BY <1>3, HeadLemma DEF SetForeground, TypeOK, PC, kernelVars, Foreground, FgCommand
<1>4. CASE WaitUntraced
  <2>1. /\ proc' \in [Pids -> {"free", "running", "stopped", "zombie"}]
        /\ event' \in [Pids -> {"none", "stop", "cont", "exit"}]
        /\ lost' \subseteq Pids \union {NoPid}
        /\ status' \in {"none", "stop", "exit"}
    <3>1. ASSUME NEW p \in WaitedFor(Head(waiting)), event[p] \in {"stop", "exit"},
                 status' = event[p], Reported(p)
          PROVE  /\ ChildTypes /\ lost' \subseteq Pids \union {NoPid}
                 /\ status' \in {"none", "stop", "exit"}
      BY <3>1, ReportedEffect DEF WaitedFor, Children
    <3> QED
      BY <1>4, <3>1 DEF WaitUntraced, kernelVars, TypeOK, ChildTypes
  <2> QED
    BY <1>4, <2>1 DEF WaitUntraced, TypeOK, PC
<1>5. CASE ForegroundDone
  <2>1. Head(waiting) \in Pids \union {NoPid}
    BY <1>5, HeadLemma DEF ForegroundDone, Foreground
  <2>2. /\ jobs' \in [JobSlots -> Job] /\ next_job_id' \in Nat
        /\ lost' \subseteq Pids \union {NoPid}
    <3>1. CASE status = "stop"
      <4>1. AddJob(Head(waiting), "stopped") /\ lost' = lost \union Refused(Head(waiting))
        BY <1>5, <3>1 DEF ForegroundDone
      <4> QED
        BY <2>1, <4>1, AddEffect DEF TypeOK, JobStatus, Refused
    <3> QED
      BY <1>5, <3>1 DEF ForegroundDone, TypeOK
  <2> QED
    BY <1>5, <2>2 DEF ForegroundDone, TypeOK, PC
<1>6. CASE FgDone
  <2>1. jobs' \in [JobSlots -> Job]
    BY <1>6, RemoveEffect, SetStatusEffect DEF FgDone, TypeOK, JobStatus
  <2> QED
    BY <1>6, <2>1 DEF FgDone, TypeOK, PC, kernelVars
<1>7. CASE WaitStage
  <2>1. /\ proc' \in [Pids -> {"free", "running", "stopped", "zombie"}]
        /\ event' \in [Pids -> {"none", "stop", "cont", "exit"}]
        /\ lost' \subseteq Pids \union {NoPid}
    <3>1. ASSUME NEW p \in WaitedFor(Head(waiting)), Reported(p)
          PROVE  ChildTypes /\ lost' \subseteq Pids \union {NoPid}
      BY <3>1, ReportedEffect DEF WaitedFor, Children
    <3> QED
      BY <1>7, <3>1 DEF WaitStage, kernelVars, TypeOK, ChildTypes
  <2>2. waiting' \in Seq(Pids \union {NoPid})
    BY <1>7 DEF WaitStage, TypeOK
  <2> QED
    BY <1>7, <2>1, <2>2 DEF WaitStage, TypeOK
<1>8. ASSUME NEW p \in Pids, RunBackground(p) \/ RunForeground(p) PROVE TypeOK'
  <2>1. ChildTypes /\ event' = event
    BY <1>8, ForkEffect DEF RunBackground, RunForeground
  <2>2. CASE RunBackground(p)
    <3>1. jobs' \in [JobSlots -> Job] /\ next_job_id' \in Nat
      BY <2>2, AddEffect DEF RunBackground, JobStatus
    <3> QED
      BY <2>1, <2>2, <3>1 DEF RunBackground, TypeOK, PC, ChildTypes, Refused
  <2>3. CASE RunForeground(p)
    <3>1. waiting' \in Seq(Pids \union {NoPid})
      BY <2>3 DEF RunForeground
    <3> QED
      BY <2>1, <2>3, <3>1 DEF RunForeground, TypeOK, PC, ChildTypes
  <2> QED
    BY <1>8, <2>2, <2>3
<1>9. ASSUME NEW i \in JobSlots, Fg(i) \/ Bg(i) PROVE TypeOK'
  <2>1. /\ proc' \in [Pids -> {"free", "running", "stopped", "zombie"}]
        /\ event' \in [Pids -> {"none", "stop", "cont", "exit"}]
        /\ lost' = lost
    BY <1>9, SignalEffect DEF Fg, Bg, kernelVars, TypeOK, ChildTypes
  <2>2. jobs' \in [JobSlots -> Job]
    BY <1>9, SetStatusEffect DEF Fg, Bg, TypeOK, JobStatus
  <2>3. CASE Fg(i)
    <3>1. waiting' \in Seq(Pids \union {NoPid})
      <4>1. jobs[i].pid \in Pids \union {NoPid}
        BY Types
      <4> QED
        BY <2>3, <4>1 DEF Fg
    <3> QED
      BY <2>1, <2>2, <2>3, <3>1 DEF Fg, TypeOK, PC
  <2>4. CASE Bg(i)
    BY <2>1, <2>2, <2>4 DEF Bg, TypeOK, PC
  <2> QED
    BY <1>9, <2>3, <2>4
<1>10. ASSUME NEW p \in Pids, NEW sig \in {"KILL", "STOP", "CONT"}, Ping(p, sig) PROVE TypeOK'
  BY <1>10, SignalEffect DEF Ping, TypeOK, PC, ChildTypes
<1>11. ASSUME NEW q \in Forked, NEW p \in Forked,
              PipelineBackground(q, p) \/ PipelineForeground(q, p)
       PROVE  TypeOK'
  <2>1. {q, p} \ {NoPid} \subseteq Pids /\ {q, p} \subseteq Pids \union {NoPid}
    BY DEF Forked
  <2>2. ChildTypes /\ event' = event
    BY <1>11, <2>1, ForkEffect DEF PipelineBackground, PipelineForeground
  <2>3. CASE PipelineBackground(q, p)
    <3>1. jobs' \in [JobSlots -> Job] /\ next_job_id' \in Nat
      BY <2>1, <2>3, AddEffect DEF PipelineBackground, JobStatus
    <3>2. lost' \subseteq Pids \union {NoPid}
      BY <2>1, <2>3 DEF PipelineBackground, Refused, TypeOK
    <3> QED
      BY <2>2, <2>3, <3>1, <3>2 DEF PipelineBackground, TypeOK, PC, ChildTypes
  <2>4. CASE PipelineForeground(q, p)
    <3>1. waiting' \in Seq(Pids \union {NoPid})
      BY <2>1, <2>4 DEF PipelineForeground
    <3>2. lost' \subseteq Pids \union {NoPid}
      BY <2>1, <2>4 DEF PipelineForeground, TypeOK
    <3> QED
      BY <2>2, <2>4, <3>1, <3>2 DEF PipelineForeground, TypeOK, PC, ChildTypes
  <2> QED
    BY <1>11, <2>3, <2>4
<1>12. CASE Kernel
  <2>1. PICK p \in Pids, sig \in {"KILL", "STOP", "CONT"} :
            Signal({p}, sig) /\ UNCHANGED shellVars
    BY <1>12 DEF Kernel, ProcessEnds, OutsideSignal
  <2> QED
    BY <2>1, SignalEffect DEF TypeOK, ChildTypes, shellVars
<1>13. CASE Terminal
  <2>1. CASE CtrlD
    BY <2>1, SignalEffect DEF CtrlD, TypeOK, PC, ChildTypes
  <2>2. ASSUME NEW P \in SUBSET Pids, CtrlC(P) PROVE TypeOK'
    BY <2>2, SignalEffect DEF CtrlC, TypeOK, ChildTypes, shellVars
  <2>3. ASSUME NEW P \in SUBSET Pids, CtrlZ(P) PROVE TypeOK'
    <3>1. ChildTypes /\ lost' = lost
      BY <2>3, SignalEffect DEF CtrlZ
    <3>2. jobs' \in [JobSlots -> Job] /\ foreground_pid' \in Pids \union {NoPid}
      <4>1. ASSUME NEW i \in InUse, SetStatus(i, "stopped") PROVE jobs' \in [JobSlots -> Job]
        BY <4>1, SetStatusEffect DEF InUse, JobStatus
      <4> QED
        BY <2>3, <4>1 DEF CtrlZ, TypeOK
    <3> QED
      BY <2>3, <3>1, <3>2 DEF CtrlZ, TypeOK, ChildTypes
  <2> QED
    BY <1>13, <2>1, <2>2, <2>3 DEF Terminal
<1> QED
  BY <1>1, <1>2, <1>3, <1>4, <1>5, <1>6, <1>7, <1>8, <1>9, <1>10, <1>11, <1>12, <1>13
     DEF Next, ShellStep, Command

\* What the kernel does in a step: signals, a report, a fork() or nothing.
KernelStep ==
    \/ (\A p \in Pids : Change(p)) /\ lost' = lost
    \/ \E p \in Pids : event[p] # "none" /\ Reported(p)
    \/ \E P \in SUBSET Pids : Fork(P) /\ lost \subseteq lost'

\* There is no other step of the kernel.
LEMMA KernelSteps == TypeOK /\ [Next]_vars => KernelStep
<1> SUFFICES ASSUME TypeOK, [Next]_vars PROVE KernelStep
  OBVIOUS
<1>1. UNCHANGED kernelVars => KernelStep
  BY DEF kernelVars, KernelStep, Change
<1>2. ASSUME NEW P, NEW sig \in {"KILL", "STOP", "CONT"}, Signal(P, sig) PROVE KernelStep
  BY <1>2, SignalEffect DEF KernelStep
<1>3. CASE \/ CheckDone \/ EndOfLine \/ OtherCommand \/ PipelineDone \/ UNCHANGED vars
           \/ SetForeground \/ FgDone
  BY <1>1, <1>3 DEF CheckDone, EndOfLine, OtherCommand, PipelineDone, vars, SetForeground,
     FgDone
<1>4. CASE ForegroundDone
  <2>1. Fork({}) /\ lost \subseteq lost'
    BY <1>4 DEF ForegroundDone, Fork, TypeOK
  <2> QED
    BY <2>1 DEF KernelStep
<1>5. CASE WaitUntraced \/ WaitStage \/ \E p \in Pids : CheckChild(p)
  BY <1>1, <1>5 DEF WaitUntraced, WaitStage, CheckChild, WaitedFor, Children, KernelStep
<1>6. CASE \E p \in Pids : RunBackground(p) \/ RunForeground(p)
  BY <1>6 DEF RunBackground, RunForeground, KernelStep
<1>7. CASE \E i \in JobSlots : Fg(i) \/ Bg(i)
  BY <1>1, <1>2, <1>7 DEF Fg, Bg
<1>8. CASE \E p \in Pids, sig \in {"KILL", "STOP", "CONT"} : Ping(p, sig)
  BY <1>2, <1>8 DEF Ping
<1>9. CASE \E q, p \in Forked : PipelineBackground(q, p) \/ PipelineForeground(q, p)
  <2>1. PICK q \in Forked, p \in Forked : PipelineBackground(q, p) \/ PipelineForeground(q, p)
    BY <1>9
  <2>2. {q, p} \ {NoPid} \in SUBSET Pids
    BY DEF Forked
  <2>3. Fork({q, p} \ {NoPid}) /\ lost \subseteq lost'
    BY <2>1 DEF PipelineBackground, PipelineForeground
  <2> QED
    BY <2>2, <2>3 DEF KernelStep
<1>10. CASE Kernel
  BY <1>2, <1>10 DEF Kernel, ProcessEnds, OutsideSignal
<1>11. CASE Terminal
  BY <1>2, <1>11 DEF Terminal, CtrlC, CtrlZ, CtrlD
<1> QED
  BY <1>3, <1>4, <1>5, <1>6, <1>7, <1>8, <1>9, <1>10, <1>11 DEF Next, ShellStep, Command

\* Events fit the states of the processes, and a fork() that failed is not forgotten.
LEMMA StepEvents ==
    TypeOK /\ (\A p \in Pids : EventFits(p)) /\ [Next]_vars =>
        (\A p \in Pids : EventFits(p)') /\ (ForksWell' => ForksWell)
<1> SUFFICES ASSUME TypeOK, \A p \in Pids : EventFits(p), KernelStep
             PROVE  (\A p \in Pids : EventFits(p)') /\ (ForksWell' => ForksWell)
  BY KernelSteps
<1>1. CASE (\A p \in Pids : Change(p)) /\ lost' = lost
  BY <1>1 DEF Change, EventFits, ForksWell
<1>2. ASSUME NEW p \in Pids, event[p] # "none", Reported(p)
      PROVE  (\A q \in Pids : EventFits(q)') /\ (ForksWell' => ForksWell)
  <2>1. /\ event'[p] = "none"
        /\ event[p] = "exit" => proc'[p] = "free"
        /\ event[p] # "exit" => proc'[p] = proc[p]
        /\ \A q \in Pids \ {p} : proc'[q] = proc[q] /\ event'[q] = event[q]
        /\ NoPid \in lost' <=> NoPid \in lost
    BY <1>2, ReportedEffect
  <2> QED
    BY <2>1 DEF EventFits, ForksWell
<1>3. ASSUME NEW P \in SUBSET Pids, Fork(P), lost \subseteq lost'
      PROVE  (\A q \in Pids : EventFits(q)') /\ (ForksWell' => ForksWell)
  <2>1. /\ event' = event
        /\ \A p \in P : proc[p] = "free" /\ proc'[p] = "running"
        /\ \A p \in Pids \ P : proc'[p] = proc[p]
    BY <1>3, ForkEffect
  <2>2. \A p \in Pids : event[p] \in {"none", "stop", "cont", "exit"}
    BY Types
  <2> QED
    BY <1>3, <2>1, <2>2 DEF EventFits, ForksWell
<1> QED
  BY <1>1, <1>2, <1>3 DEF KernelStep

\* What the shell waits for in the foreground, and what the handlers know of it.
LEMMA StepPlaces ==
    TypeOK /\ OneWaited /\ ForegroundIsWaited /\ [Next]_vars =>
        OneWaited' /\ ForegroundIsWaited'
<1> SUFFICES ASSUME TypeOK, OneWaited, ForegroundIsWaited, [Next]_vars
             PROVE  OneWaited' /\ ForegroundIsWaited'
  OBVIOUS
<1> USE DEF OneWaited, ForegroundIsWaited, Foreground, FgCommand
<1>1. CASE UNCHANGED <<pc, waiting, foreground_pid>>
  BY <1>1
<1>2. CASE UNCHANGED <<pc, waiting>> /\ foreground_pid' = NoPid
  BY <1>2
<1>3. CASE /\ UNCHANGED foreground_pid /\ pc \in {"check", "prompt", "next", "pipe_wait"}
           /\ pc' \in {"check", "prompt", "next", "pipe_wait", "logout"}
  BY <1>3
<1>4. CASE foreground_pid' = NoPid /\ pc' = "next"
  BY <1>4
<1>5. CASE /\ UNCHANGED foreground_pid /\ pc \in {"prompt", "next"}
           /\ pc' \in {"fg_set", "job_set"} /\ \E w : waiting' = <<w>>
  BY <1>5
<1>6. CASE SetForeground
  BY <1>6 DEF SetForeground
<1>7. CASE WaitUntraced
  BY <1>7 DEF WaitUntraced
<1>8. CASE CheckDone \/ EndOfLine \/ PipelineDone \/ WaitStage \/ ForegroundDone \/ FgDone
           \/ \E p \in Pids : CheckChild(p)
  BY <1>1, <1>3, <1>4, <1>8 DEF CheckDone, EndOfLine, PipelineDone, WaitStage, ForegroundDone,
     FgDone, CheckChild
<1>9. CASE Command
  BY <1>3, <1>5, <1>9 DEF Command, OtherCommand, RunBackground, RunForeground, Fg, Bg, Ping,
     PipelineBackground, PipelineForeground, TakesCommand
<1>10. CASE Kernel \/ UNCHANGED vars
  BY <1>1, <1>10 DEF Kernel, ProcessEnds, OutsideSignal, vars, shellVars
<1>11. CASE Terminal
  BY <1>1, <1>2, <1>3, <1>11 DEF Terminal, CtrlC, CtrlZ, CtrlD, shellVars
<1> QED
  BY <1>6, <1>7, <1>8, <1>9, <1>10, <1>11 DEF Next, ShellStep
-----------------------------------------------------------------------------
(* What holds until a fork() fails                                         *)

Resting == {"check", "prompt", "next", "logout"}

\* The shell goes on, and waits for what it waited for, if for anything.
Moves ==
    \/ pc' = pc /\ waiting' = waiting
    \/ pc \in Resting \union {"pipe_wait"} /\ pc' \in Resting
    \/ pc = "fg_set" /\ pc' = "fg_wait" /\ waiting' = waiting
    \/ pc = "job_set" /\ pc' = "job_wait" /\ waiting' = waiting

\* Only statuses change, of processes and of jobs, and those of the jobs are right.
LEMMA StatusesKeep ==
    ASSUME TypeOK, TableOK, Moves, UNCHANGED <<next_job_id, slot, status, lost>>,
           \A p \in Pids : proc'[p] = "free" <=> proc[p] = "free",
           pc \in {"fg_done", "job_done"} =>
               \A p \in Pids : Agrees("stopped", p) => Agrees("stopped", p)',
           \A i \in JobSlots : SameJob(i),
           \A i \in JobSlots : (jobs[i].in_use =>
                                  HeldByFg(i) \/ Agrees(jobs[i].status, jobs[i].pid))'
    PROVE  TableOK'
<1>0. pc \in PC
  BY Types
<1>1. ASSUME NEW i \in JobSlots PROVE JobFits(i)'
  <2>1. JobFits(i) /\ SameJob(i)
    BY DEF TableOK
  <2>2. jobs'[i].in_use =>
            /\ jobs'[i].pid \in Pids /\ jobs'[i].pid = jobs[i].pid
            /\ jobs'[i].job_id < next_job_id'
    BY <2>1 DEF JobFits, SameJob
  <2>3. jobs'[i].in_use =>
            proc'[jobs[i].pid] # "free" \/ (slot' = i /\ pc' = "job_done" /\ status' = "exit")
    <3>1. pc = "job_done" => pc' = "job_done"
      BY DEF Moves, Resting
    <3> QED
      BY <2>1, <3>1 DEF JobFits, SameJob
  <2>4. (jobs[i].in_use => HeldByFg(i) \/ Agrees(jobs[i].status, jobs[i].pid))'
    OBVIOUS
  <2> QED
    BY <2>2, <2>3, <2>4 DEF JobFits
<1>2. ASSUME NEW i \in JobSlots, NEW j \in JobSlots PROVE Distinct(i, j)'
  BY DEF TableOK, Distinct, SameJob
<1>3. \A p \in Pids : NotAJob(p) => NotAJob(p)'
  BY DEF NotAJob, SameJob
<1>4. pc \in Foreground \union FgCommand => \A p \in Pids : WaitOutcome(p) => WaitOutcome(p)'
  BY DEF WaitOutcome, Moves, Resting, Foreground, FgCommand
<1>5. Waits'
  <2>1. Waits
    BY DEF TableOK
  <2>2. CASE pc' \in Foreground
    <3>1. pc \in Foreground /\ waiting' = waiting
      BY <2>2 DEF Moves, Foreground, Resting
    <3>2. PICK w \in Pids : waiting = <<w>> /\ NotAJob(w) /\ WaitOutcome(w)
      BY <2>1, <3>1 DEF Waits
    <3>3. waiting' = <<w>> /\ NotAJob(w)' /\ WaitOutcome(w)'
      BY <1>3, <1>4, <3>1, <3>2
    <3> QED
      BY <2>2, <3>3 DEF Waits, Foreground, FgCommand
  <2>3. CASE pc' \in FgCommand
    <3>1. pc \in FgCommand /\ waiting' = waiting
      BY <2>3 DEF Moves, FgCommand, Resting
    <3>2. PICK w \in Pids : waiting = <<w>> /\ jobs[slot].in_use /\ jobs[slot].pid = w
                            /\ WaitOutcome(w)
      BY <2>1, <3>1 DEF Waits
    <3>3. waiting' = <<w>> /\ jobs'[slot'].in_use /\ jobs'[slot'].pid = w /\ WaitOutcome(w)'
      <4>1. slot \in JobSlots
        BY Types
      <4> QED
        BY <1>4, <3>1, <3>2, <4>1 DEF SameJob
    <3> QED
      BY <2>3, <3>3 DEF Waits, Foreground, FgCommand
  <2>4. CASE pc' = "pipe_wait"
    <3>1. pc = "pipe_wait" /\ waiting' = waiting
      BY <2>4 DEF Moves, Resting
    <3>2. \A k \in 1 .. Len(waiting) : waiting[k] \in Pids /\ NotAJob(waiting[k])
      BY <2>1, <3>1 DEF Waits
    <3> QED
      BY <1>3, <2>4, <3>1, <3>2 DEF Waits, Foreground, FgCommand
  <2> QED
    BY <2>2, <2>3, <2>4 DEF Waits
<1>6. ASSUME NEW p \in Pids PROVE Listed(p)'
  <2>1. Listed(p)
    BY DEF TableOK
  <2>2. pc \in Foreground => pc' \in Foreground /\ waiting' = waiting
    BY DEF Moves, Foreground, Resting
  <2> QED
    BY <2>1, <2>2 DEF Listed, SameJob
<1> QED
  BY <1>1, <1>2, <1>5, <1>6 DEF TableOK

\* A signal disturbs no status.
LEMMA ChangeKeeps ==
    ASSUME NEW p, Change(p), NEW st
    PROVE  /\ proc'[p] = "free" <=> proc[p] = "free"
           /\ Agrees(st, p) => Agrees(st, p)'
  BY DEF Change, Agrees

\* Signals, while the table stays as it is.
LEMMA SignalKeeps ==
    ASSUME TypeOK, TableOK, Moves, UNCHANGED <<jobs, next_job_id, slot, status, lost>>,
           \A p \in Pids : Change(p)
    PROVE  TableOK'
<1>1. \A p \in Pids : proc'[p] = "free" <=> proc[p] = "free"
  BY ChangeKeeps
<1>2. \A p \in Pids : Agrees("stopped", p) => Agrees("stopped", p)'
  BY ChangeKeeps
<1>3. \A i \in JobSlots : SameJob(i)
  BY DEF SameJob
<1>4. ASSUME NEW i \in JobSlots, jobs'[i].in_use
      PROVE  (HeldByFg(i) \/ Agrees(jobs[i].status, jobs[i].pid))'
  <2>1. HeldByFg(i) \/ Agrees(jobs[i].status, jobs[i].pid)
    BY <1>4 DEF TableOK, JobFits
  <2>2. jobs[i].pid \in Pids
    BY <1>4 DEF TableOK, JobFits
  <2>3. HeldByFg(i) => HeldByFg(i)'
    BY DEF HeldByFg, Moves, Resting
  <2>4. Agrees(jobs[i].status, jobs[i].pid) => Agrees(jobs[i].status, jobs[i].pid)'
    BY <2>2 DEF Change, Agrees
  <2> QED
    BY <2>1, <2>3, <2>4
<1> QED
  BY <1>1, <1>2, <1>3, <1>4, StatusesKeep

\* waitpid() has reported the end of p, outside of foreground commands: no job is p.
LEMMA ReapedKeeps ==
    ASSUME TypeOK, TableOK, NEW p \in Pids, proc'[p] = "free",
           \A q \in Pids \ {p} : proc'[q] = proc[q] /\ event'[q] = event[q],
           \A q \in Pids : q \in lost /\ q \notin lost' => proc'[q] = "free",
           UNCHANGED <<pc, next_job_id, slot, status>>,
           pc = "check" \/ (pc = "pipe_wait" /\ waiting # <<>> /\ waiting' = Tail(waiting)),
           \A i \in JobSlots : jobs'[i].in_use => jobs'[i] = jobs[i] /\ jobs[i].pid # p,
           \A i \in JobSlots : jobs[i].in_use /\ jobs[i].pid # p => jobs'[i] = jobs[i]
    PROVE  TableOK'
<1>1. ASSUME NEW i \in JobSlots PROVE JobFits(i)'
  <2>1. JobFits(i)
    BY DEF TableOK
  <2> QED
    BY <2>1 DEF JobFits, HeldByFg, Agrees
<1>2. ASSUME NEW i \in JobSlots, NEW j \in JobSlots PROVE Distinct(i, j)'
  BY DEF TableOK, Distinct
<1>3. Waits'
  <2>1. CASE pc = "check"
    BY <2>1 DEF Waits, Foreground, FgCommand
  <2>2. CASE pc = "pipe_wait"
    <3>1. \A k \in 1 .. Len(waiting) : waiting[k] \in Pids /\ NotAJob(waiting[k])
      BY <2>2 DEF TableOK, Waits
    <3>2. waiting \in Seq(Pids \union {NoPid}) /\ waiting # <<>> /\ waiting' = Tail(waiting)
      BY <2>2 DEF TypeOK
    <3>3. ASSUME NEW k \in 1 .. Len(waiting')
          PROVE  k + 1 \in 1 .. Len(waiting) /\ waiting'[k] = waiting[k + 1]
      BY <3>2
    <3>4. \A q : NotAJob(q) => NotAJob(q)'
      BY DEF NotAJob
    <3>5. \A k \in 1 .. Len(waiting') : waiting'[k] \in Pids /\ NotAJob(waiting[k])'
      <4> SUFFICES ASSUME NEW k \in 1 .. Len(waiting')
                   PROVE  waiting'[k] \in Pids /\ NotAJob(waiting[k])'
        OBVIOUS
      <4>1. waiting'[k] \in Pids /\ NotAJob(waiting'[k])
        BY <3>1, <3>3
      <4> QED
        BY <4>1 DEF NotAJob
    <3> QED
      BY <2>2, <3>5 DEF Waits, Foreground, FgCommand
  <2> QED
    BY <2>1, <2>2
<1>4. ASSUME NEW q \in Pids PROVE Listed(q)'
  <2>1. CASE q = p
    BY <2>1 DEF Listed
  <2>2. CASE q # p
    <3>1. Listed(q) /\ pc \notin Foreground
      BY DEF TableOK, Foreground
    <3>2. CASE \E i \in JobSlots : jobs[i].in_use /\ jobs[i].pid = q
      BY <2>2, <3>2 DEF Listed
    <3>3. CASE proc[q] = "free" \/ q \in lost
      BY <2>2, <3>3 DEF Listed
    <3> QED
      BY <3>1, <3>2, <3>3 DEF Listed
  <2> QED
    BY <2>1, <2>2
<1> QED
  BY <1>1, <1>2, <1>3, <1>4 DEF TableOK

\* check_background_jobs() hears of p.
LEMMA CheckKeeps ==
    ASSUME TypeOK, TableOK, NEW p \in Pids, EventFits(p), CheckChild(p)
    PROVE  TableOK'
<1>0. /\ event[p] \in {"none", "stop", "cont", "exit"} /\ event[p] # "none" /\ pc = "check"
      /\ UNCHANGED <<pc, next_job_id, waiting, slot, status>>
  BY Types DEF CheckChild
<1>1. /\ event'[p] = "none"
      /\ event[p] = "exit" => proc'[p] = "free"
      /\ event[p] # "exit" => proc'[p] = proc[p]
      /\ \A q \in Pids \ {p} : proc'[q] = proc[q] /\ event'[q] = event[q]
      /\ \A q \in Pids : q \in lost /\ q \notin lost' => proc'[q] = "free"
  BY ReportedEffect DEF CheckChild
<1>2. \A i, j \in JobSlots : jobs[i].in_use /\ jobs[j].in_use /\ jobs[i].pid = jobs[j].pid
                                 => i = j
  BY DEF TableOK, Distinct
<1>3. \/ NotAJob(p) /\ jobs' = jobs
      \/ \E i \in JobSlots :
            /\ jobs[i].in_use /\ jobs[i].pid = p
            /\ event[p] = "exit" => RemoveJob(i)
            /\ event[p] = "stop" => SetStatus(i, "stopped")
            /\ event[p] = "cont" => SetStatus(i, "running")
  <2>1. CASE \E i \in InUse : IsJobOf(i, p)
    <3>1. PICK i \in InUse :
            /\ IsJobOf(i, p)
            /\ CASE event[p] = "exit" -> RemoveJob(i)
                 [] event[p] = "stop" -> SetStatus(i, "stopped")
                 [] event[p] = "cont" -> SetStatus(i, "running")
      BY <2>1 DEF CheckChild
    <3>2. i \in JobSlots /\ jobs[i].in_use /\ jobs[i].pid = p
      BY <3>1 DEF IsJobOf, InUse
    <3> QED
      BY <3>1, <3>2
  <2>2. CASE ~ \E i \in InUse : IsJobOf(i, p)
    <3>1. NotAJob(p)
      <4>1. ASSUME NEW i \in JobSlots, jobs[i].in_use, jobs[i].pid = p
            PROVE  IsJobOf(i, p)
        <5>1. \A j \in InUse : jobs[j].pid = p => i = j
          BY <1>2, <4>1 DEF InUse
        <5>2. i \in Nat
          BY DEF JobSlots
        <5> QED
          BY <4>1, <5>1, <5>2 DEF IsJobOf, InUse
      <4> QED
        BY <2>2, <4>1 DEF NotAJob, InUse
    <3> QED
      BY <2>2, <3>1 DEF CheckChild
  <2> QED
    BY <2>1, <2>2
<1>4. CASE event[p] = "exit"
  <2>1. /\ \A i \in JobSlots : jobs'[i].in_use => jobs'[i] = jobs[i] /\ jobs[i].pid # p
        /\ \A i \in JobSlots : jobs[i].in_use /\ jobs[i].pid # p => jobs'[i] = jobs[i]
    <3>1. CASE NotAJob(p) /\ jobs' = jobs
      BY <3>1 DEF NotAJob
    <3>2. ASSUME NEW i \in JobSlots, jobs[i].in_use, jobs[i].pid = p, RemoveJob(i)
          PROVE  /\ \A j \in JobSlots : jobs'[j].in_use => jobs'[j] = jobs[j] /\ jobs[j].pid # p
                 /\ \A j \in JobSlots : jobs[j].in_use /\ jobs[j].pid # p => jobs'[j] = jobs[j]
      <4>1. ~ jobs'[i].in_use /\ \A j \in JobSlots \ {i} : jobs'[j] = jobs[j]
        BY <3>2, RemoveEffect
      <4> QED
        BY <1>2, <3>2, <4>1
    <3> QED
      BY <1>3, <1>4, <3>1, <3>2
  <2> QED
    BY <1>0, <1>1, <1>4, <2>1, ReapedKeeps
<1>5. CASE event[p] \in {"stop", "cont"}
  <2>1. /\ \A q \in Pids : proc'[q] = proc[q]
        /\ lost' = lost
    BY <1>1, <1>5 DEF CheckChild, Reported
  <2>2. \A i \in JobSlots :
            /\ SameJob(i)
            /\ (jobs[i].in_use => HeldByFg(i) \/ Agrees(jobs[i].status, jobs[i].pid))'
    <3>1. ASSUME NEW i \in JobSlots, jobs[i].in_use, jobs[i].pid # p, jobs'[i] = jobs[i]
          PROVE  Agrees(jobs[i].status, jobs[i].pid)'
      <4>1. jobs[i].pid \in Pids /\ Agrees(jobs[i].status, jobs[i].pid)
        BY <1>0, <3>1 DEF TableOK, JobFits, HeldByFg
      <4> QED
        BY <1>1, <3>1, <4>1 DEF Agrees
    <3>2. CASE NotAJob(p) /\ jobs' = jobs
      BY <3>1, <3>2 DEF NotAJob, SameJob
    <3>3. ASSUME NEW i \in JobSlots, jobs[i].in_use, jobs[i].pid = p,
                 event[p] = "stop" => SetStatus(i, "stopped"),
                 event[p] = "cont" => SetStatus(i, "running")
          PROVE  \A j \in JobSlots :
                    /\ SameJob(j)
                    /\ (jobs[j].in_use => HeldByFg(j) \/ Agrees(jobs[j].status, jobs[j].pid))'
      <4>1. /\ SameJob(i) /\ \A j \in JobSlots \ {i} : jobs'[j] = jobs[j]
            /\ event[p] = "stop" => jobs'[i].status = "stopped"
            /\ event[p] = "cont" => jobs'[i].status = "running"
        <5>1. CASE event[p] = "stop"
          BY <3>3, <5>1, SetStatusEffect DEF JobStatus
        <5>2. CASE event[p] = "cont"
          BY <3>3, <5>2, SetStatusEffect DEF JobStatus
        <5> QED
          BY <1>5, <5>1, <5>2
      <4>2. Agrees(jobs[i].status, jobs[i].pid)'
        BY <1>5, <2>1, <3>3, <4>1 DEF Agrees, EventFits, SameJob
      <4>3. ASSUME NEW j \in JobSlots \ {i}
            PROVE  SameJob(j) /\ (jobs[j].in_use => Agrees(jobs[j].status, jobs[j].pid))'
        <5>1. jobs[j].in_use => jobs[j].pid # p
          BY <1>2, <3>3, <4>3
        <5> QED
          BY <3>1, <4>1, <5>1 DEF SameJob
      <4> QED
        BY <4>1, <4>2, <4>3
    <3> QED
      BY <1>3, <1>5, <3>2, <3>3
  <2>3. pc \notin {"fg_done", "job_done"} /\ Moves
    BY <1>0 DEF Moves
  <2> QED
    BY <1>0, <2>1, <2>2, <2>3, StatusesKeep
<1> QED
  BY <1>0, <1>4, <1>5

\* waitpid() of a foreground command returns.
LEMMA WaitKeeps ==
    ASSUME TypeOK, TableOK, \A p \in Pids : EventFits(p), WaitUntraced
    PROVE  TableOK'
<1>0. pc \in {"fg_wait", "job_wait"} /\ slot \in JobSlots /\ NoPid \notin Pids
  BY Types DEF WaitUntraced
<1>1. PICK w \in Pids :
        /\ waiting = <<w>> /\ proc[w] # "free"
        /\ pc = "fg_wait" => NotAJob(w)
        /\ pc = "job_wait" => jobs[slot].in_use /\ jobs[slot].pid = w
  BY <1>0 DEF TableOK, Waits, WaitOutcome, Foreground, FgCommand
<1>2. WaitedFor(Head(waiting)) = {w}
  BY <1>0, <1>1 DEF WaitedFor, Children
<1>3. /\ event[w] \in {"stop", "exit"} /\ status' = event[w] /\ Reported(w)
      /\ UNCHANGED <<jobs, next_job_id, foreground_pid, waiting, slot>>
      /\ pc' = IF pc = "fg_wait" THEN "fg_done" ELSE "job_done"
  BY <1>2 DEF WaitUntraced
<1>4. /\ event'[w] = "none"
      /\ event[w] = "exit" => proc'[w] = "free"
      /\ event[w] # "exit" => proc'[w] = proc[w]
      /\ \A q \in Pids \ {w} : proc'[q] = proc[q] /\ event'[q] = event[q]
      /\ \A q \in Pids : q \in lost /\ q \notin lost' => proc'[q] = "free"
  BY <1>3, ReportedEffect
<1>5. \A i \in JobSlots : jobs[i].in_use /\ jobs[i].pid = w => pc = "job_wait" /\ i = slot
  BY <1>0, <1>1 DEF NotAJob, TableOK, Distinct
<1>6. ASSUME NEW i \in JobSlots PROVE JobFits(i)'
  <2>1. JobFits(i)
    BY DEF TableOK
  <2>2. CASE jobs[i].in_use /\ jobs[i].pid = w
    <3>1. pc = "job_wait" /\ i = slot
      BY <1>5, <2>2
    <3>2. pc' = "job_done" /\ slot' = i
      BY <1>3, <3>1
    <3>3. proc'[w] # "free" \/ status' = "exit"
      BY <1>1, <1>3, <1>4
    <3> QED
      BY <1>3, <2>1, <2>2, <3>2, <3>3 DEF JobFits, HeldByFg
  <2>3. CASE jobs[i].in_use /\ jobs[i].pid # w
    <3>1. jobs[i].pid \in Pids \ {w}
      BY <2>1, <2>3 DEF JobFits
    <3>2. pc # "job_done" /\ (HeldByFg(i) => HeldByFg(i)')
      BY <1>0, <1>3 DEF HeldByFg
    <3> QED
      BY <1>3, <1>4, <2>1, <2>3, <3>1, <3>2 DEF JobFits, Agrees
  <2>4. CASE ~ jobs[i].in_use
    BY <1>3, <2>4 DEF JobFits
  <2> QED
    BY <2>2, <2>3, <2>4
<1>7. ASSUME NEW i \in JobSlots, NEW j \in JobSlots PROVE Distinct(i, j)'
  BY <1>3 DEF TableOK, Distinct
<1>8. Waits'
  <2>1. WaitOutcome(w)'
    <3>1. CASE event[w] = "exit"
      BY <1>3, <1>4, <3>1 DEF WaitOutcome
    <3>2. CASE event[w] = "stop"
      <4>1. proc'[w] = "stopped"
        BY <1>4, <3>2 DEF EventFits
      <4> QED
        BY <1>3, <3>2, <4>1 DEF WaitOutcome, Agrees
    <3> QED
      BY <1>3, <3>1, <3>2
  <2>2. CASE pc = "fg_wait"
    <3>1. NotAJob(w)'
      BY <1>1, <1>3, <2>2 DEF NotAJob
    <3> QED
      BY <1>1, <1>3, <2>1, <2>2, <3>1 DEF Waits, Foreground, FgCommand
  <2>3. CASE pc = "job_wait"
    BY <1>1, <1>3, <2>1, <2>3 DEF Waits, Foreground, FgCommand
  <2> QED
    BY <1>0, <2>2, <2>3
<1>9. ASSUME NEW q \in Pids PROVE Listed(q)'
  <2>1. Listed(q)
    BY DEF TableOK
  <2>2. proc[q] = "free" => proc'[q] = "free"
    BY <1>1, <1>4
  <2>3. pc \in Foreground => pc' \in Foreground
    BY <1>0, <1>3 DEF Foreground
  <2> QED
    BY <1>3, <1>4, <2>1, <2>2, <2>3 DEF Listed
<1> QED
  BY <1>6, <1>7, <1>8, <1>9 DEF TableOK

\* A foreground command has ended, or stopped and becomes a job.
LEMMA ForegroundKeeps == ASSUME TypeOK, TableOK, ForegroundDone PROVE TableOK'
<1>0. /\ pc = "fg_done" /\ pc' = "next" /\ UNCHANGED <<proc, event, slot, status>>
      /\ next_job_id \in Nat
  BY Types DEF ForegroundDone
<1>1. PICK w \in Pids : /\ waiting = <<w>> /\ NotAJob(w)
                        /\ \/ status = "exit" /\ proc[w] = "free"
                           \/ /\ status = "stop" /\ proc[w] # "free"
                              /\ Agrees("stopped", w)
  BY <1>0 DEF TableOK, Waits, WaitOutcome, Foreground
<1>2. \/ /\ jobs' = jobs /\ next_job_id' = next_job_id /\ lost' = lost
         /\ proc[w] = "free"
      \/ jobs' = jobs /\ next_job_id' = next_job_id /\ lost' = lost \union {w}
      \/ status = "stop" /\ lost' = lost /\ \E i \in JobSlots : JobAdded(i, w, "stopped")
  <2>1. CASE status = "stop"
    <3>1. AddJob(w, "stopped") /\ lost' = lost \union Refused(w)
      BY <1>1, <2>1 DEF ForegroundDone
    <3> QED
      BY <2>1, <3>1, AddEffect DEF JobStatus
  <2>2. CASE status # "stop"
    BY <1>1, <2>2 DEF ForegroundDone
  <2> QED
    BY <2>1, <2>2
<1>3. Waits'
  BY <1>0 DEF Waits, Foreground, FgCommand
<1>4. lost \subseteq lost' /\ \A q \in Pids : Listed(q)
  BY <1>2 DEF TableOK
<1>5. CASE jobs' = jobs /\ next_job_id' = next_job_id /\ (proc[w] = "free" \/ w \in lost')
  <2>1. ASSUME NEW i \in JobSlots PROVE JobFits(i)'
    BY <1>0, <1>5 DEF TableOK, JobFits, HeldByFg, Agrees
  <2>2. ASSUME NEW i \in JobSlots, NEW j \in JobSlots PROVE Distinct(i, j)'
    BY <1>5 DEF TableOK, Distinct
  <2>3. ASSUME NEW q \in Pids PROVE Listed(q)'
    <3>1. waiting = <<q>> => q = w
      BY <1>1
    <3> QED
      BY <1>0, <1>4, <1>5, <3>1 DEF Listed
  <2> QED
    BY <1>3, <2>1, <2>2, <2>3 DEF TableOK
<1>6. ASSUME NEW k \in JobSlots, JobAdded(k, w, "stopped"), status = "stop" PROVE TableOK'
  <2>1. /\ ~ jobs[k].in_use
        /\ jobs'[k].in_use /\ jobs'[k].pid = w /\ jobs'[k].status = "stopped"
        /\ jobs'[k].job_id = next_job_id
        /\ \A j \in JobSlots \ {k} : jobs'[j] = jobs[j]
        /\ next_job_id' = next_job_id + 1
    BY <1>6 DEF JobAdded
  <2>2. \A i \in JobSlots : jobs[i].job_id \in Nat
    BY Types
  <2>3. ASSUME NEW i \in JobSlots PROVE JobFits(i)'
    <3>1. CASE i = k
      <4>1. proc'[w] # "free" /\ Agrees("stopped", w)'
        BY <1>0, <1>1, <1>6 DEF Agrees
      <4> QED
        BY <1>0, <2>1, <3>1, <4>1 DEF JobFits, Agrees
    <3>2. CASE i # k
      <4>1. JobFits(i) /\ jobs'[i] = jobs[i]
        BY <2>1, <3>2 DEF TableOK
      <4>2. jobs[i].job_id < next_job_id => jobs[i].job_id < next_job_id'
        BY <1>0, <2>1, <2>2
      <4> QED
        BY <1>0, <4>1, <4>2 DEF JobFits, HeldByFg, Agrees
    <3> QED
      BY <3>1, <3>2
  <2>4. ASSUME NEW i \in JobSlots, NEW j \in JobSlots PROVE Distinct(i, j)'
    <3>1. \A m \in JobSlots \ {k} : jobs'[m].in_use =>
              /\ jobs'[m] = jobs[m] /\ jobs[m].in_use /\ jobs[m].pid # w
              /\ jobs[m].job_id # next_job_id
      <4> SUFFICES ASSUME NEW m \in JobSlots \ {k}, jobs'[m].in_use
                   PROVE  /\ jobs'[m] = jobs[m] /\ jobs[m].in_use /\ jobs[m].pid # w
                          /\ jobs[m].job_id # next_job_id
        OBVIOUS
      <4>1. jobs'[m] = jobs[m] /\ jobs[m].in_use
        BY <2>1
      <4>2. jobs[m].pid # w /\ jobs[m].job_id < next_job_id
        BY <1>1, <4>1 DEF NotAJob, TableOK, JobFits
      <4> QED
        BY <1>0, <2>2, <4>1, <4>2
    <3> QED
      BY <2>1, <3>1 DEF TableOK, Distinct
  <2>5. ASSUME NEW q \in Pids PROVE Listed(q)'
    <3>1. waiting = <<q>> => q = w
      BY <1>1
    <3>2. CASE q = w
      BY <2>1, <3>2 DEF Listed
    <3>3. ASSUME NEW j \in JobSlots, jobs[j].in_use, jobs[j].pid = q
          PROVE  jobs'[j].in_use /\ jobs'[j].pid = q
      BY <2>1, <3>3
    <3> QED
      BY <1>0, <1>4, <3>1, <3>2, <3>3 DEF Listed
  <2> QED
    BY <1>3, <2>3, <2>4, <2>5 DEF TableOK
<1> QED
  BY <1>2, <1>5, <1>6

\* fork() takes process ids that no job has, as jobs are children.
LEMMA ForkFresh ==
    ASSUME TypeOK, TableOK, pc \in Resting, NEW P \in SUBSET Pids, Fork(P)
    PROVE  /\ event' = event
           /\ \A p \in P : proc[p] = "free" /\ proc'[p] = "running" /\ NotAJob(p)
           /\ \A p \in Pids \ P : proc'[p] = proc[p]
           /\ \A i \in JobSlots : jobs[i].in_use =>
                /\ jobs[i].pid \in Pids \ P /\ proc[jobs[i].pid] # "free"
                /\ Agrees(jobs[i].status, jobs[i].pid)
<1>1. /\ event' = event
      /\ \A p \in P : proc[p] = "free" /\ proc'[p] = "running"
      /\ \A p \in Pids \ P : proc'[p] = proc[p]
  BY ForkEffect
<1>2. \A i \in JobSlots : jobs[i].in_use =>
        /\ jobs[i].pid \in Pids /\ proc[jobs[i].pid] # "free"
        /\ Agrees(jobs[i].status, jobs[i].pid)
  BY DEF TableOK, JobFits, HeldByFg, Resting
<1> QED
  BY <1>1, <1>2 DEF NotAJob

\* A command starts in the background: process p becomes a job, the others of P do not.
LEMMA StartKeeps ==
    ASSUME TypeOK, TableOK, pc \in Resting, pc' = "next",
           NEW P \in SUBSET Pids, Fork(P), NEW p \in P, AddJob(p, "running"),
           lost \union (P \ {p}) \union Refused(p) \subseteq lost',
           UNCHANGED <<slot, status>>
    PROVE  TableOK'
<1>1. /\ event' = event
      /\ \A r \in P : proc[r] = "free" /\ proc'[r] = "running" /\ NotAJob(r)
      /\ \A r \in Pids \ P : proc'[r] = proc[r]
      /\ \A i \in JobSlots : jobs[i].in_use =>
            /\ jobs[i].pid \in Pids \ P /\ proc[jobs[i].pid] # "free"
            /\ Agrees(jobs[i].status, jobs[i].pid)
  BY ForkFresh
<1>2. \/ jobs' = jobs /\ next_job_id' = next_job_id /\ Refused(p) = {p}
      \/ \E i \in JobSlots : JobAdded(i, p, "running")
  BY AddEffect DEF JobStatus
<1>3. Waits'
  BY DEF Waits, Foreground, FgCommand
<1>4. \A i \in JobSlots : jobs[i].in_use /\ jobs'[i] = jobs[i] =>
        Agrees(jobs[i].status, jobs[i].pid)' /\ proc'[jobs[i].pid] # "free"
  BY <1>1 DEF Agrees
<1>5. \A q \in Pids : Listed(q) /\ pc \notin Foreground
  BY DEF TableOK, Foreground, Resting
<1>6. CASE jobs' = jobs /\ next_job_id' = next_job_id /\ Refused(p) = {p}
  <2>1. ASSUME NEW i \in JobSlots PROVE JobFits(i)'
    BY <1>4, <1>6 DEF TableOK, JobFits
  <2>2. ASSUME NEW i \in JobSlots, NEW j \in JobSlots PROVE Distinct(i, j)'
    BY <1>6 DEF TableOK, Distinct
  <2>3. ASSUME NEW q \in Pids PROVE Listed(q)'
    BY <1>1, <1>5, <1>6 DEF Listed
  <2> QED
    BY <1>3, <2>1, <2>2, <2>3 DEF TableOK
<1>7. ASSUME NEW k \in JobSlots, JobAdded(k, p, "running") PROVE TableOK'
  <2>1. /\ ~ jobs[k].in_use
        /\ jobs'[k].in_use /\ jobs'[k].pid = p /\ jobs'[k].status = "running"
        /\ jobs'[k].job_id = next_job_id
        /\ \A j \in JobSlots \ {k} : jobs'[j] = jobs[j]
        /\ next_job_id' = next_job_id + 1
    BY <1>7 DEF JobAdded
  <2>2. next_job_id \in Nat /\ \A i \in JobSlots : jobs[i].job_id \in Nat
    BY Types
  <2>3. ASSUME NEW i \in JobSlots PROVE JobFits(i)'
    <3>1. CASE i = k
      <4>1. proc'[p] # "free" /\ Agrees("running", p)'
        BY <1>1 DEF Agrees
      <4> QED
        BY <2>1, <2>2, <3>1, <4>1 DEF JobFits, Agrees
    <3>2. CASE i # k
      <4>1. JobFits(i) /\ jobs'[i] = jobs[i]
        BY <2>1, <3>2 DEF TableOK
      <4>2. jobs[i].job_id < next_job_id => jobs[i].job_id < next_job_id'
        BY <2>1, <2>2
      <4> QED
        BY <1>4, <4>1, <4>2 DEF JobFits
    <3> QED
      BY <3>1, <3>2
  <2>4. ASSUME NEW i \in JobSlots, NEW j \in JobSlots PROVE Distinct(i, j)'
    <3>1. \A m \in JobSlots \ {k} : jobs'[m].in_use =>
              /\ jobs'[m] = jobs[m] /\ jobs[m].in_use /\ jobs[m].pid # p
              /\ jobs[m].job_id # next_job_id
      <4> SUFFICES ASSUME NEW m \in JobSlots \ {k}, jobs'[m].in_use
                   PROVE  /\ jobs'[m] = jobs[m] /\ jobs[m].in_use /\ jobs[m].pid # p
                          /\ jobs[m].job_id # next_job_id
        OBVIOUS
      <4>1. jobs'[m] = jobs[m] /\ jobs[m].in_use
        BY <2>1
      <4>2. jobs[m].pid # p /\ jobs[m].job_id < next_job_id
        BY <1>1, <4>1 DEF NotAJob, TableOK, JobFits
      <4> QED
        BY <2>2, <4>1, <4>2
    <3> QED
      BY <2>1, <3>1 DEF TableOK, Distinct
  <2>5. ASSUME NEW q \in Pids PROVE Listed(q)'
    <3>1. CASE q = p
      BY <2>1, <3>1 DEF Listed
    <3>2. ASSUME NEW j \in JobSlots, jobs[j].in_use, jobs[j].pid = q
          PROVE  jobs'[j].in_use /\ jobs'[j].pid = q
      BY <2>1, <3>2
    <3> QED
      BY <1>1, <1>5, <3>1, <3>2 DEF Listed
  <2> QED
    BY <1>3, <2>3, <2>4, <2>5 DEF TableOK
<1> QED
  BY <1>2, <1>6, <1>7

\* A command or a pipeline starts in the foreground.
LEMMA ForegroundStartKeeps ==
    ASSUME TypeOK, TableOK, pc \in Resting, NEW P \in SUBSET Pids, Fork(P),
           NEW q \in P, NEW p \in P, P = {q, p},
           \/ pc' = "fg_set" /\ waiting' = <<p>> /\ q = p /\ lost' = lost
           \/ pc' = "pipe_wait" /\ waiting' = <<q, p>> /\ lost' = lost \union {q, p},
           UNCHANGED <<jobs, next_job_id, slot, status>>
    PROVE  TableOK'
<1>1. /\ event' = event
      /\ \A r \in P : proc[r] = "free" /\ proc'[r] = "running" /\ NotAJob(r)
      /\ \A r \in Pids \ P : proc'[r] = proc[r]
      /\ \A i \in JobSlots : jobs[i].in_use =>
            /\ jobs[i].pid \in Pids \ P /\ proc[jobs[i].pid] # "free"
            /\ Agrees(jobs[i].status, jobs[i].pid)
  BY ForkFresh
<1>2. ASSUME NEW i \in JobSlots PROVE JobFits(i)'
  BY <1>1 DEF TableOK, JobFits, Agrees
<1>3. ASSUME NEW i \in JobSlots, NEW j \in JobSlots PROVE Distinct(i, j)'
  BY DEF TableOK, Distinct
<1>4. \A r \in P : NotAJob(r)'
  BY <1>1 DEF NotAJob
<1>5. Waits'
  <2>1. CASE pc' = "fg_set" /\ waiting' = <<p>>
    <3>1. WaitOutcome(p)'
      BY <1>1, <2>1 DEF WaitOutcome
    <3> QED
      BY <1>4, <2>1, <3>1 DEF Waits, Foreground, FgCommand
  <2>2. CASE pc' = "pipe_wait" /\ waiting' = <<q, p>>
    <3>1. Len(waiting') = 2 /\ waiting'[1] = q /\ waiting'[2] = p
      BY <2>2
    <3>2. ASSUME NEW k \in 1 .. Len(waiting') PROVE waiting'[k] \in P
      <4>1. k = 1 \/ k = 2
        BY <3>1
      <4> QED
        BY <3>1, <4>1
    <3>3. \A k \in 1 .. Len(waiting') : waiting'[k] \in Pids /\ NotAJob(waiting[k])'
      BY <1>4, <3>2 DEF NotAJob
    <3> QED
      BY <2>2, <3>3 DEF Waits, Foreground, FgCommand
  <2> QED
    BY <2>1, <2>2
<1>6. ASSUME NEW r \in Pids PROVE Listed(r)'
  <2>1. Listed(r) /\ pc \notin Foreground
    BY DEF TableOK, Foreground, Resting
  <2> QED
    BY <1>1, <2>1 DEF Listed, Foreground
<1> QED
  BY <1>2, <1>3, <1>5, <1>6 DEF TableOK

\* cmd_fg() takes job i.
LEMMA FgKeeps == ASSUME TypeOK, TableOK, NEW i \in JobSlots, Fg(i) PROVE TableOK'
<1>1. /\ pc \in Resting /\ jobs[i].in_use /\ pc' = "job_set" /\ slot' = i
      /\ waiting' = <<jobs[i].pid>> /\ UNCHANGED <<next_job_id, status>>
  BY DEF Fg, TakesCommand, InUse, Resting
<1>2. /\ SameJob(i) /\ \A j \in JobSlots \ {i} : jobs'[j] = jobs[j]
  BY SetStatusEffect DEF Fg, JobStatus
<1>3. (\A p \in Pids : Change(p)) /\ lost' = lost
  BY SignalEffect DEF Fg, kernelVars, Change
<1>4. \A j \in JobSlots : jobs[j].in_use =>
        /\ jobs[j].pid \in Pids /\ proc[jobs[j].pid] # "free"
        /\ Agrees(jobs[j].status, jobs[j].pid) /\ jobs[j].job_id < next_job_id
  BY <1>1 DEF TableOK, JobFits, HeldByFg, Resting
<1>5. ASSUME NEW j \in JobSlots PROVE JobFits(j)'
  <2>1. CASE j = i
    <3>1. jobs[i].pid \in Pids /\ proc'[jobs[i].pid] # "free"
      BY <1>1, <1>3, <1>4 DEF Change
    <3> QED
      BY <1>1, <1>2, <1>4, <2>1, <3>1 DEF JobFits, HeldByFg, SameJob
  <2>2. CASE j # i /\ jobs[j].in_use
    <3>1. /\ jobs[j].pid \in Pids /\ Change(jobs[j].pid) /\ proc[jobs[j].pid] # "free"
          /\ Agrees(jobs[j].status, jobs[j].pid)
      BY <1>3, <1>4, <2>2
    <3>2. proc'[jobs[j].pid] # "free" /\ jobs'[j] = jobs[j]
      BY <1>2, <2>2, <3>1 DEF Change
    <3>3. Agrees(jobs[j].status, jobs[j].pid)'
      BY <3>1, <3>2 DEF Change, Agrees
    <3> QED
      BY <1>1, <1>4, <2>2, <3>1, <3>2, <3>3 DEF JobFits
  <2>3. CASE j # i /\ ~ jobs[j].in_use
    BY <1>2, <2>3 DEF JobFits
  <2> QED
    BY <2>1, <2>2, <2>3
<1>6. ASSUME NEW j \in JobSlots, NEW k \in JobSlots PROVE Distinct(j, k)'
  <2>1. \A m \in JobSlots : SameJob(m)
    BY <1>2 DEF SameJob
  <2> QED
    BY <2>1 DEF TableOK, Distinct, SameJob
<1>7. Waits'
  <2>1. PICK w \in Pids : w = jobs[i].pid
    BY <1>1, <1>4
  <2>2. WaitOutcome(w)'
    BY <1>1, <1>3, <1>4, <2>1 DEF WaitOutcome, Change
  <2> QED
    BY <1>1, <1>2, <2>1, <2>2 DEF Waits, Foreground, FgCommand, SameJob
<1>8. ASSUME NEW p \in Pids PROVE Listed(p)'
  <2>1. Listed(p) /\ pc \notin Foreground
    BY <1>1 DEF TableOK, Foreground, Resting
  <2>2. proc'[p] = "free" <=> proc[p] = "free"
    BY <1>3, ChangeKeeps
  <2>3. \A m \in JobSlots : SameJob(m)
    BY <1>2 DEF SameJob
  <2> QED
    BY <1>3, <2>1, <2>2, <2>3 DEF Listed, SameJob
<1> QED
  BY <1>5, <1>6, <1>7, <1>8 DEF TableOK

\* cmd_bg() continues job i.
LEMMA BgKeeps == ASSUME TypeOK, TableOK, NEW i \in JobSlots, Bg(i) PROVE TableOK'
<1>1. /\ pc \in Resting /\ jobs[i].in_use /\ pc' = "next" /\ pc # "fg_done" /\ pc # "job_done"
      /\ UNCHANGED <<next_job_id, slot, status>>
  BY DEF Bg, TakesCommand, InUse, Resting
<1>2. Moves
  BY <1>1 DEF Moves, Resting
<1>3. CASE jobs[i].status = "running"
  <2>1. UNCHANGED <<jobs, proc, event, lost>>
    BY <1>3 DEF Bg, kernelVars
  <2> QED
    BY <1>1, <1>2, <2>1, SignalKeeps DEF Change
<1>4. CASE jobs[i].status # "running"
  <2>1. /\ SameJob(i) /\ jobs'[i].status = "running"
        /\ \A j \in JobSlots \ {i} : jobs'[j] = jobs[j]
    BY <1>4, SetStatusEffect DEF Bg, JobStatus
  <2>2. /\ lost' = lost /\ \A p \in Pids : Change(p)
        /\ \A p \in Pids : p \in WaitedFor(jobs[i].pid) => proc'[p] # "stopped"
    BY <1>4, SignalEffect DEF Bg
  <2>3. \A j \in JobSlots : jobs[j].in_use =>
            /\ jobs[j].pid \in Pids /\ proc[jobs[j].pid] # "free"
            /\ Agrees(jobs[j].status, jobs[j].pid)
    BY <1>1 DEF TableOK, JobFits, HeldByFg, Resting
  <2>4. \A j \in JobSlots : SameJob(j)
    BY <2>1 DEF SameJob
  <2>5. ASSUME NEW j \in JobSlots, jobs'[j].in_use
        PROVE  Agrees(jobs[j].status, jobs[j].pid)'
    <3>1. /\ jobs[j].in_use /\ jobs'[j].pid = jobs[j].pid
          /\ jobs[j].pid \in Pids /\ proc[jobs[j].pid] # "free"
      BY <2>3, <2>4, <2>5 DEF SameJob
    <3>2. CASE j = i
      <4>1. jobs[i].pid \in WaitedFor(jobs[i].pid)
        BY <3>1, <3>2 DEF WaitedFor, Children
      <4>2. proc'[jobs[i].pid] # "stopped"
        BY <2>2, <3>1, <3>2, <4>1
      <4> QED
        BY <2>1, <3>1, <3>2, <4>2 DEF Agrees
    <3>3. CASE j # i
      <4>1. Agrees(jobs[j].status, jobs[j].pid) /\ Change(jobs[j].pid) /\ jobs'[j] = jobs[j]
        BY <2>1, <2>2, <2>3, <3>1, <3>3
      <4> QED
        BY <4>1 DEF Change, Agrees
    <3> QED
      BY <3>2, <3>3
  <2>6. \A p \in Pids : proc'[p] = "free" <=> proc[p] = "free"
    BY <2>2, ChangeKeeps
  <2> QED
    BY <1>1, <1>2, <2>2, <2>4, <2>5, <2>6, StatusesKeep
<1> QED
  BY <1>3, <1>4

\* Ctrl-Z: the job that the handler marks is the one that fg has taken.
LEMMA CtrlZKeeps ==
    ASSUME TypeOK, TableOK, ForegroundIsWaited, NEW P \in SUBSET Pids, CtrlZ(P)
    PROVE  TableOK'
<1>1. /\ UNCHANGED <<pc, next_job_id, waiting, slot, status>> /\ lost' = lost
      /\ \A p \in Pids : Change(p)
  BY SignalEffect DEF CtrlZ
<1>2. Moves
  BY <1>1 DEF Moves
<1>3. CASE jobs' = jobs
  BY <1>1, <1>2, <1>3, SignalKeeps
<1>4. ASSUME NEW i \in InUse, IsJobOf(i, foreground_pid), SetStatus(i, "stopped"),
             foreground_pid > 0
      PROVE  TableOK'
  <2>1. i \in JobSlots /\ jobs[i].in_use /\ jobs[i].pid = foreground_pid
    BY <1>4 DEF InUse, IsJobOf
  <2>2. /\ pc \in {"fg_wait", "fg_done", "job_wait", "job_done"}
        /\ foreground_pid = Head(waiting)
    BY <1>4 DEF ForegroundIsWaited, NoPid
  <2>3. slot = i /\ pc \in FgCommand
    <3>1. CASE pc \in Foreground
      <4>1. PICK w \in Pids : waiting = <<w>> /\ NotAJob(w)
        BY <3>1 DEF TableOK, Waits
      <4> QED
        BY <2>1, <2>2, <4>1 DEF NotAJob
    <3>2. CASE pc \in FgCommand
      <4>1. PICK w \in Pids : waiting = <<w>> /\ jobs[slot].in_use /\ jobs[slot].pid = w
        BY <3>2 DEF TableOK, Waits
      <4>2. slot \in JobSlots
        BY Types
      <4> QED
        BY <2>1, <2>2, <3>2, <4>1, <4>2 DEF TableOK, Distinct
    <3> QED
      BY <2>2, <3>1, <3>2 DEF Foreground, FgCommand
  <2>4. SameJob(i) /\ \A j \in JobSlots \ {i} : jobs'[j] = jobs[j]
    BY <1>4, <2>1, SetStatusEffect DEF JobStatus
  <2>5. \A j \in JobSlots : SameJob(j)
    BY <2>4 DEF SameJob
  <2>6. ASSUME NEW j \in JobSlots, jobs'[j].in_use
        PROVE  (HeldByFg(j) \/ Agrees(jobs[j].status, jobs[j].pid))'
    <3>1. CASE j = i
      BY <1>1, <2>3, <3>1 DEF HeldByFg, FgCommand
    <3>2. CASE j # i
      <4>1. jobs[j].in_use /\ jobs'[j] = jobs[j]
        BY <2>4, <2>6, <3>2
      <4>2. jobs[j].pid \in Pids /\ Agrees(jobs[j].status, jobs[j].pid)
        BY <2>3, <3>2, <4>1 DEF TableOK, JobFits, HeldByFg
      <4> QED
        BY <1>1, <4>1, <4>2 DEF Change, Agrees
    <3> QED
      BY <3>1, <3>2
  <2>7. \A p \in Pids : /\ proc'[p] = "free" <=> proc[p] = "free"
                        /\ Agrees("stopped", p) => Agrees("stopped", p)'
    BY <1>1, ChangeKeeps
  <2> QED
    BY <1>1, <1>2, <2>5, <2>6, <2>7, StatusesKeep
<1> QED
  BY <1>3, <1>4 DEF CtrlZ

\* cmd_fg() writes back what has become of the job.
LEMMA FgDoneKeeps == ASSUME TypeOK, TableOK, FgDone PROVE TableOK'
<1>0. /\ pc = "job_done" /\ pc' = "next" /\ slot \in JobSlots
      /\ UNCHANGED <<next_job_id, slot, status, proc, event, lost>>
  BY Types DEF FgDone, kernelVars
<1>1. PICK w \in Pids : /\ jobs[slot].in_use /\ jobs[slot].pid = w
                        /\ \/ status = "exit" /\ proc[w] = "free"
                           \/ status = "stop" /\ proc[w] # "free" /\ Agrees("stopped", w)
  BY <1>0 DEF TableOK, Waits, WaitOutcome, FgCommand
<1>2. /\ \A j \in JobSlots \ {slot} : jobs'[j] = jobs[j]
      /\ status = "exit" => ~ jobs'[slot].in_use
      /\ status = "stop" => SameJob(slot) /\ jobs'[slot].status = "stopped"
  <2>1. CASE status = "exit"
    <3>1. RemoveJob(slot)
      BY <2>1 DEF FgDone
    <3> QED
      BY <1>0, <2>1, <3>1, RemoveEffect
  <2>2. CASE status = "stop"
    <3>1. SetStatus(slot, "stopped")
      BY <2>2 DEF FgDone
    <3> QED
      BY <1>0, <2>2, <3>1, SetStatusEffect DEF JobStatus
  <2> QED
    BY <1>1, <2>1, <2>2
<1>3. ASSUME NEW i \in JobSlots PROVE JobFits(i)'
  <2>1. JobFits(i)
    BY DEF TableOK
  <2>2. CASE i = slot
    BY <1>0, <1>1, <1>2, <2>1, <2>2 DEF JobFits, SameJob, Agrees
  <2>3. CASE i # slot
    BY <1>0, <1>2, <2>1, <2>3 DEF JobFits, HeldByFg, Agrees
  <2> QED
    BY <2>2, <2>3
<1>4. ASSUME NEW i \in JobSlots, NEW j \in JobSlots PROVE Distinct(i, j)'
  <2>1. \A m \in JobSlots : jobs'[m].in_use => jobs[m].in_use /\ SameJob(m)
    BY <1>1, <1>2 DEF SameJob
  <2> QED
    BY <2>1 DEF TableOK, Distinct, SameJob
<1>5. Waits'
  BY <1>0 DEF Waits, Foreground, FgCommand
<1>6. ASSUME NEW p \in Pids PROVE Listed(p)'
  <2>1. Listed(p) /\ pc \notin Foreground
    BY <1>0 DEF TableOK, Foreground
  <2>2. \A m \in JobSlots : jobs[m].in_use /\ proc[jobs[m].pid] # "free" =>
            jobs'[m].in_use /\ jobs'[m].pid = jobs[m].pid
    BY <1>1, <1>2 DEF SameJob
  <2> QED
    BY <1>0, <2>1, <2>2 DEF Listed
<1> QED
  BY <1>3, <1>4, <1>5, <1>6 DEF TableOK

\* A process of a foreground pipeline has ended: it is no job.
LEMMA StageKeeps == ASSUME TypeOK, TableOK, WaitStage PROVE TableOK'
<1>0. /\ pc = "pipe_wait" /\ waiting # <<>> /\ waiting' = Tail(waiting) /\ NoPid \notin Pids
      /\ UNCHANGED <<pc, jobs, next_job_id, slot, status>>
  BY Types DEF WaitStage
<1>1. waiting \in Seq(Pids \union {NoPid}) /\ 1 \in 1 .. Len(waiting)
      /\ Head(waiting) = waiting[1]
  BY <1>0 DEF TypeOK
<1>2. Head(waiting) \in Pids /\ NotAJob(Head(waiting))
  BY <1>0, <1>1 DEF TableOK, Waits
<1>3. ASSUME NEW p \in WaitedFor(Head(waiting)), event[p] = "exit", Reported(p)
      PROVE  TableOK'
  <2>1. p \in Pids /\ p = Head(waiting)
    BY <1>0, <1>2, <1>3 DEF WaitedFor, Children
  <2>2. /\ proc'[p] = "free"
        /\ \A q \in Pids \ {p} : proc'[q] = proc[q] /\ event'[q] = event[q]
        /\ \A q \in Pids : q \in lost /\ q \notin lost' => proc'[q] = "free"
    BY <1>3, <2>1, ReportedEffect
  <2>3. \A i \in JobSlots : jobs[i].in_use => jobs[i].pid # p
    BY <1>2, <2>1 DEF NotAJob
  <2> QED
    BY <1>0, <2>1, <2>2, <2>3, ReapedKeeps
<1>4. CASE WaitedFor(Head(waiting)) = {} /\ UNCHANGED kernelVars
  <2>1. proc[Head(waiting)] = "free"
    BY <1>2, <1>4 DEF WaitedFor, Children
  <2> QED
    BY <1>0, <1>2, <1>4, <2>1, ReapedKeeps DEF kernelVars, NotAJob
<1> QED
  BY <1>3, <1>4 DEF WaitStage

\* Every step keeps the table, unless a fork() of a pipeline fails in it.
LEMMA TableStep ==
    ASSUME JobInv, [Next]_vars, ForksWell, ForksWell'
    PROVE  TableOK'
<1> USE DEF JobInv
<1>1. CASE \/ CheckDone \/ EndOfLine \/ OtherCommand \/ PipelineDone \/ SetForeground
           \/ UNCHANGED vars
  <2>1. Moves /\ UNCHANGED <<jobs, next_job_id, slot, status, kernelVars>>
    BY <1>1 DEF CheckDone, EndOfLine, OtherCommand, PipelineDone, SetForeground, vars,
       shellVars, Moves, Resting
  <2> QED
    BY <2>1, SignalKeeps DEF kernelVars, Change
<1>2. CASE WaitUntraced
  BY <1>2, WaitKeeps
<1>3. CASE ForegroundDone
  BY <1>3, ForegroundKeeps
<1>4. CASE FgDone
  BY <1>4, FgDoneKeeps
<1>5. CASE WaitStage
  BY <1>5, StageKeeps
<1>6. CASE \E p \in Pids : CheckChild(p)
  BY <1>6, CheckKeeps
<1>7. ASSUME NEW p \in Pids, RunBackground(p) PROVE TableOK'
  <2>1. lost \union ({p} \ {p}) \union Refused(p) \subseteq lost'
    BY <1>7 DEF RunBackground
  <2> QED
    BY <1>7, <2>1, StartKeeps DEF RunBackground, TakesCommand, Resting
<1>8. ASSUME NEW p \in Pids, RunForeground(p) PROVE TableOK'
  BY <1>8, ForegroundStartKeeps DEF RunForeground, TakesCommand, Resting
<1>9. ASSUME NEW i \in JobSlots, Fg(i) \/ Bg(i) PROVE TableOK'
  BY <1>9, FgKeeps, BgKeeps
<1>10. ASSUME NEW p \in Pids, NEW sig \in {"KILL", "STOP", "CONT"}, Ping(p, sig)
       PROVE  TableOK'
  <2>1. (\A q \in Pids : Change(q)) /\ lost' = lost
    BY <1>10, SignalEffect DEF Ping
  <2>2. Moves /\ UNCHANGED <<jobs, next_job_id, slot, status>>
    BY <1>10 DEF Ping, TakesCommand, Moves, Resting
  <2> QED
    BY <2>1, <2>2, SignalKeeps
<1>11. ASSUME NEW q \in Forked, NEW p \in Forked, PipelineBackground(q, p)
       PROVE  TableOK'
  <2>1. q # NoPid /\ p # NoPid /\ q \in Pids /\ p \in Pids
    BY <1>11 DEF PipelineBackground, ForksWell, Forked
  <2>2. {q, p} \ {NoPid} = {q, p} /\ {q, p} \in SUBSET Pids
    BY <2>1
  <2>3. lost \union ({q, p} \ {p}) \union Refused(p) \subseteq lost'
    BY <1>11 DEF PipelineBackground
  <2> QED
    BY <1>11, <2>2, <2>3, StartKeeps DEF PipelineBackground, TakesCommand, Resting
<1>12. ASSUME NEW q \in Forked, NEW p \in Forked, PipelineForeground(q, p)
       PROVE  TableOK'
  <2>1. q # NoPid /\ p # NoPid /\ q \in Pids /\ p \in Pids
    BY <1>12 DEF PipelineForeground, ForksWell, Forked
  <2>2. {q, p} \ {NoPid} = {q, p} /\ {q, p} \in SUBSET Pids
    BY <2>1
  <2> QED
    BY <1>12, <2>2, ForegroundStartKeeps DEF PipelineForeground, TakesCommand, Resting
<1>13. CASE Kernel
  <2>1. PICK p \in Pids, sig \in {"KILL", "STOP", "CONT"} :
            Signal({p}, sig) /\ UNCHANGED shellVars
    BY <1>13 DEF Kernel, ProcessEnds, OutsideSignal
  <2>2. (\A q \in Pids : Change(q)) /\ lost' = lost
    BY <2>1, SignalEffect
  <2> QED
    BY <2>1, <2>2, SignalKeeps DEF shellVars, Moves
<1>14. CASE Terminal
  <2>1. ASSUME NEW P \in SUBSET Pids, CtrlC(P) PROVE TableOK'
    <3>1. (\A q \in Pids : Change(q)) /\ lost' = lost
      BY <2>1, SignalEffect DEF CtrlC
    <3> QED
      BY <2>1, <3>1, SignalKeeps DEF CtrlC, shellVars, Moves
  <2>2. CASE CtrlD
    <3>1. (\A q \in Pids : Change(q)) /\ lost' = lost
      BY <2>2, SignalEffect DEF CtrlD
    <3> QED
      BY <2>2, <3>1, SignalKeeps DEF CtrlD, Moves, Resting
  <2> QED
    BY <1>14, <2>1, <2>2, CtrlZKeeps DEF Terminal
<1> QED
  BY <1>1, <1>2, <1>3, <1>4, <1>5, <1>6, <1>7, <1>8, <1>9, <1>10, <1>11, <1>12, <1>13, <1>14
     DEF Next, ShellStep, Command
-----------------------------------------------------------------------------
(* The theorems                                                            *)

\* JobInv is an invariant.
THEOREM JobsInvariant == Spec => []JobInv
<1>1. Init => JobInv
  <2> SUFFICES ASSUME Init PROVE JobInv
    OBVIOUS
  <2>1. TypeOK
    <3>1. [in_use |-> FALSE, job_id |-> 0, pid |-> NoPid, status |-> "running"] \in Job
      BY DEF Job, JobStatus
    <3>2. slot \in JobSlots /\ waiting \in Seq(Pids \union {NoPid})
      BY ShellJobsAssumption DEF Init, JobSlots
    <3> QED
      BY <3>1, <3>2 DEF Init, TypeOK, PC
  <2>2. \A p \in Pids : EventFits(p)
    BY DEF Init, EventFits
  <2>3. OneWaited /\ ForegroundIsWaited
    BY DEF Init, OneWaited, ForegroundIsWaited, Foreground, FgCommand
  <2>4. TableOK
    BY DEF Init, TableOK, JobFits, Distinct, Waits, Listed, Foreground, FgCommand
  <2> QED
    BY <2>1, <2>2, <2>3, <2>4 DEF JobInv
<1>2. JobInv /\ [Next]_vars => JobInv'
  <2> SUFFICES ASSUME JobInv, [Next]_vars PROVE JobInv'
    OBVIOUS
  <2>1. TypeOK'
    BY StepTypes DEF JobInv
  <2>2. (\A p \in Pids : EventFits(p)') /\ (ForksWell' => ForksWell)
    BY StepEvents DEF JobInv
  <2>3. OneWaited' /\ ForegroundIsWaited'
    BY StepPlaces DEF JobInv
  <2>4. ForksWell' => TableOK'
    BY <2>2, TableStep
  <2> QED
    BY <2>1, <2>2, <2>3, <2>4 DEF JobInv
<1> QED
  BY <1>1, <1>2, PTL DEF Spec

\* The table lists the children of the shell: each once, no others, none forgotten.
THEOREM TableIsSound == Spec => []JobTableSound
<1>1. JobInv => JobTableSound
  <2> SUFFICES ASSUME JobInv PROVE JobTableSound
    OBVIOUS
  <2>1. JobIsChild
    <3> SUFFICES ASSUME ForksWell, NEW i \in InUse
                 PROVE  jobs[i].pid \in Children
                        \/ (HeldByFg(i) /\ pc = "job_done" /\ status = "exit")
      BY DEF JobIsChild
    <3>1. JobFits(i) /\ jobs[i].in_use
      BY DEF JobInv, TableOK, InUse
    <3> QED
      BY <3>1 DEF JobFits, Children, HeldByFg
  <2>2. JobsDistinct
    BY DEF JobInv, TableOK, JobsDistinct, Distinct, InUse
  <2>3. AllListed
    <3> SUFFICES ASSUME ForksWell, pc = "prompt", NEW p \in Children \ lost
                 PROVE  \E i \in InUse : jobs[i].pid = p
      BY DEF AllListed
    <3>1. Listed(p) /\ proc[p] # "free"
      BY DEF JobInv, TableOK, Children
    <3> QED
      BY <3>1 DEF Listed, InUse, Foreground
  <2> QED
    BY <2>1, <2>2, <2>3 DEF JobTableSound, JobInv
<1> QED
  BY <1>1, JobsInvariant, PTL

\* A status that is wrong is one whose change the kernel has yet to report.
THEOREM NoChangeIsLost == Spec => []WrongIsPending
<1>1. JobInv => WrongIsPending
  <2> SUFFICES ASSUME JobInv, NEW i \in InUse, ForksWell, ~ HeldByFg(i)
               PROVE  LET p == jobs[i].pid
                      IN  /\ jobs[i].status = "running" /\ proc[p] = "stopped"
                                => event[p] = "stop"
                          /\ jobs[i].status = "stopped" /\ proc[p] = "running"
                                => event[p] = "cont"
                          /\ proc[p] = "zombie" => event[p] = "exit"
    BY DEF WrongIsPending
  <2>1. jobs[i].pid \in Pids /\ Agrees(jobs[i].status, jobs[i].pid)
    BY DEF JobInv, TableOK, JobFits, InUse
  <2>2. EventFits(jobs[i].pid)
    BY <2>1 DEF JobInv
  <2> QED
    BY <2>1, <2>2 DEF Agrees, EventFits
<1> QED
  BY <1>1, JobsInvariant, PTL

\* The signal handlers know the process that the shell waits for, or none.
THEOREM HandlersAreRight == Spec => []ForegroundIsWaited
<1>1. JobInv => ForegroundIsWaited
  BY DEF JobInv
<1> QED
  BY <1>1, JobsInvariant, PTL
-----------------------------------------------------------------------------
(* The directories of the shell: their invariant                           *)

\* Types of all variables but shown.
DirTypes ==
    /\ exist \subseteq Paths /\ dead \subseteq Paths /\ cwd \in Paths
    /\ prev_dir \in Paths \union {NoDir} /\ old_dir \in Paths \union {NoDir}
    /\ todo \in Seq(DirArgs)

\* Directories are in directories, and what was removed on the way up is remembered.
WaysUp ==
    /\ \A d \in Paths : ParentOf[d] = d => d \in exist
    /\ \A d \in exist : ParentOf[d] \in exist
    /\ \A d \in Way(cwd) : d \in exist \/ d \in dead

\* hop is between getcwd() and chdir().
Looked == old_dir # NoDir => todo # <<>> /\ old_dir = cwd /\ ~ Skipped(todo[1])

\* What the last reveal showed is still so, until a hop to it is done.
ShownNow ==
    shown # NothingShown =>
        /\ shown.arg \in DirArgs
        /\ shown.hop = "no" => /\ shown.dir = Lookup(RevealTarget(shown.arg))
                               /\ todo = <<>> \/ todo = <<shown.arg>>
        /\ shown.hop # "no" => todo = <<>>
        /\ shown.hop = "ok" => \/ cwd = shown.dir
                               \/ shown.arg.kind = "-" /\ prev_dir = NoDir
                               \/ shown.arg.kind = "." /\ cwd \in dead
        /\ shown.hop = "failed" => shown.dir = NoDir

ShownRecord == shown = [arg |-> shown.arg, dir |-> shown.dir, hop |-> shown.hop]

DirsInv == DirTypes /\ WaysUp /\ Looked /\ PrevIsLeft /\ ShownRecord /\ ShownNow
-----------------------------------------------------------------------------
(* The tree                                                                *)

\* The way up from a directory and from its parent.
LEMMA WayFacts ==
    ASSUME NEW d \in Paths
    PROVE  /\ Way(d) \subseteq Paths /\ d \in Way(d) /\ ParentOf[d] \in Paths
           /\ Way(ParentOf[d]) \subseteq Way(d)
           /\ ParentOf[d] # d => d \notin Way(ParentOf[d])
<1>1. ParentOf[d] \in Paths /\ (ParentOf[d] # d => d \notin Way(ParentOf[d]))
  BY ShellDirsAssumption
<1>2. Way(d) \subseteq Paths /\ d \in Way(d)
  BY DEF Way
<1>3. ASSUME NEW x \in Way(ParentOf[d]) PROVE x \in Way(d)
  <2>1. x \in Paths /\ \A S \in SUBSET Paths :
          ParentOf[d] \in S /\ (\A y \in S : ParentOf[y] \in S) => x \in S
    BY <1>3, Zenon DEF Way
  <2>2. ASSUME NEW S \in SUBSET Paths, d \in S, \A y \in S : ParentOf[y] \in S PROVE x \in S
    BY <2>1, <2>2
  <2> QED
    BY <2>1, <2>2, Zenon DEF Way
<1> QED
  BY <1>1, <1>2, <1>3

\* All the way up from a directory that exists exists.
LEMMA WayExists ==
    ASSUME NEW E \in SUBSET Paths, \A y \in E : ParentOf[y] \in E, NEW d \in E
    PROVE  Way(d) \subseteq E
BY DEF Way

\* Arguments.
LEMMA ArgFacts ==
    ASSUME NEW a \in DirArgs
    PROVE  /\ a = [kind |-> a.kind, dir |-> a.dir]
           /\ a.kind \in {"~", ".", "..", "-", "path", "name"}
           /\ a.dir \in Paths \union {NoDir}
           /\ a.kind = "name" => a.dir \in Paths
<1>1. CASE \E k \in {"~", ".", "..", "-"} : a = [kind |-> k, dir |-> NoDir]
  BY <1>1
<1>2. CASE \E k \in {"path", "name"}, d \in Named : a = [kind |-> k, dir |-> d]
  BY <1>2, ShellDirsAssumption
<1> QED
  BY <1>1, <1>2 DEF DirArgs

\* Where a path leads exists, or is the parent of the working directory.
LEMMA LookupFacts ==
    ASSUME NEW a
    PROVE  /\ a.kind = ".." => Lookup(a) = ParentOf[cwd]
           /\ a.kind # ".." => Lookup(a) = NoDir \/ Lookup(a) \in exist
           /\ a.kind \notin {"..", "name"} =>
                Lookup(a) = IF a.dir \in exist THEN a.dir ELSE NoDir
BY DEF Lookup
-----------------------------------------------------------------------------
(* Its steps                                                               *)

\* chdir() along a path that leads somewhere.
LEMMA ChdirKeeps ==
    ASSUME DirTypes, WaysUp, NEW a, Lookup(a) # NoDir, Chdir(a), exist' = exist
    PROVE  cwd' = Lookup(a) /\ cwd' \in Paths /\ dead' \subseteq Paths /\ WaysUp'
<1>1. cwd' = Lookup(a) /\ dead' = IF a.kind = ".." THEN dead \ {cwd} ELSE {}
  BY DEF Chdir
<1>2. exist \subseteq Paths /\ dead \subseteq Paths /\ cwd \in Paths
  BY DEF DirTypes
<1>3. (\A d \in Paths : ParentOf[d] = d => d \in exist) /\ (\A d \in exist : ParentOf[d] \in exist)
      /\ \A d \in Way(cwd) : d \in exist \/ d \in dead
  BY DEF WaysUp
<1>4. CASE a.kind = ".."
  <2>1. cwd' = ParentOf[cwd] /\ dead' = dead \ {cwd}
    BY <1>1, <1>4, LookupFacts
  <2>2. /\ ParentOf[cwd] \in Paths /\ Way(ParentOf[cwd]) \subseteq Way(cwd)
        /\ ParentOf[cwd] # cwd => cwd \notin Way(ParentOf[cwd])
    BY <1>2, WayFacts
  <2>3. ASSUME NEW d \in Way(cwd') PROVE d \in exist \/ d \in dead'
    <3>1. d \in Way(ParentOf[cwd]) /\ (d \in exist \/ d \in dead)
      BY <1>3, <2>1, <2>2
    <3>2. CASE d = cwd
      BY <1>2, <1>3, <2>2, <3>1, <3>2
    <3>3. CASE d # cwd
      BY <2>1, <3>1, <3>3
    <3> QED
      BY <3>2, <3>3
  <2> QED
    BY <1>1, <1>2, <1>3, <2>1, <2>2, <2>3 DEF WaysUp
<1>5. CASE a.kind # ".."
  <2>1. cwd' \in exist /\ dead' = {}
    BY <1>1, <1>5, LookupFacts
  <2>2. Way(cwd') \subseteq exist
    BY <1>2, <1>3, <2>1, WayExists
  <2> QED
    BY <1>1, <1>2, <1>3, <2>1, <2>2 DEF WaysUp
<1> QED
  BY <1>4, <1>5

\* hop without arguments
LEMMA HopHomeKeeps == DirsInv /\ HopHome => DirsInv'
<1> SUFFICES ASSUME DirsInv, HopHome PROVE DirsInv'
  OBVIOUS
<1>1. /\ todo = <<>> /\ HomeDir \in exist /\ Chdir(Path(HomeDir)) /\ prev_dir' = HomeDir
      /\ left' = cwd /\ bare' = TRUE /\ shown' = NothingShown
      /\ exist' = exist /\ todo' = todo /\ old_dir' = old_dir
  BY DEF HopHome
<1>2. DirTypes /\ WaysUp /\ HomeDir \in Paths /\ NoDir \notin Paths /\ old_dir = NoDir
  BY <1>1, ShellDirsAssumption DEF DirsInv, Looked
<1>3. Lookup(Path(HomeDir)) = HomeDir
  <2>1. Path(HomeDir).kind = "path" /\ Path(HomeDir).dir = HomeDir
    BY DEF Path
  <2> QED
    BY <1>1, <2>1, LookupFacts
<1>4. cwd' \in Paths /\ dead' \subseteq Paths /\ WaysUp'
  BY <1>1, <1>2, <1>3, ChdirKeeps
<1>5. DirTypes'
  BY <1>1, <1>2, <1>4 DEF DirTypes
<1>6. PrevIsLeft'
  BY <1>1 DEF PrevIsLeft
<1>7. ShownRecord' /\ ShownNow'
  BY <1>1 DEF ShownRecord, ShownNow, NothingShown
<1>8. Looked'
  BY <1>1, <1>2 DEF Looked
<1> QED
  BY <1>4, <1>5, <1>6, <1>7, <1>8 DEF DirsInv

\* A step that leaves directories alone but what the shell has to do and has shown.
LEMMA DirsStep ==
    ASSUME DirsInv, UNCHANGED <<exist, cwd, dead, prev_dir, left, bare>>,
           todo' \in Seq(DirArgs), old_dir' \in Paths \union {NoDir}, Looked', ShownRecord', ShownNow'
    PROVE  DirsInv'
<1>1. DirTypes' /\ WaysUp' /\ PrevIsLeft'
  BY DEF DirsInv, DirTypes, WaysUp, PrevIsLeft
<1> QED
  BY <1>1 DEF DirsInv

\* Nothing that reveal and hop look at has changed.
LEMMA SameLookup ==
    ASSUME UNCHANGED <<exist, cwd, dead, prev_dir>>, NEW a
    PROVE  /\ Lookup(a)' = Lookup(a) /\ Lookup(RevealTarget(a))' = Lookup(RevealTarget(a))
           /\ Skipped(a)' = Skipped(a)
BY DEF Lookup, RevealTarget, Path, Skipped

\* A command with arguments is typed.
LEMMA ArgsAreSeq ==
    ASSUME NEW n \in Nat, NEW args \in [1 .. n -> DirArgs]
    PROVE  args \in Seq(DirArgs) /\ Len(args) = n
OBVIOUS

\* hop with arguments
LEMMA HopStartKeeps ==
    ASSUME DirsInv, NEW args \in Seq(DirArgs), HopStart(args)
    PROVE  DirsInv'
<1>1. /\ todo = <<>> /\ todo' = args
      /\ shown' = IF args = <<shown.arg>> /\ shown.hop = "no" THEN shown ELSE NothingShown
      /\ UNCHANGED <<exist, cwd, dead, prev_dir, old_dir, left, bare>>
  BY DEF HopStart
<1>2. old_dir = NoDir /\ old_dir \in Paths \union {NoDir}
  BY <1>1 DEF DirsInv, Looked
<1>3. Looked'
  BY <1>1, <1>2 DEF Looked
<1>4. ShownRecord'
  BY <1>1 DEF DirsInv, ShownRecord, NothingShown
<1>5. ShownNow'
  <2>1. CASE shown' = NothingShown
    BY <2>1 DEF ShownNow
  <2>2. CASE shown' # NothingShown
    <3>1. shown' = shown /\ shown.hop = "no" /\ args = <<shown.arg>>
      BY <1>1, <2>2
    <3>2. shown.arg \in DirArgs /\ shown.dir = Lookup(RevealTarget(shown.arg))
      BY <2>2, <3>1 DEF DirsInv, ShownNow
    <3>3. Lookup(RevealTarget(shown.arg))' = Lookup(RevealTarget(shown.arg))
      BY <1>1, <3>1, SameLookup
    <3> QED
      BY <1>1, <3>1, <3>2, <3>3 DEF ShownNow
  <2> QED
    BY <2>1, <2>2
<1> QED
  BY <1>1, <1>2, <1>3, <1>4, <1>5, DirsStep

\* An argument is skipped.
LEMMA HopSkipKeeps == DirsInv /\ HopSkip => DirsInv'
<1> SUFFICES ASSUME DirsInv, HopSkip PROVE DirsInv'
  OBVIOUS
<1>1. /\ todo # <<>> /\ old_dir = NoDir /\ Skipped(todo[1]) /\ todo' = Tail(todo)
      /\ shown' = Outcome("ok")
      /\ UNCHANGED <<exist, cwd, dead, prev_dir, old_dir, left, bare>>
  BY DEF HopSkip
<1>2. todo \in Seq(DirArgs) /\ cwd \in Paths /\ WaysUp /\ ShownRecord
  BY DEF DirsInv, DirTypes
<1>3. todo' \in Seq(DirArgs)
  BY <1>1, <1>2
<1>4. Looked'
  BY <1>1 DEF Looked
<1>5. CASE shown = NothingShown
  <2>1. shown' = NothingShown
    BY <1>1, <1>5 DEF Outcome
  <2> QED
    BY <1>1, <1>3, <1>4, <2>1, DirsStep DEF ShownRecord, ShownNow, NothingShown
<1>6. CASE shown # NothingShown
  <2>1. /\ shown.hop = "no" /\ todo = <<shown.arg>> /\ shown.arg \in DirArgs
        /\ shown.dir = Lookup(RevealTarget(shown.arg))
    BY <1>1, <1>6 DEF DirsInv, ShownNow
  <2>2. shown' = [arg |-> shown.arg, dir |-> shown.dir, hop |-> "ok"]
    BY <1>1, <1>2, <1>6 DEF Outcome, ShownRecord
  <2>3. todo[1] = shown.arg /\ todo' = <<>>
    BY <1>1, <2>1
  <2>4. \/ cwd = shown.dir
        \/ shown.arg.kind = "-" /\ prev_dir = NoDir
        \/ shown.arg.kind = "." /\ cwd \in dead
    <3>1. shown.arg.kind = "." \/ (shown.arg.kind = "-" /\ prev_dir = NoDir)
      BY <1>1, <2>3 DEF Skipped
    <3>2. ASSUME shown.arg.kind = ".", cwd \notin dead PROVE cwd = shown.dir
      <4>1. cwd \in exist
        BY <1>2, <3>2, WayFacts DEF WaysUp
      <4>2. RevealTarget(shown.arg) = Path(cwd)
        BY <3>2 DEF RevealTarget
      <4>3. Path(cwd).kind = "path" /\ Path(cwd).dir = cwd
        BY DEF Path
      <4>4. Lookup(Path(cwd)) = cwd
        BY <4>1, <4>3, LookupFacts
      <4> QED
        BY <2>1, <4>2, <4>4
    <3> QED
      BY <3>1, <3>2
  <2>5. shown'.arg = shown.arg /\ shown'.dir = shown.dir /\ shown'.hop = "ok"
    BY <2>2
  <2>6. ShownRecord'
    BY <2>2, <2>5 DEF ShownRecord
  <2>7. ShownNow'
    BY <1>1, <2>1, <2>3, <2>4, <2>5 DEF ShownNow
  <2>8. old_dir' \in Paths \union {NoDir}
    BY <1>1
  <2> QED
    BY <1>1, <1>3, <1>4, <2>6, <2>7, <2>8, DirsStep
<1> QED
  BY <1>5, <1>6

\* getcwd()
LEMMA HopLookKeeps == DirsInv /\ HopLook => DirsInv'
<1> SUFFICES ASSUME DirsInv, HopLook PROVE DirsInv'
  OBVIOUS
<1>1. /\ todo # <<>> /\ old_dir = NoDir /\ ~ Skipped(todo[1])
      /\ UNCHANGED <<exist, cwd, dead, prev_dir, left, bare>>
  BY DEF HopLook
<1>2. todo \in Seq(DirArgs) /\ cwd \in Paths /\ ShownRecord /\ ShownNow
  BY DEF DirsInv, DirTypes
<1>3. CASE cwd \in dead
  <2>1. todo' = <<>> /\ shown' = NothingShown /\ old_dir' = NoDir
    BY <1>1, <1>3 DEF HopLook
  <2>2. todo' \in Seq(DirArgs) /\ old_dir' \in Paths \union {NoDir} /\ Looked'
    BY <2>1 DEF Looked
  <2>3. ShownRecord' /\ ShownNow'
    BY <2>1 DEF ShownRecord, ShownNow, NothingShown
  <2> QED
    BY <1>1, <2>2, <2>3, DirsStep
<1>4. CASE cwd \notin dead
  <2>1. old_dir' = cwd /\ todo' = todo /\ shown' = shown
    BY <1>4 DEF HopLook
  <2>2. todo' \in Seq(DirArgs) /\ old_dir' \in Paths \union {NoDir}
    BY <1>2, <2>1
  <2>3. Skipped(todo[1])' = Skipped(todo[1])
    BY <1>1, <2>1 DEF Skipped
  <2>4. Looked'
    BY <1>1, <2>1, <2>3 DEF Looked
  <2>5. Lookup(RevealTarget(shown.arg))' = Lookup(RevealTarget(shown.arg))
    BY <1>1, <2>1, SameLookup
  <2>6. ShownRecord' /\ ShownNow'
    BY <1>1, <1>2, <2>1, <2>5 DEF ShownRecord, ShownNow
  <2> QED
    BY <1>1, <2>2, <2>4, <2>6, DirsStep
<1> QED
  BY <1>3, <1>4

\* chdir(): hop leads where reveal of the same argument has just been.
LEMMA HopChangeKeeps == DirsInv /\ HopChange => DirsInv'
<1> SUFFICES ASSUME DirsInv, HopChange PROVE DirsInv'
  OBVIOUS
<1> DEFINE target == HopTarget(todo[1])
<1> DEFINE ok == Lookup(target) # NoDir
<1>1. /\ old_dir # NoDir /\ prev_dir' = PrevAfter(ok) /\ old_dir' = NoDir
      /\ ok => Chdir(target) /\ todo' = Tail(todo) /\ left' = cwd /\ bare' = FALSE
      /\ ~ ok => todo' = <<>> /\ UNCHANGED <<cwd, dead, left, bare>>
      /\ shown' = Outcome(IF ok THEN "ok" ELSE "failed")
      /\ exist' = exist
  BY DEF HopChange
<1>2. /\ DirTypes /\ WaysUp /\ ShownRecord /\ ShownNow /\ PrevIsLeft /\ todo \in Seq(DirArgs)
      /\ todo # <<>> /\ old_dir = cwd /\ ~ Skipped(todo[1])
      /\ cwd \in Paths /\ prev_dir \in Paths \union {NoDir}
  BY <1>1 DEF DirsInv, DirTypes, Looked
<1>3. /\ shown # NothingShown =>
           /\ shown.hop = "no" /\ todo = <<shown.arg>> /\ todo[1] = shown.arg
           /\ shown.arg \in DirArgs /\ Lookup(target) = shown.dir
  <2> SUFFICES ASSUME shown # NothingShown
               PROVE  /\ shown.hop = "no" /\ todo = <<shown.arg>> /\ todo[1] = shown.arg
                      /\ shown.arg \in DirArgs /\ Lookup(target) = shown.dir
    OBVIOUS
  <2>1. /\ shown.hop = "no" /\ todo = <<shown.arg>> /\ shown.arg \in DirArgs
        /\ shown.dir = Lookup(RevealTarget(shown.arg))
    BY <1>2 DEF ShownNow
  <2>2. todo[1] = shown.arg
    BY <2>1
  <2>3. shown.arg.kind # "."
    BY <1>2, <2>2 DEF Skipped
  <2>4. target = RevealTarget(shown.arg)
    BY <2>2, <2>3 DEF HopTarget, RevealTarget
  <2> QED
    BY <2>1, <2>2, <2>4
<1> DEFINE o == IF ok THEN "ok" ELSE "failed"
<1>4. /\ shown = NothingShown => shown' = NothingShown
      /\ shown # NothingShown => shown' = [arg |-> shown.arg, dir |-> shown.dir, hop |-> o]
  BY <1>1, <1>2 DEF Outcome, ShownRecord
<1> HIDE DEF target
<1>5. todo' \in Seq(DirArgs) /\ (shown # NothingShown => todo' = <<>>)
  <2>1. CASE ok
    <3>1. todo' = Tail(todo) /\ todo \in Seq(DirArgs) /\ todo # <<>>
      BY <1>1, <1>2, <2>1
    <3>2. ASSUME shown # NothingShown PROVE Tail(todo) = <<>>
      <4>1. todo = <<shown.arg>>
        BY <1>3, <3>2
      <4> QED
        BY <4>1
    <3> QED
      BY <3>1, <3>2
  <2>2. CASE ~ ok
    BY <1>1, <2>2
  <2> QED
    BY <2>1, <2>2
<1>6. Looked'
  BY <1>1 DEF Looked
<1>7. CASE ok
  <2>1. cwd' = Lookup(target) /\ cwd' \in Paths /\ dead' \subseteq Paths /\ WaysUp'
    BY <1>1, <1>2, <1>7, ChdirKeeps
  <2>2. prev_dir' = cwd /\ left' = cwd /\ bare' = FALSE
    BY <1>1, <1>2, <1>7 DEF PrevAfter
  <2>3. DirTypes' /\ PrevIsLeft'
    BY <1>1, <1>2, <1>5, <2>1, <2>2 DEF DirTypes, PrevIsLeft
  <2>4. ShownRecord' /\ ShownNow'
    <3>1. CASE shown = NothingShown
      BY <1>4, <3>1 DEF ShownRecord, ShownNow, NothingShown
    <3>2. CASE shown # NothingShown
      <4>1. shown' = [arg |-> shown.arg, dir |-> shown.dir, hop |-> "ok"]
        BY <1>4, <1>7, <3>2
      <4>2. shown'.arg = shown.arg /\ shown'.dir = shown.dir /\ shown'.hop = "ok"
        BY <4>1
      <4>3. ShownRecord'
        BY <4>1, <4>2 DEF ShownRecord
      <4>4. cwd' = shown.dir /\ shown.arg \in DirArgs /\ todo' = <<>>
        BY <1>3, <1>5, <2>1, <3>2
      <4> QED
        BY <4>2, <4>3, <4>4 DEF ShownNow
    <3> QED
      BY <3>1, <3>2
  <2> QED
    BY <1>6, <2>1, <2>3, <2>4 DEF DirsInv
<1>8. CASE ~ ok
  <2>1. UNCHANGED <<exist, cwd, dead, prev_dir, left, bare>>
    BY <1>1, <1>8 DEF PrevAfter
  <2>2. ShownRecord' /\ ShownNow'
    <3>1. CASE shown = NothingShown
      BY <1>4, <3>1 DEF ShownRecord, ShownNow, NothingShown
    <3>2. CASE shown # NothingShown
      <4>1. shown' = [arg |-> shown.arg, dir |-> shown.dir, hop |-> "failed"]
        BY <1>4, <1>8, <3>2
      <4>2. shown'.arg = shown.arg /\ shown'.dir = shown.dir /\ shown'.hop = "failed"
        BY <4>1
      <4>3. ShownRecord'
        BY <4>1, <4>2 DEF ShownRecord
      <4>4. shown.dir = NoDir /\ shown.arg \in DirArgs /\ todo' = <<>>
        BY <1>3, <1>5, <1>8, <3>2
      <4> QED
        BY <4>2, <4>3, <4>4 DEF ShownNow
    <3> QED
      BY <3>1, <3>2
  <2>3. old_dir' \in Paths \union {NoDir}
    BY <1>1
  <2> QED
    BY <1>5, <1>6, <2>1, <2>2, <2>3, DirsStep
<1> QED
  BY <1>7, <1>8

\* reveal
LEMMA RevealKeeps ==
    ASSUME DirsInv, NEW flags, NEW args \in Seq(DirArgs), Reveal(flags, args)
    PROVE  DirsInv'
<1> DEFINE a == IF args = <<>> THEN [kind |-> ".", dir |-> NoDir] ELSE args[1]
<1>1. /\ todo = <<>> /\ UNCHANGED <<exist, cwd, dead, prev_dir, todo, old_dir, left, bare>>
      /\ \/ shown' = NothingShown
         \/ shown' = [arg |-> a, dir |-> Lookup(RevealTarget(a)), hop |-> "no"]
  BY DEF Reveal
<1>2. a \in DirArgs
  <2>1. [kind |-> ".", dir |-> NoDir] \in DirArgs
    BY DEF DirArgs
  <2>2. args # <<>> => args[1] \in DirArgs
    OBVIOUS
  <2> QED
    BY <2>1, <2>2
<1> HIDE DEF a
<1>3. old_dir = NoDir /\ todo \in Seq(DirArgs)
  BY <1>1 DEF DirsInv, DirTypes, Looked
<1>4. Looked'
  BY <1>1, <1>3 DEF Looked
<1>5. CASE shown' = NothingShown
  BY <1>1, <1>3, <1>4, <1>5, DirsStep DEF ShownRecord, ShownNow, NothingShown
<1>6. CASE shown' = [arg |-> a, dir |-> Lookup(RevealTarget(a)), hop |-> "no"]
  <2>1. shown'.arg = a /\ shown'.dir = Lookup(RevealTarget(a)) /\ shown'.hop = "no"
    BY <1>6
  <2>2. ShownRecord'
    BY <1>6, <2>1 DEF ShownRecord
  <2>3. PICK b : b = a
    OBVIOUS
  <2>4. Lookup(RevealTarget(b))' = Lookup(RevealTarget(b))
    BY <1>1, SameLookup
  <2>5. (Lookup(RevealTarget(shown.arg)))' = Lookup(RevealTarget(b))
    <3>1. shown'.arg = b
      BY <2>1, <2>3
    <3> QED
      BY <2>4, <3>1 DEF Lookup, RevealTarget, Path
  <2>6. ShownNow'
    BY <1>1, <1>2, <2>1, <2>3, <2>5 DEF ShownNow
  <2> QED
    BY <1>1, <1>3, <1>4, <2>2, <2>6, DirsStep
<1> QED
  BY <1>1, <1>5, <1>6

\* Another program makes or removes a directory.
LEMMA OthersKeep ==
    ASSUME DirsInv, NEW d \in Paths, Mkdir(d) \/ Rmdir(d)
    PROVE  DirsInv'
<1>1. UNCHANGED <<cwd, prev_dir, todo, old_dir, left, bare>> /\ shown' = NothingShown
  BY DEF Mkdir, Rmdir
<1>2. DirTypes /\ WaysUp /\ cwd \in Paths /\ Way(cwd) \subseteq Paths
  BY WayFacts DEF DirsInv, DirTypes
<1>3. /\ \A c \in Paths : ParentOf[c] = c => c \in exist
      /\ \A c \in exist : ParentOf[c] \in exist
      /\ \A c \in Way(cwd) : c \in exist \/ c \in dead
  BY <1>2 DEF WaysUp
<1>4. exist' \subseteq Paths /\ dead' \subseteq Paths /\ WaysUp'
  <2>1. CASE Mkdir(d)
    <3>1. exist' = exist \union {d} /\ dead' = dead /\ ParentOf[d] \in exist
      BY <2>1 DEF Mkdir
    <3> QED
      BY <1>1, <1>2, <1>3, <3>1 DEF DirTypes, WaysUp
  <2>2. CASE Rmdir(d)
    <3>1. /\ exist' = exist \ {d} /\ dead' = dead \union ({d} \intersect Way(cwd))
          /\ ParentOf[d] # d /\ \A c \in exist : ParentOf[c] = d => c = d
      BY <2>2 DEF Rmdir
    <3>2. \A c \in Paths : ParentOf[c] = c => c \in exist'
      BY <1>3, <3>1
    <3>3. \A c \in exist' : ParentOf[c] \in exist'
      BY <1>3, <3>1
    <3>4. \A c \in Way(cwd) : c \in exist' \/ c \in dead'
      BY <1>3, <3>1
    <3> QED
      BY <1>1, <1>2, <3>1, <3>2, <3>3, <3>4 DEF DirTypes, WaysUp
  <2> QED
    BY <2>1, <2>2
<1>5. DirTypes'
  BY <1>1, <1>2, <1>4 DEF DirTypes
<1>6. Looked' /\ PrevIsLeft'
  BY <1>1 DEF DirsInv, Looked, PrevIsLeft, Skipped
<1>7. ShownRecord' /\ ShownNow'
  BY <1>1 DEF ShownRecord, ShownNow, NothingShown
<1> QED
  BY <1>4, <1>5, <1>6, <1>7 DEF DirsInv
-----------------------------------------------------------------------------
(* Its theorems                                                            *)

\* DirsInv is an invariant of hop and reveal, whatever other programs make and remove.
THEOREM DirsInvariant == DirsSpec => []DirsInv
<1>1. DirsInit => DirsInv
  <2> SUFFICES ASSUME DirsInit PROVE DirsInv
    OBVIOUS
  <2>1. /\ exist = Paths /\ cwd = HomeDir /\ dead = {} /\ prev_dir = NoDir /\ todo = <<>>
        /\ old_dir = NoDir /\ left = NoDir /\ bare = FALSE /\ shown = NothingShown
    BY DEF DirsInit
  <2>2. HomeDir \in Paths /\ Way(HomeDir) \subseteq Paths /\ \A d \in Paths : ParentOf[d] \in Paths
    BY ShellDirsAssumption, WayFacts
  <2>3. DirTypes /\ WaysUp
    BY <2>1, <2>2 DEF DirTypes, WaysUp
  <2>4. Looked /\ PrevIsLeft
    BY <2>1 DEF Looked, PrevIsLeft
  <2>5. ShownRecord /\ ShownNow
    BY <2>1 DEF ShownRecord, ShownNow, NothingShown
  <2> QED
    BY <2>3, <2>4, <2>5 DEF DirsInv
<1>2. DirsInv /\ [DirsNext]_dirVars => DirsInv'
  <2> SUFFICES ASSUME DirsInv, [DirsNext]_dirVars PROVE DirsInv'
    OBVIOUS
  <2>1. CASE HopHome \/ HopSkip \/ HopLook \/ HopChange
    BY <2>1, HopHomeKeeps, HopSkipKeeps, HopLookKeeps, HopChangeKeeps
  <2>2. ASSUME NEW n \in 1 .. MaxArgs, NEW args \in [1 .. n -> DirArgs], HopStart(args)
        PROVE  DirsInv'
    <3>1. n \in Nat
      BY ShellDirsAssumption
    <3> QED
      BY <2>2, <3>1, ArgsAreSeq, HopStartKeeps
  <2>3. ASSUME NEW flags \in SUBSET Flags, NEW n \in 0 .. MaxArgs,
               NEW args \in [1 .. n -> DirArgs], Reveal(flags, args)
        PROVE  DirsInv'
    <3>1. n \in Nat
      BY ShellDirsAssumption
    <3> QED
      BY <2>3, <3>1, ArgsAreSeq, RevealKeeps
  <2>4. CASE \E d \in Paths : Mkdir(d) \/ Rmdir(d)
    BY <2>4, OthersKeep
  <2>5. CASE UNCHANGED dirVars
    BY <2>5 DEF dirVars, DirsInv, DirTypes, WaysUp, Looked, PrevIsLeft, ShownRecord, ShownNow,
                Lookup, RevealTarget, Path, Skipped
  <2> QED
    BY <2>1, <2>2, <2>3, <2>4, <2>5 DEF DirsNext
<1> QED
  BY <1>1, <1>2, PTL DEF DirsSpec

\* For any tree of directories: hop - leads back to where the last change of directory
\* began unless it was a hop without arguments, and hop leads where reveal of the same
\* argument was.
THEOREM DirsAreSound == DirsSpec => []DirsSound
<1>1. DirsInv => DirsSound
  BY DEF DirsInv, DirsSound, RevealShowsHop, ShownNow
<1> QED
  BY <1>1, DirsInvariant, PTL
-----------------------------------------------------------------------------
(* The processes of xv6                                                    *)


\* How far a process can be in the kernel.
Places ==
    {"none", "user", "fork", "forked", "exit", "exiting", "sched", "scan", "pause",
     "tosleep", "sleep", "asleep"}

ProcTypes ==
    /\ state \in [Tasks -> {"UNUSED", "USED", "RUNNABLE", "SLEEPING", "ZOMBIE"}]
    /\ parent \in [Tasks -> Tasks \union {NoTask}]
    /\ killed \in [Tasks -> BOOLEAN]
    /\ chan \in [Tasks -> Tasks \union {NoTask, "ticks"}]
    /\ place \in [Tasks -> Places]
    /\ lk \in [Tasks -> {"none", "wait", "ticks"}]
    /\ holder \in [{"wait", "ticks"} -> Tasks \union {NoTask}]
    /\ plocks \subseteq Tasks
    /\ child \in [Tasks -> Tasks \union {NoTask}]
    /\ elapsed \in [Tasks -> BOOLEAN]
    /\ asked \subseteq Tasks

\* p->state fits to where the process is; p->lock is held in sleep() and in sched() of a
\* zombie.
StateFits(p) ==
    /\ state[p] \in {"UNUSED", "USED"} => place[p] = "none"
    /\ state[p] = "ZOMBIE" => place[p] \in {"sched", "none"}
    /\ state[p] = "SLEEPING" => place[p] = "asleep"
    /\ state[p] = "RUNNABLE" => place[p] \notin {"none", "sched"}
    /\ p \in plocks <=> place[p] \in {"sleep", "sched"}

\* The locks of kwait(), kexit() and sys_pause(), and what sleep() waits for.
LockFits(p) ==
    /\ holder["wait"] = p <=> \/ place[p] \in {"exit", "exiting", "scan"}
                              \/ place[p] = "tosleep" /\ lk[p] = "wait"
    /\ holder["ticks"] = p <=> \/ place[p] = "pause"
                               \/ place[p] = "tosleep" /\ lk[p] = "ticks"
    /\ place[p] \in {"tosleep", "sleep", "asleep"} => lk[p] \in {"wait", "ticks"}
    /\ place[p] = "scan" => lk[p] = "wait"
    /\ place[p] = "pause" => lk[p] = "ticks"
    /\ state[p] = "SLEEPING" => chan[p] = IF lk[p] = "wait" THEN p ELSE "ticks"

\* The child that kfork() makes is its own.
ForkFits(p) ==
    place[p] \in {"fork", "forked"} =>
        /\ child[p] \in Tasks /\ state[child[p]] = "USED"
        /\ parent[child[p]] = IF place[p] = "forked" THEN p ELSE NoTask
        /\ \A q \in Tasks \ {p} : place[q] \in {"fork", "forked"} => child[q] # child[p]

\* A process in use has a parent, and the parent of a process has not exited.
HasParent(q) ==
    /\ state[q] = "UNUSED" => parent[q] = NoTask
    /\ state[q] \in {"RUNNABLE", "SLEEPING", "ZOMBIE"} /\ q # InitTask => parent[q] # NoTask
    /\ parent[q] # NoTask => /\ state[parent[q]] \in {"RUNNABLE", "SLEEPING"}
                             /\ place[parent[q]] # "exiting"

\* The first process does not exit.
InitStays ==
    /\ state[InitTask] \in {"RUNNABLE", "SLEEPING"}
    /\ place[InitTask] \notin {"exit", "exiting"}

\* A process is about to sleep, or sleeps, for one of its children to exit.
WaitsForChild(p) ==
    \/ place[p] \in {"tosleep", "sleep"} /\ lk[p] = "wait"
    \/ state[p] = "SLEEPING" /\ lk[p] = "wait"

\* Then it has a child, and none that has exited or told its parent so.
WaitFits(p) ==
    WaitsForChild(p) =>
        /\ \E q \in Tasks : parent[q] = p
        /\ \A q \in Tasks : parent[q] = p => state[q] # "ZOMBIE" /\ place[q] # "exiting"

KillFits(q) == killed[q] => q \in asked

ProcInv ==
    /\ ProcTypes /\ InitStays
    /\ \A p \in Tasks : StateFits(p)
    /\ \A p \in Tasks : LockFits(p)
    /\ \A p \in Tasks : ForkFits(p)
    /\ \A p \in Tasks : HasParent(p)
    /\ \A p \in Tasks : WaitFits(p)
    /\ \A p \in Tasks : KillFits(p)
-----------------------------------------------------------------------------
\* The pointers, element by element.
Links ==
    \A x \in Tasks : /\ parent[x] = NoTask \/ parent[x] \in Tasks
                     /\ child[x] = NoTask \/ child[x] \in Tasks

\* They follow from the types.
LEMMA LinksNow == ProcTypes => Links
  BY DEF ProcTypes, Links
-----------------------------------------------------------------------------
(* The steps: one lemma for each.  What the step changes is stated first,  *)
(* then the parts of the invariant follow for any process.                 *)

\* kfork() takes a free entry: no other fork has it.
LEMMA ForkAllocStep ==
    ASSUME ProcInv, NEW p \in Tasks, NEW r \in Tasks, ForkAlloc(p, r)
    PROVE  ProcInv'
  <1>1. /\ ProcTypes /\ Links /\ InitStays
        /\ \A x \in Tasks : /\ StateFits(x) /\ LockFits(x) /\ ForkFits(x)
                             /\ HasParent(x) /\ WaitFits(x) /\ KillFits(x)
    BY LinksNow DEF ProcInv
  <1>2. /\ state[p] = "RUNNABLE" /\ place[p] = "user" /\ p \notin plocks /\ state[r] = "UNUSED"
        /\ r # p /\ r # InitTask /\ parent[r] = NoTask /\ place[r] = "none"
    BY <1>1, TasksAssumption DEF StateFits, HasParent, InitStays, Doing, Enters, Free,
       ForkAlloc, GoesTo, Holds
  <1>3. /\ parent' = parent /\ killed' = killed /\ chan' = chan /\ lk' = lk /\ holder' = holder
        /\ plocks' = plocks /\ elapsed' = elapsed /\ asked' = asked
    BY DEF ForkAlloc, GoesTo, Holds
  <1>4. state'[r] = "USED" /\ \A x \in Tasks \ {r} : state'[x] = state[x]
    BY <1>1, <1>2 DEF ProcTypes, ForkAlloc
  <1>5. child'[p] = r /\ \A x \in Tasks \ {p} : child'[x] = child[x]
    BY <1>1, <1>2 DEF ProcTypes, ForkAlloc
  <1>6. place'[p] = "fork" /\ \A x \in Tasks \ {p} : place'[x] = place[x]
    BY <1>1, <1>2 DEF ProcTypes, ForkAlloc, GoesTo
  <1>7. ProcTypes'
    <2>1. state' \in [Tasks -> {"UNUSED", "USED", "RUNNABLE", "SLEEPING", "ZOMBIE"}]
      BY <1>1, <1>2, TasksAssumption DEF ProcTypes, ForkAlloc, GoesTo, Holds
    <2>2. child' \in [Tasks -> Tasks \union {NoTask}]
      BY <1>1, <1>2, TasksAssumption DEF ProcTypes, ForkAlloc, GoesTo, Holds
    <2>3. place' \in [Tasks -> Places]
      BY <1>1, <1>2, TasksAssumption DEF ProcTypes, Places, ForkAlloc, GoesTo, Holds
    <2> QED BY <1>1, <1>3, <2>1, <2>2, <2>3 DEF ProcTypes
  <1>8. InitStays'
    BY <1>1, <1>2, <1>3, <1>4, <1>6, TasksAssumption DEF InitStays
  <1>9. ASSUME NEW q \in Tasks PROVE StateFits(q)'
    BY <1>1, <1>2, <1>3, <1>4, <1>6, TasksAssumption, <1>9 DEF StateFits
  <1>10. ASSUME NEW q \in Tasks PROVE LockFits(q)'
    BY <1>1, <1>2, <1>3, <1>4, <1>6, TasksAssumption, <1>10 DEF LockFits
  <1>11. ASSUME NEW q \in Tasks PROVE ForkFits(q)'
    BY <1>1, <1>2, <1>3, <1>4, <1>5, <1>6, TasksAssumption, <1>11 DEF ForkFits
  <1>12. ASSUME NEW q \in Tasks PROVE HasParent(q)'
    BY <1>1, <1>2, <1>3, <1>4, <1>6, TasksAssumption, <1>12 DEF Links, HasParent, InitStays
  <1>13. ASSUME NEW q \in Tasks PROVE WaitFits(q)'
    BY <1>1, <1>2, <1>3, <1>4, <1>6, TasksAssumption, <1>13 DEF WaitFits, WaitsForChild
  <1>14. ASSUME NEW q \in Tasks PROVE KillFits(q)'
    BY <1>1, <1>3, TasksAssumption, <1>14 DEF KillFits
  <1> QED BY <1>7, <1>8, <1>9, <1>10, <1>11, <1>12, <1>13, <1>14 DEF ProcInv

\* The child gets a parent that is running, and that does not wait.
LEMMA ForkParentStep ==
    ASSUME ProcInv, NEW p \in Tasks, ForkParent(p)
    PROVE  ProcInv'
  <1>1. /\ ProcTypes /\ Links /\ InitStays
        /\ \A x \in Tasks : /\ StateFits(x) /\ LockFits(x) /\ ForkFits(x)
                             /\ HasParent(x) /\ WaitFits(x) /\ KillFits(x)
    BY LinksNow DEF ProcInv
  <1>2. /\ state[p] = "RUNNABLE" /\ place[p] = "fork" /\ p \notin plocks
        /\ holder["wait"] = NoTask /\ child[p] \in Tasks /\ child[p] # p
        /\ state[child[p]] = "USED" /\ place[child[p]] = "none" /\ parent[child[p]] = NoTask
    BY <1>1, TasksAssumption DEF StateFits, ForkFits, HasParent, InitStays, Doing, Enters,
       Free, ForkParent, GoesTo, Holds
  <1>3. /\ state' = state /\ killed' = killed /\ chan' = chan /\ lk' = lk /\ holder' = holder
        /\ plocks' = plocks /\ child' = child /\ elapsed' = elapsed /\ asked' = asked
    BY DEF ForkParent, GoesTo, Holds
  <1>4. parent'[child[p]] = p /\ \A x \in Tasks \ {child[p]} : parent'[x] = parent[x]
    BY <1>1, <1>2 DEF ProcTypes, ForkParent
  <1>5. place'[p] = "forked" /\ \A x \in Tasks \ {p} : place'[x] = place[x]
    BY <1>1, <1>2 DEF ProcTypes, ForkParent, GoesTo
  <1>6. ProcTypes'
    <2>1. parent' \in [Tasks -> Tasks \union {NoTask}]
      BY <1>1, <1>2, TasksAssumption DEF ProcTypes, ForkParent, GoesTo, Holds
    <2>2. place' \in [Tasks -> Places]
      BY <1>1, <1>2, TasksAssumption DEF ProcTypes, Places, ForkParent, GoesTo, Holds
    <2> QED BY <1>1, <1>3, <2>1, <2>2 DEF ProcTypes
  <1>7. InitStays'
    BY <1>1, <1>3, <1>5, TasksAssumption DEF InitStays
  <1>8. ASSUME NEW q \in Tasks PROVE StateFits(q)'
    BY <1>1, <1>2, <1>3, <1>5, TasksAssumption, <1>8 DEF StateFits
  <1>9. ASSUME NEW q \in Tasks PROVE LockFits(q)'
    BY <1>1, <1>2, <1>3, <1>5, TasksAssumption, <1>9 DEF LockFits
  <1>10. ASSUME NEW q \in Tasks PROVE ForkFits(q)'
    BY <1>1, <1>2, <1>3, <1>4, <1>5, TasksAssumption, <1>10 DEF ForkFits
  <1>11. ASSUME NEW q \in Tasks PROVE HasParent(q)'
    BY <1>1, <1>2, <1>3, <1>4, <1>5, TasksAssumption, <1>11 DEF Links, HasParent, InitStays
  <1>12. ASSUME NEW q \in Tasks PROVE WaitFits(q)'
    BY <1>1, <1>2, <1>3, <1>4, <1>5, TasksAssumption, <1>12 DEF WaitFits, WaitsForChild
  <1>13. ASSUME NEW q \in Tasks PROVE KillFits(q)'
    BY <1>1, <1>3, TasksAssumption, <1>13 DEF KillFits
  <1> QED BY <1>6, <1>7, <1>8, <1>9, <1>10, <1>11, <1>12, <1>13 DEF ProcInv

\* The child runs, and has a parent.
LEMMA ForkRunStep ==
    ASSUME ProcInv, NEW p \in Tasks, ForkRun(p)
    PROVE  ProcInv'
  <1>1. /\ ProcTypes /\ Links /\ InitStays
        /\ \A x \in Tasks : /\ StateFits(x) /\ LockFits(x) /\ ForkFits(x)
                             /\ HasParent(x) /\ WaitFits(x) /\ KillFits(x)
    BY LinksNow DEF ProcInv
  <1>2. /\ state[p] = "RUNNABLE" /\ place[p] = "forked" /\ p \notin plocks /\ child[p] \in Tasks
        /\ child[p] # p /\ child[p] # InitTask /\ state[child[p]] = "USED"
        /\ place[child[p]] = "none" /\ parent[child[p]] = p /\ child[p] \notin plocks
    BY <1>1, TasksAssumption DEF StateFits, ForkFits, HasParent, InitStays, Doing, Enters,
       Free, ForkRun, GoesTo, Holds
  <1>3. /\ parent' = parent /\ killed' = killed /\ chan' = chan /\ lk' = lk /\ holder' = holder
        /\ plocks' = plocks /\ elapsed' = elapsed /\ asked' = asked
    BY DEF ForkRun, GoesTo, Holds
  <1>4. state'[child[p]] = "RUNNABLE" /\ \A x \in Tasks \ {child[p]} : state'[x] = state[x]
    BY <1>1, <1>2 DEF ProcTypes, ForkRun
  <1>5. /\ place'[child[p]] = "user" /\ place'[p] = "user"
        /\ \A x \in Tasks \ {child[p], p} : place'[x] = place[x]
    BY <1>1, <1>2 DEF ProcTypes, ForkRun
  <1>6. child'[p] = NoTask /\ \A x \in Tasks \ {p} : child'[x] = child[x]
    BY <1>1, <1>2 DEF ProcTypes, ForkRun
  <1>7. ProcTypes'
    <2>1. state' \in [Tasks -> {"UNUSED", "USED", "RUNNABLE", "SLEEPING", "ZOMBIE"}]
      BY <1>1, <1>2, TasksAssumption DEF ProcTypes, ForkRun, GoesTo, Holds
    <2>2. place' \in [Tasks -> Places]
      BY <1>1, <1>2, TasksAssumption DEF ProcTypes, Places, ForkRun, GoesTo, Holds
    <2>3. child' \in [Tasks -> Tasks \union {NoTask}]
      BY <1>1, <1>2, TasksAssumption DEF ProcTypes, ForkRun, GoesTo, Holds
    <2> QED BY <1>1, <1>3, <2>1, <2>2, <2>3 DEF ProcTypes
  <1>8. InitStays'
    BY <1>1, <1>3, <1>4, <1>5, TasksAssumption DEF InitStays
  <1>9. ASSUME NEW q \in Tasks PROVE StateFits(q)'
    BY <1>1, <1>2, <1>3, <1>4, <1>5, TasksAssumption, <1>9 DEF StateFits
  <1>10. ASSUME NEW q \in Tasks PROVE LockFits(q)'
    BY <1>1, <1>2, <1>3, <1>4, <1>5, TasksAssumption, <1>10 DEF LockFits
  <1>11. ASSUME NEW q \in Tasks PROVE ForkFits(q)'
    BY <1>1, <1>2, <1>3, <1>4, <1>5, <1>6, TasksAssumption, <1>11 DEF ForkFits
  <1>12. ASSUME NEW q \in Tasks PROVE HasParent(q)'
    BY <1>1, <1>2, <1>3, <1>4, <1>5, TasksAssumption, <1>12 DEF Links, HasParent, InitStays
  <1>13. ASSUME NEW q \in Tasks PROVE WaitFits(q)'
    BY <1>1, <1>2, <1>3, <1>4, <1>5, TasksAssumption, <1>13 DEF WaitFits, WaitsForChild
  <1>14. ASSUME NEW q \in Tasks PROVE KillFits(q)'
    BY <1>1, <1>3, TasksAssumption, <1>14 DEF KillFits
  <1> QED BY <1>7, <1>8, <1>9, <1>10, <1>11, <1>12, <1>13, <1>14 DEF ProcInv

\* kexit() takes wait_lock.
LEMMA ExitLockStep ==
    ASSUME ProcInv, NEW p \in Tasks, ExitLock(p)
    PROVE  ProcInv'
  <1>1. /\ ProcTypes /\ Links /\ InitStays
        /\ \A x \in Tasks : /\ StateFits(x) /\ LockFits(x) /\ ForkFits(x)
                             /\ HasParent(x) /\ WaitFits(x) /\ KillFits(x)
    BY LinksNow DEF ProcInv
  <1>2. /\ state[p] = "RUNNABLE" /\ place[p] = "user" /\ p \notin plocks /\ p # InitTask
        /\ holder["wait"] = NoTask
    BY <1>1, TasksAssumption DEF StateFits, HasParent, InitStays, Doing, Enters, Free,
       ExitLock, GoesTo, Holds
  <1>3. /\ state' = state /\ parent' = parent /\ killed' = killed /\ chan' = chan /\ lk' = lk
        /\ plocks' = plocks /\ child' = child /\ elapsed' = elapsed /\ asked' = asked
    BY DEF ExitLock, GoesTo, Holds
  <1>4. holder'["wait"] = p /\ holder'["ticks"] = holder["ticks"]
    BY <1>1, <1>2 DEF ProcTypes, ExitLock, Holds
  <1>5. place'[p] = "exit" /\ \A x \in Tasks \ {p} : place'[x] = place[x]
    BY <1>1, <1>2 DEF ProcTypes, ExitLock, GoesTo
  <1>6. ProcTypes'
    <2>1. holder' \in [{"wait", "ticks"} -> Tasks \union {NoTask}]
      BY <1>1, <1>2, TasksAssumption DEF ProcTypes, ExitLock, GoesTo, Holds
    <2>2. place' \in [Tasks -> Places]
      BY <1>1, <1>2, TasksAssumption DEF ProcTypes, Places, ExitLock, GoesTo, Holds
    <2> QED BY <1>1, <1>3, <2>1, <2>2 DEF ProcTypes
  <1>7. InitStays'
    BY <1>1, <1>2, <1>3, <1>5, TasksAssumption DEF InitStays
  <1>8. ASSUME NEW q \in Tasks PROVE StateFits(q)'
    BY <1>1, <1>2, <1>3, <1>5, TasksAssumption, <1>8 DEF StateFits
  <1>9. ASSUME NEW q \in Tasks PROVE LockFits(q)'
    BY <1>1, <1>2, <1>3, <1>4, <1>5, TasksAssumption, <1>9 DEF LockFits
  <1>10. ASSUME NEW q \in Tasks PROVE ForkFits(q)'
    BY <1>1, <1>2, <1>3, <1>5, TasksAssumption, <1>10 DEF ForkFits
  <1>11. ASSUME NEW q \in Tasks PROVE HasParent(q)'
    BY <1>1, <1>2, <1>3, <1>5, TasksAssumption, <1>11 DEF Links, HasParent, InitStays
  <1>12. ASSUME NEW q \in Tasks PROVE WaitFits(q)'
    BY <1>1, <1>2, <1>3, <1>5, TasksAssumption, <1>12 DEF WaitFits, WaitsForChild
  <1>13. ASSUME NEW q \in Tasks PROVE KillFits(q)'
    BY <1>1, <1>3, TasksAssumption, <1>13 DEF KillFits
  <1> QED BY <1>6, <1>7, <1>8, <1>9, <1>10, <1>11, <1>12, <1>13 DEF ProcInv

\* reparent() and wakeup(): the children go to the first process, and a parent that
\* sleeps does not stay asleep.
LEMMA ExitReparentStep ==
    ASSUME ProcInv, NEW p \in Tasks, ExitReparent(p)
    PROVE  ProcInv'
  <1>1. /\ ProcTypes /\ Links /\ InitStays
        /\ \A x \in Tasks : /\ StateFits(x) /\ LockFits(x) /\ ForkFits(x)
                             /\ HasParent(x) /\ WaitFits(x) /\ KillFits(x)
    BY LinksNow DEF ProcInv
  <1>2. /\ state[p] = "RUNNABLE" /\ place[p] = "exit" /\ p \notin plocks /\ p # InitTask
        /\ holder["wait"] = p /\ plocks = {} /\ parent[p] # NoTask
    BY <1>1, TasksAssumption DEF LockFits, HasParent, InitStays, Doing, Enters, Free,
       ExitReparent, Orphans, Kids, Woken, GoesTo, Holds
  <1>3. /\ killed' = killed /\ chan' = chan /\ lk' = lk /\ holder' = holder /\ plocks' = plocks
        /\ child' = child /\ elapsed' = elapsed /\ asked' = asked
    BY DEF ExitReparent, GoesTo, Holds
  <1>4. \A x \in Tasks : parent'[x] = IF parent[x] = p THEN InitTask ELSE parent[x]
    BY <1>1, <1>2 DEF ExitReparent, Orphans, Kids, Woken, GoesTo, Holds
  <1>5. /\ \A x \in Tasks : state'[x] = state[x] \/ (state[x] = "SLEEPING" /\ state'[x] = "RUNNABLE")
        /\ \A x \in Tasks : state[x] = "SLEEPING" /\ chan[x] \in ExitWakes(p) => state'[x] = "RUNNABLE"
    BY <1>1, <1>2 DEF ExitReparent, Woken, GoesTo, Holds
  <1>6. place'[p] = "exiting" /\ \A x \in Tasks \ {p} : place'[x] = place[x]
    BY <1>1, <1>2 DEF ProcTypes, ExitReparent, Woken, GoesTo, Holds
  <1>7. ProcTypes'
    <2>1. parent' \in [Tasks -> Tasks \union {NoTask}]
      BY <1>1, <1>2, TasksAssumption DEF Links, ExitReparent, Orphans, Kids, Woken, GoesTo,
         Holds
    <2>2. state' \in [Tasks -> {"UNUSED", "USED", "RUNNABLE", "SLEEPING", "ZOMBIE"}]
      BY <1>1, <1>2, TasksAssumption DEF ProcTypes, ExitReparent, Orphans, Kids, Woken, GoesTo,
         Holds
    <2>3. place' \in [Tasks -> Places]
      BY <1>1, <1>2, TasksAssumption DEF ProcTypes, Places, ExitReparent, Orphans, Kids, Woken,
         GoesTo, Holds
    <2> QED BY <1>1, <1>3, <2>1, <2>2, <2>3 DEF ProcTypes
  <1>8. InitStays'
    BY <1>1, <1>2, <1>3, <1>5, <1>6, TasksAssumption DEF InitStays
  <1>9. ASSUME NEW q \in Tasks PROVE StateFits(q)'
    BY <1>1, <1>2, <1>3, <1>5, <1>6, TasksAssumption, <1>9 DEF StateFits
  <1>10. ASSUME NEW q \in Tasks PROVE LockFits(q)'
    BY <1>1, <1>2, <1>3, <1>5, <1>6, TasksAssumption, <1>10 DEF LockFits
  <1>11. ASSUME NEW q \in Tasks PROVE ForkFits(q)'
    BY <1>1, <1>2, <1>3, <1>4, <1>5, <1>6, TasksAssumption, <1>11 DEF ForkFits
  <1>12. ASSUME NEW q \in Tasks PROVE HasParent(q)'
    BY <1>1, <1>2, <1>3, <1>4, <1>5, <1>6, TasksAssumption, <1>12 DEF Links, HasParent,
       InitStays
  <1>13. ASSUME NEW q \in Tasks PROVE WaitFits(q)'
    <2> SUFFICES ASSUME WaitsForChild(q)'
                 PROVE  /\ \E x \in Tasks : parent'[x] = q
                        /\ \A x \in Tasks : parent'[x] = q => state'[x] # "ZOMBIE" /\ place'[x] # "exiting"
      BY DEF WaitFits
    <2>1. /\ q # p /\ state[q] = "SLEEPING" /\ state'[q] = "SLEEPING" /\ lk[q] = "wait"
          /\ chan[q] = q
      BY <1>1, <1>2, <1>3, <1>4, <1>5, <1>6, TasksAssumption, <1>13 DEF StateFits, LockFits,
         WaitsForChild
    <2>2. q # parent[p] /\ ((\E x \in Tasks : parent[x] = p) => q # InitTask)
      BY <1>5, <2>1 DEF ExitWakes, Kids
    <2>3. /\ \E x \in Tasks : parent[x] = q
          /\ \A x \in Tasks : parent[x] = q => state[x] # "ZOMBIE" /\ place[x] # "exiting"
      BY <1>1, <2>1, <1>13 DEF WaitFits, WaitsForChild
    <2>4. \E x \in Tasks : parent'[x] = q
      BY <1>4, <2>1, <2>3
    <2>5. ASSUME NEW x \in Tasks, parent'[x] = q PROVE state'[x] # "ZOMBIE" /\ place'[x] # "exiting"
      <3>1. parent[x] = q /\ x # p
        BY <1>4, <2>2, <2>5
      <3> QED BY <1>5, <1>6, <2>3, <3>1
    <2> QED BY <2>4, <2>5
  <1>14. ASSUME NEW q \in Tasks PROVE KillFits(q)'
    BY <1>1, <1>3, TasksAssumption, <1>14 DEF KillFits
  <1> QED BY <1>7, <1>8, <1>9, <1>10, <1>11, <1>12, <1>13, <1>14 DEF ProcInv

\* A zombie has no children, and no parent that would miss it.
LEMMA ExitZombieStep ==
    ASSUME ProcInv, NEW p \in Tasks, ExitZombie(p)
    PROVE  ProcInv'
  <1>1. /\ ProcTypes /\ Links /\ InitStays
        /\ \A x \in Tasks : /\ StateFits(x) /\ LockFits(x) /\ ForkFits(x)
                             /\ HasParent(x) /\ WaitFits(x) /\ KillFits(x)
    BY LinksNow DEF ProcInv
  <1>2. /\ state[p] = "RUNNABLE" /\ place[p] = "exiting" /\ p \notin plocks /\ p # InitTask
        /\ holder["wait"] = p
    BY <1>1, TasksAssumption DEF LockFits, HasParent, InitStays, Doing, Enters, Free,
       ExitZombie, GoesTo, Holds
  <1>3. /\ parent' = parent /\ killed' = killed /\ chan' = chan /\ lk' = lk /\ child' = child
        /\ elapsed' = elapsed /\ asked' = asked
    BY DEF ExitZombie, GoesTo, Holds
  <1>4. state'[p] = "ZOMBIE" /\ \A x \in Tasks \ {p} : state'[x] = state[x]
    BY <1>1, <1>2 DEF ProcTypes, ExitZombie
  <1>5. plocks' = plocks \union {p}
    BY <1>1, <1>2 DEF ExitZombie
  <1>6. holder'["wait"] = NoTask /\ holder'["ticks"] = holder["ticks"]
    BY <1>1, <1>2 DEF ProcTypes, ExitZombie, Holds
  <1>7. place'[p] = "sched" /\ \A x \in Tasks \ {p} : place'[x] = place[x]
    BY <1>1, <1>2 DEF ProcTypes, ExitZombie, GoesTo
  <1>8. ProcTypes'
    <2>1. state' \in [Tasks -> {"UNUSED", "USED", "RUNNABLE", "SLEEPING", "ZOMBIE"}]
      BY <1>1, <1>2, TasksAssumption DEF ProcTypes, ExitZombie, GoesTo, Holds
    <2>2. plocks' \subseteq Tasks
      BY <1>1, <1>2, TasksAssumption DEF ProcTypes, ExitZombie, GoesTo, Holds
    <2>3. holder' \in [{"wait", "ticks"} -> Tasks \union {NoTask}]
      BY <1>1, <1>2, TasksAssumption DEF ProcTypes, ExitZombie, GoesTo, Holds
    <2>4. place' \in [Tasks -> Places]
      BY <1>1, <1>2, TasksAssumption DEF ProcTypes, Places, ExitZombie, GoesTo, Holds
    <2> QED BY <1>1, <1>3, <2>1, <2>2, <2>3, <2>4 DEF ProcTypes
  <1>9. InitStays'
    BY <1>1, <1>2, <1>3, <1>4, <1>7, TasksAssumption DEF InitStays
  <1>10. ASSUME NEW q \in Tasks PROVE StateFits(q)'
    BY <1>1, <1>3, <1>4, <1>5, <1>7, TasksAssumption, <1>10 DEF StateFits
  <1>11. ASSUME NEW q \in Tasks PROVE LockFits(q)'
    BY <1>1, <1>2, <1>3, <1>4, <1>6, <1>7, TasksAssumption, <1>11 DEF LockFits
  <1>12. ASSUME NEW q \in Tasks PROVE ForkFits(q)'
    BY <1>1, <1>2, <1>3, <1>4, <1>7, TasksAssumption, <1>12 DEF ForkFits
  <1>13. ASSUME NEW q \in Tasks PROVE HasParent(q)'
    BY <1>1, <1>2, <1>3, <1>4, <1>7, TasksAssumption, <1>13 DEF Links, HasParent, InitStays
  <1>14. ASSUME NEW q \in Tasks PROVE WaitFits(q)'
    BY <1>1, <1>2, <1>3, <1>4, <1>7, TasksAssumption, <1>14 DEF WaitFits, WaitsForChild
  <1>15. ASSUME NEW q \in Tasks PROVE KillFits(q)'
    BY <1>1, <1>3, TasksAssumption, <1>15 DEF KillFits
  <1> QED BY <1>8, <1>9, <1>10, <1>11, <1>12, <1>13, <1>14, <1>15 DEF ProcInv

\* The scheduler has left the stack of a zombie.
LEMMA ExitSchedStep ==
    ASSUME ProcInv, NEW p \in Tasks, ExitSched(p)
    PROVE  ProcInv'
  <1>1. /\ ProcTypes /\ Links /\ InitStays
        /\ \A x \in Tasks : /\ StateFits(x) /\ LockFits(x) /\ ForkFits(x)
                             /\ HasParent(x) /\ WaitFits(x) /\ KillFits(x)
    BY LinksNow DEF ProcInv
  <1>2. state[p] = "ZOMBIE" /\ place[p] = "sched" /\ p # InitTask
    BY <1>1, TasksAssumption DEF HasParent, InitStays, Doing, Enters, Free, ExitSched, GoesTo,
       Holds
  <1>3. /\ state' = state /\ parent' = parent /\ killed' = killed /\ chan' = chan /\ lk' = lk
        /\ holder' = holder /\ child' = child /\ elapsed' = elapsed /\ asked' = asked
    BY DEF ExitSched, GoesTo, Holds
  <1>4. plocks' = plocks \ {p}
    BY <1>1, <1>2 DEF ExitSched
  <1>5. place'[p] = "none" /\ \A x \in Tasks \ {p} : place'[x] = place[x]
    BY <1>1, <1>2 DEF ProcTypes, ExitSched, GoesTo
  <1>6. ProcTypes'
    <2>1. plocks' \subseteq Tasks
      BY <1>1, <1>2, TasksAssumption DEF ProcTypes, ExitSched, GoesTo, Holds
    <2>2. place' \in [Tasks -> Places]
      BY <1>1, <1>2, TasksAssumption DEF ProcTypes, Places, ExitSched, GoesTo, Holds
    <2> QED BY <1>1, <1>3, <2>1, <2>2 DEF ProcTypes
  <1>7. InitStays'
    BY <1>1, <1>3, <1>5, TasksAssumption DEF InitStays
  <1>8. ASSUME NEW q \in Tasks PROVE StateFits(q)'
    BY <1>1, <1>2, <1>3, <1>4, <1>5, TasksAssumption, <1>8 DEF StateFits
  <1>9. ASSUME NEW q \in Tasks PROVE LockFits(q)'
    BY <1>1, <1>2, <1>3, <1>5, TasksAssumption, <1>9 DEF LockFits
  <1>10. ASSUME NEW q \in Tasks PROVE ForkFits(q)'
    BY <1>1, <1>2, <1>3, <1>5, TasksAssumption, <1>10 DEF ForkFits
  <1>11. ASSUME NEW q \in Tasks PROVE HasParent(q)'
    BY <1>1, <1>2, <1>3, <1>5, TasksAssumption, <1>11 DEF Links, HasParent, InitStays
  <1>12. ASSUME NEW q \in Tasks PROVE WaitFits(q)'
    BY <1>1, <1>2, <1>3, <1>5, TasksAssumption, <1>12 DEF WaitFits, WaitsForChild
  <1>13. ASSUME NEW q \in Tasks PROVE KillFits(q)'
    BY <1>1, <1>3, TasksAssumption, <1>13 DEF KillFits
  <1> QED BY <1>6, <1>7, <1>8, <1>9, <1>10, <1>11, <1>12, <1>13 DEF ProcInv

\* kwait() takes wait_lock.
LEMMA WaitLockStep ==
    ASSUME ProcInv, NEW p \in Tasks, WaitLock(p)
    PROVE  ProcInv'
  <1>1. /\ ProcTypes /\ Links /\ InitStays
        /\ \A x \in Tasks : /\ StateFits(x) /\ LockFits(x) /\ ForkFits(x)
                             /\ HasParent(x) /\ WaitFits(x) /\ KillFits(x)
    BY LinksNow DEF ProcInv
  <1>2. state[p] = "RUNNABLE" /\ place[p] = "user" /\ p \notin plocks /\ holder["wait"] = NoTask
    BY <1>1, TasksAssumption DEF StateFits, HasParent, InitStays, Doing, Enters, Free,
       WaitLock, GoesTo, Holds
  <1>3. /\ state' = state /\ parent' = parent /\ killed' = killed /\ chan' = chan
        /\ plocks' = plocks /\ child' = child /\ elapsed' = elapsed /\ asked' = asked
    BY DEF WaitLock, GoesTo, Holds
  <1>4. holder'["wait"] = p /\ holder'["ticks"] = holder["ticks"]
    BY <1>1, <1>2 DEF ProcTypes, WaitLock, Holds
  <1>5. lk'[p] = "wait" /\ \A x \in Tasks \ {p} : lk'[x] = lk[x]
    BY <1>1, <1>2 DEF ProcTypes, WaitLock
  <1>6. place'[p] = "scan" /\ \A x \in Tasks \ {p} : place'[x] = place[x]
    BY <1>1, <1>2 DEF ProcTypes, WaitLock, GoesTo
  <1>7. ProcTypes'
    <2>1. holder' \in [{"wait", "ticks"} -> Tasks \union {NoTask}]
      BY <1>1, <1>2, TasksAssumption DEF ProcTypes, WaitLock, GoesTo, Holds
    <2>2. lk' \in [Tasks -> {"none", "wait", "ticks"}]
      BY <1>1, <1>2, TasksAssumption DEF ProcTypes, WaitLock, GoesTo, Holds
    <2>3. place' \in [Tasks -> Places]
      BY <1>1, <1>2, TasksAssumption DEF ProcTypes, Places, WaitLock, GoesTo, Holds
    <2> QED BY <1>1, <1>3, <2>1, <2>2, <2>3 DEF ProcTypes
  <1>8. InitStays'
    BY <1>1, <1>3, <1>6, TasksAssumption DEF InitStays
  <1>9. ASSUME NEW q \in Tasks PROVE StateFits(q)'
    BY <1>1, <1>2, <1>3, <1>6, TasksAssumption, <1>9 DEF StateFits
  <1>10. ASSUME NEW q \in Tasks PROVE LockFits(q)'
    BY <1>1, <1>2, <1>3, <1>4, <1>5, <1>6, TasksAssumption, <1>10 DEF LockFits
  <1>11. ASSUME NEW q \in Tasks PROVE ForkFits(q)'
    BY <1>1, <1>2, <1>3, <1>6, TasksAssumption, <1>11 DEF ForkFits
  <1>12. ASSUME NEW q \in Tasks PROVE HasParent(q)'
    BY <1>1, <1>2, <1>3, <1>6, TasksAssumption, <1>12 DEF Links, HasParent, InitStays
  <1>13. ASSUME NEW q \in Tasks PROVE WaitFits(q)'
    BY <1>1, <1>2, <1>3, <1>5, <1>6, TasksAssumption, <1>13 DEF WaitFits, WaitsForChild
  <1>14. ASSUME NEW q \in Tasks PROVE KillFits(q)'
    BY <1>1, <1>3, TasksAssumption, <1>14 DEF KillFits
  <1> QED BY <1>7, <1>8, <1>9, <1>10, <1>11, <1>12, <1>13, <1>14 DEF ProcInv

\* kwait() frees a zombie whose stack is left.
LEMMA ReapStep ==
    ASSUME ProcInv, NEW p \in Tasks, NEW r \in Tasks, Reap(p, r)
    PROVE  ProcInv'
  <1>1. /\ ProcTypes /\ Links /\ InitStays
        /\ \A x \in Tasks : /\ StateFits(x) /\ LockFits(x) /\ ForkFits(x)
                             /\ HasParent(x) /\ WaitFits(x) /\ KillFits(x)
    BY LinksNow DEF ProcInv
  <1>2. /\ state[p] = "RUNNABLE" /\ place[p] = "scan" /\ p \notin plocks /\ holder["wait"] = p
        /\ state[r] = "ZOMBIE" /\ r # p /\ r # InitTask /\ parent[r] = p /\ place[r] = "none"
    BY <1>1, TasksAssumption DEF StateFits, LockFits, HasParent, InitStays, Doing, Enters,
       Free, Reap, MayReap, KilledAfter, Zombies, Kids, WaitReturn, GoesTo, Holds
  <1>3. chan' = chan /\ plocks' = plocks /\ child' = child /\ elapsed' = elapsed
    BY DEF Reap, Kids, WaitReturn, GoesTo, Holds
  <1>4. state'[r] = "UNUSED" /\ \A x \in Tasks \ {r} : state'[x] = state[x]
    BY <1>1, <1>2 DEF ProcTypes, Reap, Zombies, Kids, WaitReturn, GoesTo, Holds
  <1>5. parent'[r] = NoTask /\ \A x \in Tasks \ {r} : parent'[x] = parent[x]
    BY <1>1, <1>2 DEF ProcTypes, Reap, Zombies, Kids, WaitReturn, GoesTo, Holds
  <1>6. killed'[r] = FALSE /\ \A x \in Tasks \ {r} : killed'[x] = killed[x]
    BY <1>1, <1>2 DEF ProcTypes, Reap, KilledAfter, Zombies, Kids, WaitReturn, GoesTo, Holds
  <1>7. asked' = asked \ {r}
    BY <1>1, <1>2 DEF Reap, Zombies, Kids, WaitReturn, GoesTo, Holds
  <1>8. holder'["wait"] = NoTask /\ holder'["ticks"] = holder["ticks"]
    BY <1>1, <1>2 DEF ProcTypes, Reap, Zombies, Kids, WaitReturn, GoesTo, Holds
  <1>9. lk'[p] = "none" /\ \A x \in Tasks \ {p} : lk'[x] = lk[x]
    BY <1>1, <1>2 DEF ProcTypes, Reap, Zombies, Kids, WaitReturn, GoesTo, Holds
  <1>10. place'[p] = "user" /\ \A x \in Tasks \ {p} : place'[x] = place[x]
    BY <1>1, <1>2 DEF ProcTypes, Reap, Zombies, Kids, WaitReturn, GoesTo, Holds
  <1>11. ProcTypes'
    <2>1. state' \in [Tasks -> {"UNUSED", "USED", "RUNNABLE", "SLEEPING", "ZOMBIE"}]
      BY <1>1, <1>2, TasksAssumption DEF ProcTypes, Reap, MayReap, KilledAfter, Zombies, Kids,
         WaitReturn, GoesTo, Holds
    <2>2. parent' \in [Tasks -> Tasks \union {NoTask}]
      BY <1>1, <1>2, TasksAssumption DEF ProcTypes, Reap, MayReap, KilledAfter, Zombies, Kids,
         WaitReturn, GoesTo, Holds
    <2>3. killed' \in [Tasks -> BOOLEAN]
      BY <1>1, <1>2, TasksAssumption DEF ProcTypes, Reap, MayReap, KilledAfter, Zombies, Kids,
         WaitReturn, GoesTo, Holds
    <2>4. asked' \subseteq Tasks
      BY <1>1, <1>2, TasksAssumption DEF ProcTypes, Reap, MayReap, KilledAfter, Zombies, Kids,
         WaitReturn, GoesTo, Holds
    <2>5. holder' \in [{"wait", "ticks"} -> Tasks \union {NoTask}]
      BY <1>1, <1>2, TasksAssumption DEF ProcTypes, Reap, MayReap, KilledAfter, Zombies, Kids,
         WaitReturn, GoesTo, Holds
    <2>6. lk' \in [Tasks -> {"none", "wait", "ticks"}]
      BY <1>1, <1>2, TasksAssumption DEF ProcTypes, Reap, MayReap, KilledAfter, Zombies, Kids,
         WaitReturn, GoesTo, Holds
    <2>7. place' \in [Tasks -> Places]
      BY <1>1, <1>2, TasksAssumption DEF ProcTypes, Places, Reap, MayReap, KilledAfter,
         Zombies, Kids, WaitReturn, GoesTo, Holds
    <2> QED BY <1>1, <1>3, <2>1, <2>2, <2>3, <2>4, <2>5, <2>6, <2>7 DEF ProcTypes
  <1>12. InitStays'
    BY <1>1, <1>2, <1>3, <1>4, <1>10, TasksAssumption DEF InitStays
  <1>13. ASSUME NEW q \in Tasks PROVE StateFits(q)'
    BY <1>1, <1>2, <1>3, <1>4, <1>10, TasksAssumption, <1>13 DEF StateFits
  <1>14. ASSUME NEW q \in Tasks PROVE LockFits(q)'
    BY <1>1, <1>2, <1>3, <1>4, <1>8, <1>9, <1>10, TasksAssumption, <1>14 DEF LockFits
  <1>15. ASSUME NEW q \in Tasks PROVE ForkFits(q)'
    BY <1>1, <1>2, <1>3, <1>4, <1>5, <1>10, TasksAssumption, <1>15 DEF ForkFits
  <1>16. ASSUME NEW q \in Tasks PROVE HasParent(q)'
    BY <1>1, <1>2, <1>3, <1>4, <1>5, <1>10, TasksAssumption, <1>16 DEF Links, HasParent,
       InitStays
  <1>17. ASSUME NEW q \in Tasks PROVE WaitFits(q)'
    BY <1>1, <1>2, <1>3, <1>4, <1>5, <1>9, <1>10, TasksAssumption, <1>17 DEF WaitFits,
       WaitsForChild
  <1>18. ASSUME NEW q \in Tasks PROVE KillFits(q)'
    BY <1>1, <1>3, <1>6, <1>7, TasksAssumption, <1>18 DEF KillFits
  <1> QED BY <1>11, <1>12, <1>13, <1>14, <1>15, <1>16, <1>17, <1>18 DEF ProcInv

\* kwait() returns.
LEMMA WaitFailsStep ==
    ASSUME ProcInv, NEW p \in Tasks, WaitFails(p)
    PROVE  ProcInv'
  <1>1. /\ ProcTypes /\ Links /\ InitStays
        /\ \A x \in Tasks : /\ StateFits(x) /\ LockFits(x) /\ ForkFits(x)
                             /\ HasParent(x) /\ WaitFits(x) /\ KillFits(x)
    BY LinksNow DEF ProcInv
  <1>2. state[p] = "RUNNABLE" /\ place[p] = "scan" /\ p \notin plocks /\ holder["wait"] = p
    BY <1>1, TasksAssumption DEF StateFits, LockFits, HasParent, InitStays, Doing, Enters,
       Free, WaitFails, WaitReturn, GoesTo, Holds
  <1>3. /\ state' = state /\ parent' = parent /\ killed' = killed /\ chan' = chan
        /\ plocks' = plocks /\ child' = child /\ elapsed' = elapsed /\ asked' = asked
    BY DEF WaitFails
  <1>4. holder'["wait"] = NoTask /\ holder'["ticks"] = holder["ticks"]
    BY <1>1, <1>2 DEF ProcTypes, WaitFails, WaitReturn, Holds
  <1>5. lk'[p] = "none" /\ \A x \in Tasks \ {p} : lk'[x] = lk[x]
    BY <1>1, <1>2 DEF ProcTypes, WaitFails, WaitReturn, Holds
  <1>6. place'[p] = "user" /\ \A x \in Tasks \ {p} : place'[x] = place[x]
    BY <1>1, <1>2 DEF ProcTypes, WaitFails, WaitReturn, GoesTo, Holds
  <1>7. ProcTypes'
    <2>1. holder' \in [{"wait", "ticks"} -> Tasks \union {NoTask}]
      BY <1>1, <1>2, TasksAssumption DEF ProcTypes, WaitFails, WaitReturn, GoesTo, Holds
    <2>2. lk' \in [Tasks -> {"none", "wait", "ticks"}]
      BY <1>1, <1>2, TasksAssumption DEF ProcTypes, WaitFails, WaitReturn, GoesTo, Holds
    <2>3. place' \in [Tasks -> Places]
      BY <1>1, <1>2, TasksAssumption DEF ProcTypes, Places, WaitFails, WaitReturn, GoesTo, Holds
    <2> QED BY <1>1, <1>3, <2>1, <2>2, <2>3 DEF ProcTypes
  <1>8. InitStays'
    BY <1>1, <1>3, <1>6, TasksAssumption DEF InitStays
  <1>9. ASSUME NEW q \in Tasks PROVE StateFits(q)'
    BY <1>1, <1>2, <1>3, <1>6, TasksAssumption, <1>9 DEF StateFits
  <1>10. ASSUME NEW q \in Tasks PROVE LockFits(q)'
    BY <1>1, <1>2, <1>3, <1>4, <1>5, <1>6, TasksAssumption, <1>10 DEF LockFits
  <1>11. ASSUME NEW q \in Tasks PROVE ForkFits(q)'
    BY <1>1, <1>2, <1>3, <1>6, TasksAssumption, <1>11 DEF ForkFits
  <1>12. ASSUME NEW q \in Tasks PROVE HasParent(q)'
    BY <1>1, <1>2, <1>3, <1>6, TasksAssumption, <1>12 DEF Links, HasParent, InitStays
  <1>13. ASSUME NEW q \in Tasks PROVE WaitFits(q)'
    BY <1>1, <1>2, <1>3, <1>5, <1>6, TasksAssumption, <1>13 DEF WaitFits, WaitsForChild
  <1>14. ASSUME NEW q \in Tasks PROVE KillFits(q)'
    BY <1>1, <1>3, TasksAssumption, <1>14 DEF KillFits
  <1> QED BY <1>7, <1>8, <1>9, <1>10, <1>11, <1>12, <1>13, <1>14 DEF ProcInv

\* kwait() finds children and no zombie; none can be exiting, under wait_lock.
LEMMA WaitSleepStep ==
    ASSUME ProcInv, NEW p \in Tasks, WaitSleep(p)
    PROVE  ProcInv'
  <1>1. /\ ProcTypes /\ Links /\ InitStays
        /\ \A x \in Tasks : /\ StateFits(x) /\ LockFits(x) /\ ForkFits(x)
                             /\ HasParent(x) /\ WaitFits(x) /\ KillFits(x)
    BY LinksNow DEF ProcInv
  <1>2. /\ state[p] = "RUNNABLE" /\ place[p] = "scan" /\ p \notin plocks /\ holder["wait"] = p
        /\ lk[p] = "wait"
        /\ (\E x \in Tasks : parent[x] = p) /\ \A x \in Tasks : parent[x] = p => state[x] # "ZOMBIE"
    BY <1>1, TasksAssumption DEF StateFits, LockFits, HasParent, InitStays, Doing, Enters,
       Free, WaitSleep, Kids, Zombies, GoesTo, Holds
  <1>3. /\ state' = state /\ parent' = parent /\ killed' = killed /\ chan' = chan /\ lk' = lk
        /\ holder' = holder /\ plocks' = plocks /\ child' = child /\ elapsed' = elapsed
        /\ asked' = asked
    BY DEF WaitSleep, Holds
  <1>4. place'[p] = "tosleep" /\ \A x \in Tasks \ {p} : place'[x] = place[x]
    BY <1>1, <1>2 DEF ProcTypes, WaitSleep, GoesTo, Holds
  <1>5. ProcTypes'
    <2>1. place' \in [Tasks -> Places]
      BY <1>1, <1>2, TasksAssumption DEF ProcTypes, Places, WaitSleep, Kids, Zombies, GoesTo,
         Holds
    <2> QED BY <1>1, <1>3, <2>1 DEF ProcTypes
  <1>6. InitStays'
    BY <1>1, <1>3, <1>4, TasksAssumption DEF InitStays
  <1>7. ASSUME NEW q \in Tasks PROVE StateFits(q)'
    BY <1>1, <1>2, <1>3, <1>4, TasksAssumption, <1>7 DEF StateFits
  <1>8. ASSUME NEW q \in Tasks PROVE LockFits(q)'
    BY <1>1, <1>2, <1>3, <1>4, TasksAssumption, <1>8 DEF LockFits
  <1>9. ASSUME NEW q \in Tasks PROVE ForkFits(q)'
    BY <1>1, <1>2, <1>3, <1>4, TasksAssumption, <1>9 DEF ForkFits
  <1>10. ASSUME NEW q \in Tasks PROVE HasParent(q)'
    BY <1>1, <1>2, <1>3, <1>4, TasksAssumption, <1>10 DEF Links, HasParent, InitStays
  <1>11. ASSUME NEW q \in Tasks PROVE WaitFits(q)'
    BY <1>1, <1>2, <1>3, <1>4, TasksAssumption, <1>11 DEF LockFits, WaitFits, WaitsForChild
  <1>12. ASSUME NEW q \in Tasks PROVE KillFits(q)'
    BY <1>1, <1>3, TasksAssumption, <1>12 DEF KillFits
  <1> QED BY <1>5, <1>6, <1>7, <1>8, <1>9, <1>10, <1>11, <1>12 DEF ProcInv

\* sleep() takes p->lock before it releases the lock of its caller.
LEMMA SleepLockStep ==
    ASSUME ProcInv, NEW p \in Tasks, SleepLock(p)
    PROVE  ProcInv'
  <1>1. /\ ProcTypes /\ Links /\ InitStays
        /\ \A x \in Tasks : /\ StateFits(x) /\ LockFits(x) /\ ForkFits(x)
                             /\ HasParent(x) /\ WaitFits(x) /\ KillFits(x)
    BY LinksNow DEF ProcInv
  <1>2. /\ state[p] = "RUNNABLE" /\ place[p] = "tosleep" /\ p \notin plocks
        /\ lk[p] \in {"wait", "ticks"} /\ holder[lk[p]] = p
    BY <1>1, TasksAssumption DEF LockFits, HasParent, InitStays, Doing, Enters, Free,
       SleepLock, SleepTakes, GoesTo, Holds
  <1>3. /\ state' = state /\ parent' = parent /\ killed' = killed /\ chan' = chan /\ lk' = lk
        /\ child' = child /\ elapsed' = elapsed /\ asked' = asked
    BY DEF SleepLock
  <1>4. plocks' = plocks \union {p}
    BY <1>1, <1>2 DEF SleepLock, SleepTakes, Holds
  <1>5. holder'[lk[p]] = NoTask /\ \A l \in {"wait", "ticks"} \ {lk[p]} : holder'[l] = holder[l]
    BY <1>1, <1>2 DEF ProcTypes, SleepLock, Holds
  <1>6. place'[p] = "sleep" /\ \A x \in Tasks \ {p} : place'[x] = place[x]
    BY <1>1, <1>2 DEF ProcTypes, SleepLock, GoesTo, Holds
  <1>7. ProcTypes'
    <2>1. plocks' \subseteq Tasks
      BY <1>1, <1>2, TasksAssumption DEF ProcTypes, SleepLock, SleepTakes, GoesTo, Holds
    <2>2. holder' \in [{"wait", "ticks"} -> Tasks \union {NoTask}]
      BY <1>1, <1>2, TasksAssumption DEF ProcTypes, SleepLock, SleepTakes, GoesTo, Holds
    <2>3. place' \in [Tasks -> Places]
      BY <1>1, <1>2, TasksAssumption DEF ProcTypes, Places, SleepLock, SleepTakes, GoesTo, Holds
    <2> QED BY <1>1, <1>3, <2>1, <2>2, <2>3 DEF ProcTypes
  <1>8. InitStays'
    BY <1>1, <1>3, <1>6, TasksAssumption DEF InitStays
  <1>9. ASSUME NEW q \in Tasks PROVE StateFits(q)'
    BY <1>1, <1>2, <1>3, <1>4, <1>6, TasksAssumption, <1>9 DEF StateFits
  <1>10. ASSUME NEW q \in Tasks PROVE LockFits(q)'
    BY <1>1, <1>2, <1>3, <1>5, <1>6, TasksAssumption, <1>10 DEF LockFits
  <1>11. ASSUME NEW q \in Tasks PROVE ForkFits(q)'
    BY <1>1, <1>2, <1>3, <1>6, TasksAssumption, <1>11 DEF ForkFits
  <1>12. ASSUME NEW q \in Tasks PROVE HasParent(q)'
    BY <1>1, <1>2, <1>3, <1>6, TasksAssumption, <1>12 DEF Links, HasParent, InitStays
  <1>13. ASSUME NEW q \in Tasks PROVE WaitFits(q)'
    BY <1>1, <1>2, <1>3, <1>6, TasksAssumption, <1>13 DEF WaitFits, WaitsForChild
  <1>14. ASSUME NEW q \in Tasks PROVE KillFits(q)'
    BY <1>1, <1>3, TasksAssumption, <1>14 DEF KillFits
  <1> QED BY <1>7, <1>8, <1>9, <1>10, <1>11, <1>12, <1>13, <1>14 DEF ProcInv

\* The process sleeps, and still waits for what it waited for.
LEMMA SleepEndStep ==
    ASSUME ProcInv, NEW p \in Tasks, SleepEnd(p)
    PROVE  ProcInv'
  <1>1. /\ ProcTypes /\ Links /\ InitStays
        /\ \A x \in Tasks : /\ StateFits(x) /\ LockFits(x) /\ ForkFits(x)
                             /\ HasParent(x) /\ WaitFits(x) /\ KillFits(x)
    BY LinksNow DEF ProcInv
  <1>2. state[p] = "RUNNABLE" /\ place[p] = "sleep"
    BY <1>1, TasksAssumption DEF HasParent, InitStays, Doing, Enters, Free, SleepEnd, GoesTo,
       Holds
  <1>3. /\ parent' = parent /\ killed' = killed /\ lk' = lk /\ holder' = holder
        /\ child' = child /\ elapsed' = elapsed /\ asked' = asked
    BY DEF SleepEnd, GoesTo, Holds
  <1>4. state'[p] = "SLEEPING" /\ \A x \in Tasks \ {p} : state'[x] = state[x]
    BY <1>1, <1>2 DEF ProcTypes, SleepEnd
  <1>5. /\ chan'[p] = (IF lk[p] = "wait" THEN p ELSE "ticks")
        /\ \A x \in Tasks \ {p} : chan'[x] = chan[x]
    BY <1>1, <1>2 DEF ProcTypes, SleepEnd
  <1>6. plocks' = plocks \ {p}
    BY <1>1, <1>2 DEF SleepEnd
  <1>7. place'[p] = "asleep" /\ \A x \in Tasks \ {p} : place'[x] = place[x]
    BY <1>1, <1>2 DEF ProcTypes, SleepEnd, GoesTo
  <1>8. ProcTypes'
    <2>1. state' \in [Tasks -> {"UNUSED", "USED", "RUNNABLE", "SLEEPING", "ZOMBIE"}]
      BY <1>1, <1>2, TasksAssumption DEF ProcTypes, SleepEnd, GoesTo, Holds
    <2>2. chan' \in [Tasks -> Tasks \union {NoTask, "ticks"}]
      BY <1>1, <1>2, TasksAssumption DEF ProcTypes, SleepEnd, GoesTo, Holds
    <2>3. plocks' \subseteq Tasks
      BY <1>1, <1>2, TasksAssumption DEF ProcTypes, SleepEnd, GoesTo, Holds
    <2>4. place' \in [Tasks -> Places]
      BY <1>1, <1>2, TasksAssumption DEF ProcTypes, Places, SleepEnd, GoesTo, Holds
    <2> QED BY <1>1, <1>3, <2>1, <2>2, <2>3, <2>4 DEF ProcTypes
  <1>9. InitStays'
    BY <1>1, <1>3, <1>4, <1>7, TasksAssumption DEF InitStays
  <1>10. ASSUME NEW q \in Tasks PROVE StateFits(q)'
    BY <1>1, <1>3, <1>4, <1>6, <1>7, TasksAssumption, <1>10 DEF StateFits
  <1>11. ASSUME NEW q \in Tasks PROVE LockFits(q)'
    BY <1>1, <1>2, <1>3, <1>4, <1>5, <1>7, TasksAssumption, <1>11 DEF LockFits
  <1>12. ASSUME NEW q \in Tasks PROVE ForkFits(q)'
    BY <1>1, <1>2, <1>3, <1>4, <1>7, TasksAssumption, <1>12 DEF ForkFits
  <1>13. ASSUME NEW q \in Tasks PROVE HasParent(q)'
    BY <1>1, <1>2, <1>3, <1>4, <1>7, TasksAssumption, <1>13 DEF Links, HasParent, InitStays
  <1>14. ASSUME NEW q \in Tasks PROVE WaitFits(q)'
    BY <1>1, <1>2, <1>3, <1>4, <1>7, TasksAssumption, <1>14 DEF WaitFits, WaitsForChild
  <1>15. ASSUME NEW q \in Tasks PROVE KillFits(q)'
    BY <1>1, <1>3, TasksAssumption, <1>15 DEF KillFits
  <1> QED BY <1>8, <1>9, <1>10, <1>11, <1>12, <1>13, <1>14, <1>15 DEF ProcInv

\* A process that was woken takes the lock of the caller again and looks.
LEMMA ResumeStep ==
    ASSUME ProcInv, NEW p \in Tasks, Resume(p)
    PROVE  ProcInv'
  <1>1. /\ ProcTypes /\ Links /\ InitStays
        /\ \A x \in Tasks : /\ StateFits(x) /\ LockFits(x) /\ ForkFits(x)
                             /\ HasParent(x) /\ WaitFits(x) /\ KillFits(x)
    BY LinksNow DEF ProcInv
  <1>2. /\ state[p] = "RUNNABLE" /\ place[p] = "asleep" /\ p \notin plocks
        /\ lk[p] \in {"wait", "ticks"} /\ holder[lk[p]] = NoTask
    BY <1>1, TasksAssumption DEF LockFits, HasParent, InitStays, Doing, Enters, Free, Resume,
       GoesTo, Holds
  <1>3. /\ state' = state /\ parent' = parent /\ killed' = killed /\ lk' = lk
        /\ plocks' = plocks /\ child' = child /\ elapsed' = elapsed /\ asked' = asked
    BY DEF Resume, GoesTo, Holds
  <1>4. chan'[p] = NoTask /\ \A x \in Tasks \ {p} : chan'[x] = chan[x]
    BY <1>1, <1>2 DEF ProcTypes, Resume
  <1>5. holder'[lk[p]] = p /\ \A l \in {"wait", "ticks"} \ {lk[p]} : holder'[l] = holder[l]
    BY <1>1, <1>2 DEF ProcTypes, Resume, Holds
  <1>6. /\ place'[p] = (IF lk[p] = "wait" THEN "scan" ELSE "pause")
        /\ \A x \in Tasks \ {p} : place'[x] = place[x]
    BY <1>1, <1>2 DEF ProcTypes, Resume, GoesTo
  <1>7. ProcTypes'
    <2>1. chan' \in [Tasks -> Tasks \union {NoTask, "ticks"}]
      BY <1>1, <1>2, TasksAssumption DEF ProcTypes, Resume, GoesTo, Holds
    <2>2. holder' \in [{"wait", "ticks"} -> Tasks \union {NoTask}]
      BY <1>1, <1>2, TasksAssumption DEF ProcTypes, Resume, GoesTo, Holds
    <2>3. place' \in [Tasks -> Places]
      BY <1>1, <1>2, TasksAssumption DEF ProcTypes, Places, Resume, GoesTo, Holds
    <2> QED BY <1>1, <1>3, <2>1, <2>2, <2>3 DEF ProcTypes
  <1>8. InitStays'
    BY <1>1, <1>3, <1>6, TasksAssumption DEF InitStays
  <1>9. ASSUME NEW q \in Tasks PROVE StateFits(q)'
    BY <1>1, <1>2, <1>3, <1>6, TasksAssumption, <1>9 DEF StateFits
  <1>10. ASSUME NEW q \in Tasks PROVE LockFits(q)'
    BY <1>1, <1>2, <1>3, <1>4, <1>5, <1>6, TasksAssumption, <1>10 DEF LockFits
  <1>11. ASSUME NEW q \in Tasks PROVE ForkFits(q)'
    BY <1>1, <1>2, <1>3, <1>6, TasksAssumption, <1>11 DEF ForkFits
  <1>12. ASSUME NEW q \in Tasks PROVE HasParent(q)'
    BY <1>1, <1>2, <1>3, <1>6, TasksAssumption, <1>12 DEF Links, HasParent, InitStays
  <1>13. ASSUME NEW q \in Tasks PROVE WaitFits(q)'
    BY <1>1, <1>2, <1>3, <1>6, TasksAssumption, <1>13 DEF WaitFits, WaitsForChild
  <1>14. ASSUME NEW q \in Tasks PROVE KillFits(q)'
    BY <1>1, <1>3, TasksAssumption, <1>14 DEF KillFits
  <1> QED BY <1>7, <1>8, <1>9, <1>10, <1>11, <1>12, <1>13, <1>14 DEF ProcInv

\* sys_pause() takes tickslock.
LEMMA PauseLockStep ==
    ASSUME ProcInv, NEW p \in Tasks, PauseLock(p)
    PROVE  ProcInv'
  <1>1. /\ ProcTypes /\ Links /\ InitStays
        /\ \A x \in Tasks : /\ StateFits(x) /\ LockFits(x) /\ ForkFits(x)
                             /\ HasParent(x) /\ WaitFits(x) /\ KillFits(x)
    BY LinksNow DEF ProcInv
  <1>2. /\ state[p] = "RUNNABLE" /\ place[p] = "user" /\ p \notin plocks
        /\ holder["ticks"] = NoTask
    BY <1>1, TasksAssumption DEF StateFits, HasParent, InitStays, Doing, Enters, Free,
       PauseLock, GoesTo, Holds
  <1>3. /\ state' = state /\ parent' = parent /\ killed' = killed /\ chan' = chan
        /\ plocks' = plocks /\ child' = child /\ elapsed' = elapsed /\ asked' = asked
    BY DEF PauseLock, GoesTo, Holds
  <1>4. holder'["ticks"] = p /\ holder'["wait"] = holder["wait"]
    BY <1>1, <1>2 DEF ProcTypes, PauseLock, Holds
  <1>5. lk'[p] = "ticks" /\ \A x \in Tasks \ {p} : lk'[x] = lk[x]
    BY <1>1, <1>2 DEF ProcTypes, PauseLock
  <1>6. place'[p] = "pause" /\ \A x \in Tasks \ {p} : place'[x] = place[x]
    BY <1>1, <1>2 DEF ProcTypes, PauseLock, GoesTo
  <1>7. ProcTypes'
    <2>1. holder' \in [{"wait", "ticks"} -> Tasks \union {NoTask}]
      BY <1>1, <1>2, TasksAssumption DEF ProcTypes, PauseLock, GoesTo, Holds
    <2>2. lk' \in [Tasks -> {"none", "wait", "ticks"}]
      BY <1>1, <1>2, TasksAssumption DEF ProcTypes, PauseLock, GoesTo, Holds
    <2>3. place' \in [Tasks -> Places]
      BY <1>1, <1>2, TasksAssumption DEF ProcTypes, Places, PauseLock, GoesTo, Holds
    <2> QED BY <1>1, <1>3, <2>1, <2>2, <2>3 DEF ProcTypes
  <1>8. InitStays'
    BY <1>1, <1>3, <1>6, TasksAssumption DEF InitStays
  <1>9. ASSUME NEW q \in Tasks PROVE StateFits(q)'
    BY <1>1, <1>2, <1>3, <1>6, TasksAssumption, <1>9 DEF StateFits
  <1>10. ASSUME NEW q \in Tasks PROVE LockFits(q)'
    BY <1>1, <1>2, <1>3, <1>4, <1>5, <1>6, TasksAssumption, <1>10 DEF LockFits
  <1>11. ASSUME NEW q \in Tasks PROVE ForkFits(q)'
    BY <1>1, <1>2, <1>3, <1>6, TasksAssumption, <1>11 DEF ForkFits
  <1>12. ASSUME NEW q \in Tasks PROVE HasParent(q)'
    BY <1>1, <1>2, <1>3, <1>6, TasksAssumption, <1>12 DEF Links, HasParent, InitStays
  <1>13. ASSUME NEW q \in Tasks PROVE WaitFits(q)'
    BY <1>1, <1>2, <1>3, <1>5, <1>6, TasksAssumption, <1>13 DEF WaitFits, WaitsForChild
  <1>14. ASSUME NEW q \in Tasks PROVE KillFits(q)'
    BY <1>1, <1>3, TasksAssumption, <1>14 DEF KillFits
  <1> QED BY <1>7, <1>8, <1>9, <1>10, <1>11, <1>12, <1>13, <1>14 DEF ProcInv

\* The time has come, or the process is killed.
LEMMA PauseReturnStep ==
    ASSUME ProcInv, NEW p \in Tasks, PauseLook(p), elapsed[p] \/ killed[p]
    PROVE  ProcInv'
  <1>1. /\ ProcTypes /\ Links /\ InitStays
        /\ \A x \in Tasks : /\ StateFits(x) /\ LockFits(x) /\ ForkFits(x)
                             /\ HasParent(x) /\ WaitFits(x) /\ KillFits(x)
    BY LinksNow DEF ProcInv
  <1>2. state[p] = "RUNNABLE" /\ place[p] = "pause" /\ p \notin plocks /\ holder["ticks"] = p
    BY <1>1, TasksAssumption DEF StateFits, LockFits, HasParent, InitStays, Doing, Enters,
       Free, PauseLook, GoesTo, Holds
  <1>3. /\ state' = state /\ parent' = parent /\ killed' = killed /\ chan' = chan
        /\ plocks' = plocks /\ child' = child /\ asked' = asked
    BY DEF PauseLook, GoesTo, Holds
  <1>4. holder'["ticks"] = NoTask /\ holder'["wait"] = holder["wait"]
    BY <1>1, <1>2 DEF ProcTypes, PauseLook, Holds
  <1>5. lk'[p] = "none" /\ \A x \in Tasks \ {p} : lk'[x] = lk[x]
    BY <1>1, <1>2 DEF ProcTypes, PauseLook
  <1>6. elapsed'[p] = FALSE /\ \A x \in Tasks \ {p} : elapsed'[x] = elapsed[x]
    BY <1>1, <1>2 DEF ProcTypes, PauseLook
  <1>7. place'[p] = "user" /\ \A x \in Tasks \ {p} : place'[x] = place[x]
    BY <1>1, <1>2 DEF ProcTypes, PauseLook, GoesTo
  <1>8. ProcTypes'
    <2>1. holder' \in [{"wait", "ticks"} -> Tasks \union {NoTask}]
      BY <1>1, <1>2, TasksAssumption DEF ProcTypes, PauseLook, GoesTo, Holds
    <2>2. lk' \in [Tasks -> {"none", "wait", "ticks"}]
      BY <1>1, <1>2, TasksAssumption DEF ProcTypes, PauseLook, GoesTo, Holds
    <2>3. elapsed' \in [Tasks -> BOOLEAN]
      BY <1>1, <1>2, TasksAssumption DEF ProcTypes, Links, PauseLook, GoesTo, Holds
    <2>4. place' \in [Tasks -> Places]
      BY <1>1, <1>2, TasksAssumption DEF ProcTypes, Places, PauseLook, GoesTo, Holds
    <2> QED BY <1>1, <1>3, <2>1, <2>2, <2>3, <2>4 DEF ProcTypes
  <1>9. InitStays'
    BY <1>1, <1>3, <1>7, TasksAssumption DEF InitStays
  <1>10. ASSUME NEW q \in Tasks PROVE StateFits(q)'
    BY <1>1, <1>2, <1>3, <1>7, TasksAssumption, <1>10 DEF StateFits
  <1>11. ASSUME NEW q \in Tasks PROVE LockFits(q)'
    BY <1>1, <1>2, <1>3, <1>4, <1>5, <1>7, TasksAssumption, <1>11 DEF LockFits
  <1>12. ASSUME NEW q \in Tasks PROVE ForkFits(q)'
    BY <1>1, <1>2, <1>3, <1>7, TasksAssumption, <1>12 DEF ForkFits
  <1>13. ASSUME NEW q \in Tasks PROVE HasParent(q)'
    BY <1>1, <1>2, <1>3, <1>7, TasksAssumption, <1>13 DEF Links, HasParent, InitStays
  <1>14. ASSUME NEW q \in Tasks PROVE WaitFits(q)'
    BY <1>1, <1>2, <1>3, <1>5, <1>7, TasksAssumption, <1>14 DEF WaitFits, WaitsForChild
  <1>15. ASSUME NEW q \in Tasks PROVE KillFits(q)'
    BY <1>1, <1>3, TasksAssumption, <1>15 DEF KillFits
  <1> QED BY <1>8, <1>9, <1>10, <1>11, <1>12, <1>13, <1>14, <1>15 DEF ProcInv

\* The time has not come.
LEMMA PauseSleepStep ==
    ASSUME ProcInv, NEW p \in Tasks, PauseLook(p), ~(elapsed[p] \/ killed[p])
    PROVE  ProcInv'
  <1>1. /\ ProcTypes /\ Links /\ InitStays
        /\ \A x \in Tasks : /\ StateFits(x) /\ LockFits(x) /\ ForkFits(x)
                             /\ HasParent(x) /\ WaitFits(x) /\ KillFits(x)
    BY LinksNow DEF ProcInv
  <1>2. /\ state[p] = "RUNNABLE" /\ place[p] = "pause" /\ p \notin plocks /\ holder["ticks"] = p
        /\ lk[p] = "ticks"
    BY <1>1, TasksAssumption DEF StateFits, LockFits, HasParent, InitStays, Doing, Enters,
       Free, PauseLook, GoesTo, Holds
  <1>3. /\ state' = state /\ parent' = parent /\ killed' = killed /\ chan' = chan /\ lk' = lk
        /\ holder' = holder /\ plocks' = plocks /\ child' = child /\ elapsed' = elapsed
        /\ asked' = asked
    BY DEF PauseLook, GoesTo, Holds
  <1>4. place'[p] = "tosleep" /\ \A x \in Tasks \ {p} : place'[x] = place[x]
    BY <1>1, <1>2 DEF ProcTypes, PauseLook, GoesTo
  <1>5. ProcTypes'
    <2>1. place' \in [Tasks -> Places]
      BY <1>1, <1>2, TasksAssumption DEF ProcTypes, Places, PauseLook, GoesTo, Holds
    <2> QED BY <1>1, <1>3, <2>1 DEF ProcTypes
  <1>6. InitStays'
    BY <1>1, <1>3, <1>4, TasksAssumption DEF InitStays
  <1>7. ASSUME NEW q \in Tasks PROVE StateFits(q)'
    BY <1>1, <1>2, <1>3, <1>4, TasksAssumption, <1>7 DEF StateFits
  <1>8. ASSUME NEW q \in Tasks PROVE LockFits(q)'
    BY <1>1, <1>2, <1>3, <1>4, TasksAssumption, <1>8 DEF LockFits
  <1>9. ASSUME NEW q \in Tasks PROVE ForkFits(q)'
    BY <1>1, <1>2, <1>3, <1>4, TasksAssumption, <1>9 DEF ForkFits
  <1>10. ASSUME NEW q \in Tasks PROVE HasParent(q)'
    BY <1>1, <1>2, <1>3, <1>4, TasksAssumption, <1>10 DEF Links, HasParent, InitStays
  <1>11. ASSUME NEW q \in Tasks PROVE WaitFits(q)'
    BY <1>1, <1>2, <1>3, <1>4, TasksAssumption, <1>11 DEF WaitFits, WaitsForChild
  <1>12. ASSUME NEW q \in Tasks PROVE KillFits(q)'
    BY <1>1, <1>3, TasksAssumption, <1>12 DEF KillFits
  <1> QED BY <1>5, <1>6, <1>7, <1>8, <1>9, <1>10, <1>11, <1>12 DEF ProcInv

\* clockintr() wakes sleepers and changes nothing else.
LEMMA TickStep ==
    ASSUME ProcInv, Tick
    PROVE  ProcInv'
  <1>1. /\ ProcTypes /\ Links /\ InitStays
        /\ \A x \in Tasks : /\ StateFits(x) /\ LockFits(x) /\ ForkFits(x)
                             /\ HasParent(x) /\ WaitFits(x) /\ KillFits(x)
    BY LinksNow DEF ProcInv
  <1>2. holder["ticks"] = NoTask
    BY <1>1, TasksAssumption DEF HasParent, InitStays, Doing, Enters, Free, Tick, Woken
  <1>3. /\ parent' = parent /\ killed' = killed /\ chan' = chan /\ place' = place /\ lk' = lk
        /\ holder' = holder /\ plocks' = plocks /\ child' = child /\ asked' = asked
    BY DEF Tick, Woken
  <1>4. elapsed' \in [Tasks -> BOOLEAN]
    BY <1>2 DEF Tick
  <1>5. \A x \in Tasks : state'[x] = state[x] \/ (state[x] = "SLEEPING" /\ state'[x] = "RUNNABLE")
    BY <1>2 DEF Tick, Woken
  <1>6. ProcTypes'
    <2>1. elapsed' \in [Tasks -> BOOLEAN]
      BY <1>1, <1>2, TasksAssumption DEF Tick, Woken
    <2>2. state' \in [Tasks -> {"UNUSED", "USED", "RUNNABLE", "SLEEPING", "ZOMBIE"}]
      BY <1>1, <1>2, TasksAssumption DEF ProcTypes, Tick, Woken
    <2> QED BY <1>1, <1>3, <2>1, <2>2 DEF ProcTypes
  <1>7. InitStays'
    BY <1>1, <1>3, <1>5, TasksAssumption DEF InitStays
  <1>8. ASSUME NEW q \in Tasks PROVE StateFits(q)'
    BY <1>1, <1>3, <1>5, TasksAssumption, <1>8 DEF StateFits
  <1>9. ASSUME NEW q \in Tasks PROVE LockFits(q)'
    BY <1>1, <1>2, <1>3, <1>5, TasksAssumption, <1>9 DEF LockFits
  <1>10. ASSUME NEW q \in Tasks PROVE ForkFits(q)'
    BY <1>1, <1>2, <1>3, <1>5, TasksAssumption, <1>10 DEF ForkFits
  <1>11. ASSUME NEW q \in Tasks PROVE HasParent(q)'
    BY <1>1, <1>2, <1>3, <1>5, TasksAssumption, <1>11 DEF Links, HasParent, InitStays
  <1>12. ASSUME NEW q \in Tasks PROVE WaitFits(q)'
    BY <1>1, <1>2, <1>3, <1>5, TasksAssumption, <1>12 DEF WaitFits, WaitsForChild
  <1>13. ASSUME NEW q \in Tasks PROVE KillFits(q)'
    BY <1>1, <1>3, TasksAssumption, <1>13 DEF KillFits
  <1> QED BY <1>6, <1>7, <1>8, <1>9, <1>10, <1>11, <1>12, <1>13 DEF ProcInv

\* kkill() wakes the process and notes it.
LEMMA KillStep ==
    ASSUME ProcInv, NEW p \in Tasks, Kill(p)
    PROVE  ProcInv'
  <1>1. /\ ProcTypes /\ Links /\ InitStays
        /\ \A x \in Tasks : /\ StateFits(x) /\ LockFits(x) /\ ForkFits(x)
                             /\ HasParent(x) /\ WaitFits(x) /\ KillFits(x)
    BY LinksNow DEF ProcInv
  <1>2. state[p] # "UNUSED" /\ p # InitTask
    BY <1>1, TasksAssumption DEF HasParent, InitStays, Doing, Enters, Free, Kill
  <1>3. /\ parent' = parent /\ chan' = chan /\ place' = place /\ lk' = lk /\ holder' = holder
        /\ plocks' = plocks /\ child' = child /\ elapsed' = elapsed
    BY DEF Kill
  <1>4. killed'[p] = TRUE /\ \A x \in Tasks \ {p} : killed'[x] = killed[x]
    BY <1>1 DEF ProcTypes, Kill
  <1>5. /\ state'[p] = IF state[p] = "SLEEPING" THEN "RUNNABLE" ELSE state[p]
        /\ \A x \in Tasks \ {p} : state'[x] = state[x]
    BY <1>1 DEF ProcTypes, Kill
  <1>6. asked' = asked \union {p}
    BY DEF Kill
  <1>7. ProcTypes'
    <2>1. killed' \in [Tasks -> BOOLEAN]
      BY <1>1, <1>2, TasksAssumption DEF ProcTypes, Kill
    <2>2. state' \in [Tasks -> {"UNUSED", "USED", "RUNNABLE", "SLEEPING", "ZOMBIE"}]
      BY <1>1, <1>2, TasksAssumption DEF ProcTypes, Kill
    <2>3. asked' \subseteq Tasks
      BY <1>1, <1>2, TasksAssumption DEF ProcTypes, Kill
    <2> QED BY <1>1, <1>3, <2>1, <2>2, <2>3 DEF ProcTypes
  <1>8. InitStays'
    BY <1>1, <1>3, <1>5, TasksAssumption DEF InitStays
  <1>9. ASSUME NEW q \in Tasks PROVE StateFits(q)'
    BY <1>1, <1>3, <1>5, TasksAssumption, <1>9 DEF StateFits
  <1>10. ASSUME NEW q \in Tasks PROVE LockFits(q)'
    BY <1>1, <1>2, <1>3, <1>5, TasksAssumption, <1>10 DEF LockFits
  <1>11. ASSUME NEW q \in Tasks PROVE ForkFits(q)'
    BY <1>1, <1>2, <1>3, <1>5, TasksAssumption, <1>11 DEF ForkFits
  <1>12. ASSUME NEW q \in Tasks PROVE HasParent(q)'
    BY <1>1, <1>2, <1>3, <1>5, TasksAssumption, <1>12 DEF Links, HasParent, InitStays
  <1>13. ASSUME NEW q \in Tasks PROVE WaitFits(q)'
    BY <1>1, <1>2, <1>3, <1>5, TasksAssumption, <1>13 DEF WaitFits, WaitsForChild
  <1>14. ASSUME NEW q \in Tasks PROVE KillFits(q)'
    BY <1>1, <1>3, <1>4, <1>6, TasksAssumption, <1>14 DEF KillFits
  <1> QED BY <1>7, <1>8, <1>9, <1>10, <1>11, <1>12, <1>13, <1>14 DEF ProcInv

\* kill(0) marks a free entry.
LEMMA KillZeroStep ==
    ASSUME ProcInv, NEW p \in Tasks, KillZero(p)
    PROVE  ProcInv'
  <1>1. /\ ProcTypes /\ Links /\ InitStays
        /\ \A x \in Tasks : /\ StateFits(x) /\ LockFits(x) /\ ForkFits(x)
                             /\ HasParent(x) /\ WaitFits(x) /\ KillFits(x)
    BY LinksNow DEF ProcInv
  <1>2. state[p] = "UNUSED"
    BY <1>1, TasksAssumption DEF HasParent, InitStays, Doing, Enters, Free, KillZero
  <1>3. /\ state' = state /\ parent' = parent /\ chan' = chan /\ place' = place /\ lk' = lk
        /\ holder' = holder /\ plocks' = plocks /\ child' = child /\ elapsed' = elapsed
    BY DEF KillZero
  <1>4. killed'[p] = TRUE /\ \A x \in Tasks \ {p} : killed'[x] = killed[x]
    BY <1>1 DEF ProcTypes, KillZero
  <1>5. asked' = asked \union {p}
    BY DEF KillZero
  <1>6. ProcTypes'
    <2>1. killed' \in [Tasks -> BOOLEAN]
      BY <1>1, <1>2, TasksAssumption DEF ProcTypes, KillZero
    <2>2. asked' \subseteq Tasks
      BY <1>1, <1>2, TasksAssumption DEF ProcTypes, KillZero
    <2> QED BY <1>1, <1>3, <2>1, <2>2 DEF ProcTypes
  <1>7. InitStays'
    BY <1>1, <1>3, TasksAssumption DEF InitStays
  <1>8. ASSUME NEW q \in Tasks PROVE StateFits(q)'
    BY <1>1, <1>3, TasksAssumption, <1>8 DEF StateFits
  <1>9. ASSUME NEW q \in Tasks PROVE LockFits(q)'
    BY <1>1, <1>2, <1>3, TasksAssumption, <1>9 DEF LockFits
  <1>10. ASSUME NEW q \in Tasks PROVE ForkFits(q)'
    BY <1>1, <1>2, <1>3, TasksAssumption, <1>10 DEF ForkFits
  <1>11. ASSUME NEW q \in Tasks PROVE HasParent(q)'
    BY <1>1, <1>2, <1>3, TasksAssumption, <1>11 DEF HasParent, InitStays
  <1>12. ASSUME NEW q \in Tasks PROVE WaitFits(q)'
    BY <1>1, <1>2, <1>3, TasksAssumption, <1>12 DEF WaitFits, WaitsForChild
  <1>13. ASSUME NEW q \in Tasks PROVE KillFits(q)'
    BY <1>1, <1>3, <1>4, <1>5, TasksAssumption, <1>13 DEF KillFits
  <1> QED BY <1>6, <1>7, <1>8, <1>9, <1>10, <1>11, <1>12, <1>13 DEF ProcInv

-----------------------------------------------------------------------------
(* The theorems                                                            *)

\* After userinit() only the first process is in use.
LEMMA ProcInitInv == ProcInit => ProcInv
  <1> SUFFICES ASSUME ProcInit PROVE ProcInv
    OBVIOUS
  <1>1. ProcTypes
    BY DEF ProcInit, ProcTypes, Places
  <1>2. /\ state[InitTask] = "RUNNABLE" /\ place[InitTask] = "user"
        /\ \A x \in Tasks \ {InitTask} : state[x] = "UNUSED" /\ place[x] = "none"
        /\ \A x \in Tasks : parent[x] = NoTask /\ lk[x] = "none" /\ ~killed[x]
        /\ plocks = {} /\ holder["wait"] = NoTask /\ holder["ticks"] = NoTask
    BY TasksAssumption DEF ProcInit
  <1>3. ASSUME NEW x \in Tasks
        PROVE  StateFits(x) /\ LockFits(x) /\ ForkFits(x)
    BY <1>2, <1>3, TasksAssumption DEF StateFits, LockFits, ForkFits
  <1>4. ASSUME NEW x \in Tasks
        PROVE  HasParent(x) /\ WaitFits(x) /\ KillFits(x)
    BY <1>2, <1>4, TasksAssumption DEF HasParent, WaitFits, WaitsForChild, KillFits
  <1> QED BY <1>1, <1>2, <1>3, <1>4 DEF ProcInv, InitStays

\* Every step keeps the invariant.
LEMMA ProcNextInv == ProcInv /\ [ProcNext]_taskVars => ProcInv'
  <1> SUFFICES ASSUME ProcInv, [ProcNext]_taskVars PROVE ProcInv'
    OBVIOUS
  <1>1. ASSUME NEW p \in Tasks, InKernel(p) PROVE ProcInv'
    <2>1. CASE ForkParent(p) \/ ForkRun(p)
      BY <2>1, ForkParentStep, ForkRunStep
    <2>2. CASE ExitReparent(p) \/ ExitZombie(p) \/ ExitSched(p)
      BY <2>2, ExitReparentStep, ExitZombieStep, ExitSchedStep
    <2>3. CASE WaitFails(p) \/ WaitSleep(p) \/ \E q \in Tasks : Reap(p, q)
      BY <2>3, WaitFailsStep, WaitSleepStep, ReapStep
    <2>4. CASE SleepLock(p) \/ SleepEnd(p) \/ Resume(p)
      BY <2>4, SleepLockStep, SleepEndStep, ResumeStep
    <2>5. CASE PauseLook(p)
      BY <2>5, PauseReturnStep, PauseSleepStep
    <2> QED BY <1>1, <2>1, <2>2, <2>3, <2>4, <2>5 DEF InKernel
  <1>2. ASSUME NEW p \in Tasks, NEW q \in Tasks, ForkAlloc(p, q) PROVE ProcInv'
    BY <1>2, ForkAllocStep
  <1>3. ASSUME NEW p \in Tasks, ExitLock(p) \/ WaitLock(p) \/ PauseLock(p) PROVE ProcInv'
    BY <1>3, ExitLockStep, WaitLockStep, PauseLockStep
  <1>4. ASSUME NEW p \in Tasks, Kill(p) \/ KillZero(p) PROVE ProcInv'
    BY <1>4, KillStep, KillZeroStep
  <1>5. CASE Tick
    BY <1>5, TickStep
  <1>6. CASE UNCHANGED taskVars
    <2>1. UNCHANGED <<state, parent, killed, chan, place, lk, holder, plocks, child, elapsed,
                      asked>>
      BY <1>6 DEF taskVars
    <2>2. ProcTypes' /\ InitStays'
      BY <2>1 DEF ProcInv, ProcTypes, InitStays
    <2>3. \A x \in Tasks : StateFits(x)' /\ LockFits(x)' /\ ForkFits(x)'
      BY <2>1 DEF ProcInv, StateFits, LockFits, ForkFits
    <2>4. \A x \in Tasks : HasParent(x)' /\ WaitFits(x)' /\ KillFits(x)'
      BY <2>1 DEF ProcInv, HasParent, WaitFits, WaitsForChild, KillFits
    <2> QED BY <2>2, <2>3, <2>4 DEF ProcInv
  <1> QED BY <1>1, <1>2, <1>3, <1>4, <1>5, <1>6 DEF ProcNext

\* The invariant holds in every state, for any number of processes.
THEOREM ProcInvariant == ProcSpec => []ProcInv
  BY ProcInitInv, ProcNextInv, PTL DEF ProcSpec

\* kfork(), kexit() with reparent(), kwait() and kkill(): every process has a parent that
\* can wait for it, an entry is freed only when its process has left the kernel stack, and
\* a process is killed only by a kill() since its entry was last freed.
THEOREM FamiliesAreSound == ProcSpec => []FamilySound
  <1>1. ProcInv => FamilySound
    <2> SUFFICES ASSUME ProcInv PROVE FamilySound
      OBVIOUS
    <2>1. Links /\ \A x \in Tasks : StateFits(x) /\ HasParent(x) /\ KillFits(x)
      BY LinksNow DEF ProcInv
    <2>2. ParentLives
      BY <2>1, TasksAssumption DEF ParentLives, Links, HasParent
    <2>3. ReapedIsGone /\ KilledIsMeant
      BY <2>1 DEF ReapedIsGone, KilledIsMeant, StateFits, KillFits
    <2> QED BY <2>2, <2>3 DEF FamilySound
  <1> QED BY <1>1, ProcInvariant, PTL

\* sleep() in kwait() against wakeup() in kexit(): a parent that sleeps has a child, and
\* none of its children has exited without waking it.
THEOREM NoExitIsLost == ProcSpec => []NoLostExit
  <1>1. ProcInv => NoLostExit
    <2> SUFFICES ASSUME ProcInv, NEW p \in Tasks, state[p] = "SLEEPING", chan[p] = p
                 PROVE  Kids(p) # {} /\ Zombies(p) = {}
      BY DEF NoLostExit
    <2>1. LockFits(p) /\ StateFits(p) /\ WaitFits(p)
      BY DEF ProcInv
    <2>2. lk[p] = "wait"
      BY <2>1, TasksAssumption DEF LockFits
    <2>3. /\ \E q \in Tasks : parent[q] = p
          /\ \A q \in Tasks : parent[q] = p => state[q] # "ZOMBIE"
      BY <2>1, <2>2 DEF WaitFits, WaitsForChild
    <2> QED BY <2>3 DEF Kids, Zombies
  <1> QED BY <1>1, ProcInvariant, PTL

-----------------------------------------------------------------------------
(* Least elements                                                          *)

\* A non-empty set of numbers has a least one.
LEMMA Least ==
    ASSUME NEW S \in SUBSET Nat, S # {}
    PROVE  \E k \in S : \A m \in S : k <= m
<1> DEFINE Less == {ss \in Nat \X Nat : ss[1] < ss[2]}
<1>1. IsWellFoundedOn(Less, Nat)
  BY NatLessThanWellFounded, Zenon DEF OpToRel
<1>2. PICK k \in S : \A m \in S : <<m, k>> \notin Less
  <2> HIDE DEF Less
  <2> QED
    BY <1>1, WFMin
<1>3. \A m \in S : ~ (m < k)
  BY <1>2
<1> QED
  BY <1>3
-----------------------------------------------------------------------------
(* Memory: its types                                                       *)

\* What a page of a process may hold, page tables, and the state that operators work on.
PageContents == {Hole} \union SUBSET Slots
Tables  == [root : 0 .. 1, high : 0 .. Levels, low : 0 .. Levels, map : [VPages -> PageContents]]
Panics  == {"none", "remap", "leaf"}
Kernels == [free : Nat, panic : Panics]
Loops   == [k : Kernels, t : Tables, ok : BOOLEAN]

\* The memory and page tables of k and t together are those of k1 and t1.
SameTotal(k, t, k1, t1) == k.free + TablePages(t) = k1.free + TablePages(t1)

\* All pages that table t maps are below page n.
Below(t, n) == \A v \in VPages : v >= n => t.map[v] = Hole
-----------------------------------------------------------------------------
(* Lemmas about numbers and loops                                          *)

\* What the constants are.
LEMMA MemoryConstants ==
    /\ InitSlot \in Slots /\ Levels \in Nat /\ TopPage \in Nat \ {0} /\ PgSize \in Nat \ {0}
    /\ VPages = 0 .. TopPage - 1 /\ IsFiniteSet(VPages)
    /\ Hole \notin SUBSET Slots /\ Hole # {} /\ {} \in PageContents
    /\ NPages \in Nat /\ NPages >= 2 + Levels
<1>1. IsFiniteSet(VPages)
  BY FS_Interval, MemoryAssumption DEF VPages
<1>2. "hole" \in Hole /\ "hole" \notin Slots
  BY MemoryAssumption DEF Hole
<1>3. Hole \notin SUBSET Slots /\ Hole # {}
  BY <1>2
<1>4. {} \in PageContents
  BY DEF PageContents
<1> QED
  BY <1>1, <1>3, <1>4, MemoryAssumption DEF VPages

\* The first page at or above a size.
LEMMA PgUpFacts ==
    ASSUME NEW x \in Nat
    PROVE  /\ PgUp(x) \in Nat /\ x <= PgUp(x) * PgSize
           /\ \A v \in Nat : v * PgSize < x <=> v < PgUp(x)
  BY MemoryConstants DEF PgUp

\* Larger sizes have no fewer pages.
LEMMA PgUpMonotone ==
    ASSUME NEW x \in Nat, NEW y \in Nat, x <= y
    PROVE  PgUp(x) <= PgUp(y)
<1>1. PgUp(x) \in Nat /\ PgUp(y) \in Nat
  BY PgUpFacts
<1>2. CASE PgUp(y) < PgUp(x)
  <2>1. PgUp(y) * PgSize < x
    BY <1>1, <1>2, PgUpFacts
  <2>2. y <= PgUp(y) * PgSize
    BY PgUpFacts
  <2> QED
    BY <1>1, <2>1, <2>2, MemoryConstants
<1> QED
  BY <1>1, <1>2

\* Sizes of whole pages.
LEMMA PgUpExact ==
    ASSUME NEW n \in Nat
    PROVE  n * PgSize \in Nat /\ PgUp(n * PgSize) = n
<1>1. n * PgSize \in Nat
  BY MemoryConstants
<1>2. PgUp(n * PgSize) \in Nat /\ \A v \in Nat : v * PgSize < n * PgSize <=> v < PgUp(n * PgSize)
  BY <1>1, PgUpFacts
<1>3. \A v \in Nat : v < n => v * PgSize < n * PgSize
  BY MemoryConstants
<1>4. ~ (n * PgSize < n * PgSize)
  BY <1>1
<1>5. ~ (n < PgUp(n * PgSize))
  BY <1>2, <1>4
<1>6. ~ (PgUp(n * PgSize) < n)
  BY <1>2, <1>3
<1> QED
  BY <1>1, <1>2, <1>5, <1>6

\* The states of a loop whose body is F, from s on.
RunOf(g, s, F, n) == g[0] = s /\ \A i \in 1 .. n : g[i] = F[<<g[i - 1], i>>]

\* The functions of n rounds to S.
RoundsIn(S, n) == [0 .. n -> S]

\* A loop of n rounds runs: it has a state after each.
LEMMA LoopRuns ==
    ASSUME NEW S, NEW s \in S, NEW F \in [S \X Nat -> S], NEW n \in Nat
    PROVE  \E g \in RoundsIn(S, n) : RunOf(g, s, F, n)
<1> SUFFICES \E g \in [0 .. n -> S] : g[0] = s /\ \A i \in 1 .. n : g[i] = F[<<g[i - 1], i>>]
  BY DEF RunOf, RoundsIn
<1> DEFINE Run(g, m) == /\ g \in [0 .. m -> S] /\ g[0] = s
                        /\ \A i \in 1 .. m : g[i] = F[<<g[i - 1], i>>]
           Bad == {m \in Nat : ~ \E g \in [0 .. m -> S] : Run(g, m)}
<1>1. CASE Bad = {}
  BY <1>1
<1>2. CASE Bad # {}
  <2>1. PICK m \in Bad : \A j \in Bad : m <= j
    <3>1. Bad \in SUBSET Nat
      OBVIOUS
    <3> HIDE DEF Bad
    <3> QED
      BY <1>2, <3>1, Least
  <2>2. m # 0
    <3>1. ASSUME m = 0
          PROVE  FALSE
      <4> DEFINE g == [i \in 0 .. 0 |-> s]
      <4>1. g \in [0 .. 0 -> S] /\ g[0] = s /\ 1 .. 0 = {}
        OBVIOUS
      <4>2. Run(g, 0)
        BY <4>1
      <4> QED
        BY <3>1, <4>1, <4>2
    <3> QED
      BY <3>1
  <2>3. m - 1 \in Nat /\ m - 1 \notin Bad
    <3>1. m \in Nat
      BY <2>1
    <3> HIDE DEF Bad
    <3> QED
      BY <2>1, <2>2, <3>1
  <2>4. PICK g \in [0 .. m - 1 -> S] : Run(g, m - 1)
    BY <2>3
  <2> DEFINE h == [i \in 0 .. m |-> IF i = m THEN F[<<g[m - 1], m>>] ELSE g[i]]
  <2>5. g[m - 1] \in S /\ m \in Nat
    BY <2>3, <2>4
  <2>6. h \in [0 .. m -> S]
    <3>1. F[<<g[m - 1], m>>] \in S
      BY <2>5
    <3>2. \A i \in 0 .. m : i # m => g[i] \in S
      BY <2>3, <2>4
    <3> QED
      BY <3>1, <3>2
  <2>7. h[0] = s
    BY <2>2, <2>3, <2>4
  <2>8. \A i \in 1 .. m : h[i] = F[<<h[i - 1], i>>]
    <3> SUFFICES ASSUME NEW i \in 1 .. m
                 PROVE  h[i] = F[<<h[i - 1], i>>]
      OBVIOUS
    <3>1. h[i - 1] = g[i - 1]
      BY <2>3
    <3>2. CASE i = m
      BY <3>1, <3>2
    <3>3. CASE i # m
      <4>1. i \in 1 .. m - 1
        BY <2>3, <3>3
      <4>2. h[i] = g[i]
        BY <4>1
      <4> QED
        BY <2>4, <3>1, <4>1, <4>2
    <3> QED
      BY <3>2, <3>3
  <2> HIDE DEF h
  <2>9. Run(h, m)
    BY <2>6, <2>7, <2>8
  <2> QED
    BY <2>1, <2>6, <2>9
<1> QED
  BY <1>1, <1>2
-----------------------------------------------------------------------------
(* Counting pages                                                          *)

\* A table maps a number of pages, at most all of them.
LEMMA MappedFacts ==
    ASSUME NEW t, NEW range \in SUBSET VPages
    PROVE  Mapped(t, range) \in Nat /\ IsFiniteSet({v \in range : t.map[v] # Hole})
<1>1. {v \in range : t.map[v] # Hole} \in SUBSET VPages
  OBVIOUS
<1>2. IsFiniteSet({v \in range : t.map[v] # Hole})
  BY <1>1, MemoryConstants, FS_Subset
<1> QED
  BY <1>2, FS_CardinalityType DEF Mapped

\* Tables that map the same pages have the same number.
LEMMA MappedSame ==
    ASSUME NEW t, NEW u, \A v \in VPages : t.map[v] = Hole <=> u.map[v] = Hole
    PROVE  Mapped(t, VPages) = Mapped(u, VPages)
<1>1. {v \in VPages : t.map[v] # Hole} = {v \in VPages : u.map[v] # Hole}
  OBVIOUS
<1> QED
  BY <1>1 DEF Mapped

\* One more page is mapped.
LEMMA MappedOneMore ==
    ASSUME NEW t, NEW u, NEW v \in VPages, t.map[v] = Hole, u.map[v] # Hole,
           \A x \in VPages : x # v => u.map[x] = t.map[x]
    PROVE  Mapped(u, VPages) = Mapped(t, VPages) + 1
<1> DEFINE A == {x \in VPages : t.map[x] # Hole}
           B == {x \in VPages : u.map[x] # Hole}
<1>1. B = A \union {v} /\ v \notin A
  OBVIOUS
<1>2. IsFiniteSet(A)
  BY MappedFacts
<1>3. Mapped(t, VPages) = Cardinality(A) /\ Mapped(u, VPages) = Cardinality(B)
  BY DEF Mapped
<1> HIDE DEF A, B
<1> QED
  BY <1>1, <1>2, <1>3, FS_AddElement

\* The pages in range are unmapped.
LEMMA MappedWithout ==
    ASSUME NEW t, NEW u, NEW range \in SUBSET VPages,
           \A v \in VPages : u.map[v] = IF v \in range THEN Hole ELSE t.map[v]
    PROVE  Mapped(t, VPages) = Mapped(t, range) + Mapped(u, VPages)
<1> DEFINE A == {x \in VPages : t.map[x] # Hole}
           B == {x \in VPages : u.map[x] # Hole}
           C == {x \in range : t.map[x] # Hole}
<1>1. A = B \union C /\ B \intersect C = {}
  OBVIOUS
<1>2. IsFiniteSet(B) /\ IsFiniteSet(C)
  BY MappedFacts
<1>3. /\ Mapped(t, VPages) = Cardinality(A) /\ Mapped(u, VPages) = Cardinality(B)
      /\ Mapped(t, range) = Cardinality(C)
  BY DEF Mapped
<1> HIDE DEF A, B, C
<1>4. Cardinality(B \intersect C) = 0
  BY <1>1, FS_EmptySet
<1>5. Cardinality(B) \in Nat /\ Cardinality(C) \in Nat
  BY <1>2, FS_CardinalityType
<1>6. Cardinality(B \union C) = Cardinality(B) + Cardinality(C) - Cardinality(B \intersect C)
  BY <1>2, FS_Union
<1> QED
  BY <1>1, <1>3, <1>4, <1>5, <1>6

\* No page is mapped.
LEMMA MappedNone ==
    ASSUME NEW t, \A v \in VPages : t.map[v] = Hole
    PROVE  Mapped(t, VPages) = 0
<1>1. {v \in VPages : t.map[v] # Hole} = {}
  OBVIOUS
<1> QED
  BY <1>1, FS_EmptySet DEF Mapped

\* The table that is none.
LEMMA NoTableFacts ==
    /\ NoTable \in Tables /\ TablePages(NoTable) = 0 /\ \A v \in VPages : NoTable.map[v] = Hole
    /\ NoTable = [root |-> 0, high |-> 0, low |-> 0, map |-> [v \in VPages |-> Hole]]
<1>1. \A v \in VPages : NoTable.map[v] = Hole
  BY DEF NoTable
<1>2. Mapped(NoTable, VPages) = 0
  BY <1>1, MappedNone
<1>3. [v \in VPages |-> Hole] \in [VPages -> PageContents]
  <2>1. Hole \in PageContents
    BY DEF PageContents
  <2> QED
    BY <2>1
<1>4. 0 \in 0 .. Levels /\ 0 \in 0 .. 1
  BY MemoryConstants
<1>5. NoTable \in Tables
  BY <1>3, <1>4 DEF NoTable, Tables
<1> QED
  BY <1>1, <1>2, <1>5 DEF TablePages, NoTable

\* The pages of a table are a number.
LEMMA TablePagesType ==
    ASSUME NEW t \in Tables
    PROVE  TablePages(t) \in Nat
<1>1. t.root \in Nat /\ t.high \in Nat /\ t.low \in Nat
  BY MemoryConstants DEF Tables
<1>2. Mapped(t, VPages) \in Nat
  BY MappedFacts
<1> QED
  BY <1>1, <1>2 DEF TablePages
-----------------------------------------------------------------------------
(* Operators that allocate                                                 *)

\* walk() allocates page table pages, as many as it needs or as there are.
LEMMA WalkFacts ==
    ASSUME NEW k \in Kernels, NEW n \in 0 .. Levels
    PROVE  /\ Walked(k, n) \in 0 .. Levels /\ n <= Walked(k, n)
           /\ WalkAlloc(k, n) = [free |-> k.free - (Walked(k, n) - n), panic |-> k.panic]
           /\ WalkAlloc(k, n) \in Kernels
<1>1. k.free \in Nat /\ k.panic \in Panics /\ k = [free |-> k.free, panic |-> k.panic]
  BY DEF Kernels
<1>2. Walked(k, n) \in 0 .. Levels /\ n <= Walked(k, n) /\ Walked(k, n) - n <= k.free
  BY <1>1, MemoryConstants DEF Walked
<1>3. WalkAlloc(k, n) = [free |-> k.free - (Walked(k, n) - n), panic |-> k.panic]
  BY <1>1 DEF WalkAlloc
<1>4. k.free - (Walked(k, n) - n) \in Nat
  BY <1>1, <1>2, MemoryConstants
<1> QED
  BY <1>1, <1>2, <1>3, <1>4 DEF Kernels

\* What a loop body does to state r: r1 has the same memory in all, and its table the same
\* pages but for page v, which may have become content.
Adds(r, r1, v, content) ==
    /\ r1 \in Loops
    /\ SameTotal(r1.k, r1.t, r.k, r.t)
    /\ r1.k.panic = r.k.panic
    /\ r1.t.root = r.t.root /\ r1.t.high = r.t.high
    /\ \A x \in VPages : x # v => r1.t.map[x] = r.t.map[x]
    /\ r1.t.map[v] \in {Hole, content}

\* A page table with low page table pages below its root.
WithLow(t, low) == [t EXCEPT !.low = low]

\* A page table with content at v.
WithPage(t, v, content) == [t EXCEPT !.map[v] = content]

\* Those tables, by their fields.
LEMMA WithFacts ==
    ASSUME NEW t \in Tables, NEW low \in 0 .. Levels, NEW v \in VPages, NEW content \in PageContents
    PROVE  /\ WithLow(t, low) = [root |-> t.root, high |-> t.high, low |-> low, map |-> t.map]
           /\ WithLow(t, low) \in Tables
           /\ WithPage(t, v, content) = [root |-> t.root, high |-> t.high, low |-> t.low,
                                         map |-> [t.map EXCEPT ![v] = content]]
           /\ WithPage(t, v, content) \in Tables
<1>1. /\ t = [root |-> t.root, high |-> t.high, low |-> t.low, map |-> t.map]
      /\ t.root \in 0 .. 1 /\ t.high \in 0 .. Levels /\ t.low \in 0 .. Levels
      /\ t.map \in [VPages -> PageContents]
  BY DEF Tables
<1>2. WithLow(t, low) = [root |-> t.root, high |-> t.high, low |-> low, map |-> t.map]
  BY <1>1 DEF WithLow
<1>3. WithPage(t, v, content) = [root |-> t.root, high |-> t.high, low |-> t.low,
                                 map |-> [t.map EXCEPT ![v] = content]]
  BY <1>1 DEF WithPage
<1>4. [t.map EXCEPT ![v] = content] \in [VPages -> PageContents]
  BY <1>1
<1>5. WithLow(t, low) \in Tables
  BY <1>1, <1>2 DEF Tables
<1>6. WithPage(t, v, content) \in Tables
  BY <1>1, <1>3, <1>4 DEF Tables
<1> QED
  BY <1>2, <1>3, <1>5, <1>6

\* The state after kalloc(), by its fields.
LEMMA KernelFacts ==
    ASSUME NEW k \in Kernels, NEW n \in Nat
    PROVE  /\ k = [free |-> k.free, panic |-> k.panic] /\ k.free \in Nat /\ k.panic \in Panics
           /\ Kalloc(k) = [free |-> k.free - 1, panic |-> k.panic]
           /\ k.free > 0 => Kalloc(k) \in Kernels
           /\ Kfree(k, n) = [free |-> k.free + n, panic |-> k.panic] /\ Kfree(k, n) \in Kernels
<1>1. k = [free |-> k.free, panic |-> k.panic] /\ k.free \in Nat /\ k.panic \in Panics
  BY DEF Kernels
<1>2. Kalloc(k) = [free |-> k.free - 1, panic |-> k.panic]
  BY <1>1 DEF Kalloc
<1>3. Kfree(k, n) = [free |-> k.free + n, panic |-> k.panic]
  BY <1>1 DEF Kfree
<1> QED
  BY <1>1, <1>2, <1>3 DEF Kernels

\* The cases of a loop body: it fails at once, in the page table, or not.
LEMMA AddPageCases ==
    ASSUME NEW r \in Loops, NEW v \in VPages, NEW content
    PROVE  LET k  == Kalloc(r.k)
               t  == WithLow(r.t, Walked(k, r.t.low))
               w  == WalkAlloc(k, r.t.low)
               r1 == AddPage(r, v, content)
           IN  \/ r1 = [k |-> r.k, t |-> r.t, ok |-> FALSE]
               \/ r.k.free > 0 /\ r1 = [k |-> Kfree(w, 1), t |-> t, ok |-> FALSE]
               \/ /\ r.k.free > 0 /\ t.map[v] # Hole
                  /\ r1 = [k |-> [w EXCEPT !.panic = "remap"], t |-> t, ok |-> TRUE]
               \/ /\ r.k.free > 0 /\ t.map[v] = Hole
                  /\ r1 = [k |-> w, t |-> WithPage(t, v, content), ok |-> TRUE]
<1> DEFINE k == Kalloc(r.k)
           t == WithLow(r.t, Walked(k, r.t.low))
           w == WalkAlloc(k, r.t.low)
           m == Mappages([r EXCEPT !.k = Kalloc(@)], v, content)
           q == [k |-> k, t |-> r.t, ok |-> r.ok]
<1>1. r = [k |-> r.k, t |-> r.t, ok |-> r.ok] /\ r.k.free \in Nat /\ r.ok \in BOOLEAN
  BY DEF Loops, Kernels
<1>2. [r EXCEPT !.k = Kalloc(@)] = q /\ q.k = k /\ q.t = r.t
  BY <1>1
<1>3. AddPage(r, v, content) = IF ~ r.ok \/ r.k.free = 0 THEN [r EXCEPT !.ok = FALSE]
                               ELSE IF ~ m.ok THEN [m EXCEPT !.k = Kfree(m.k, 1)] ELSE m
  BY DEF AddPage, Memset
<1>4. m = Mappages(q, v, content)
  BY <1>2
<1> HIDE DEF q, k, m
<1>5. m = IF t.low # Levels THEN [k |-> w, t |-> t, ok |-> FALSE]
          ELSE IF t.map[v] # Hole
          THEN [k |-> [w EXCEPT !.panic = "remap"], t |-> t, ok |-> TRUE]
          ELSE [k |-> w, t |-> WithPage(t, v, content), ok |-> TRUE]
  BY <1>2, <1>4 DEF Mappages, WithLow, WithPage
<1> HIDE DEF w, t
<1>6. CASE ~ r.ok \/ r.k.free = 0
  BY <1>1, <1>3, <1>6 DEF k, t, w
<1>7. CASE r.ok /\ r.k.free # 0
  <2>1. AddPage(r, v, content) = IF ~ m.ok THEN [m EXCEPT !.k = Kfree(m.k, 1)] ELSE m
    BY <1>3, <1>7
  <2>2. r.k.free > 0
    BY <1>1, <1>7
  <2>3. CASE t.low # Levels
    <3>1. m = [k |-> w, t |-> t, ok |-> FALSE]
      BY <1>5, <2>3
    <3> DEFINE f  == Kfree(w, 1)
               no == FALSE
    <3>2. m.k = w /\ m = [k |-> w, t |-> t, ok |-> no]
      BY <3>1
    <3>3. Kfree(m.k, 1) = f
      BY <3>2
    <3> HIDE DEF f, no
    <3>4. [m EXCEPT !.k = f] = [k |-> f, t |-> t, ok |-> no]
      BY <3>2
    <3>5. [m EXCEPT !.k = Kfree(m.k, 1)] = [k |-> Kfree(w, 1), t |-> t, ok |-> FALSE]
      BY <3>3, <3>4 DEF f, no
    <3> QED
      BY <2>1, <2>2, <3>1, <3>5 DEF k, t, w
  <2>4. CASE t.low = Levels /\ t.map[v] # Hole
    <3>1. m = [k |-> [w EXCEPT !.panic = "remap"], t |-> t, ok |-> TRUE]
      BY <1>5, <2>4
    <3> QED
      BY <2>1, <2>2, <2>4, <3>1 DEF k, t, w
  <2>5. CASE t.low = Levels /\ t.map[v] = Hole
    <3>1. m = [k |-> w, t |-> WithPage(t, v, content), ok |-> TRUE]
      BY <1>5, <2>5
    <3> QED
      BY <2>1, <2>2, <2>5, <3>1 DEF k, t, w
  <2> QED
    BY <2>3, <2>4, <2>5
<1> QED
  BY <1>1, <1>6, <1>7

\* Whatever is at v, a page that is added leaves a state of the right type.  If no page was
\* mapped there, it is added in the sense above.
LEMMA AddPageFacts ==
    ASSUME NEW r \in Loops, NEW v \in VPages, NEW content \in SUBSET Slots
    PROVE  /\ AddPage(r, v, content) \in Loops
           /\ r.t.map[v] = Hole => Adds(r, AddPage(r, v, content), v, content)
<1> DEFINE k   == Kalloc(r.k)
           low == Walked(k, r.t.low)
           t   == WithLow(r.t, low)
           w   == WalkAlloc(k, r.t.low)
           u   == WithPage(t, v, content)
           r1  == AddPage(r, v, content)
           N   == Mapped(r.t, VPages)
<1>1. /\ r.k \in Kernels /\ r.t \in Tables /\ r.ok \in BOOLEAN
      /\ r.t.low \in 0 .. Levels /\ r.t.root \in 0 .. 1 /\ r.t.high \in 0 .. Levels
      /\ r.t.map \in [VPages -> PageContents]
  BY DEF Loops, Tables
<1>2. \/ r1 = [k |-> r.k, t |-> r.t, ok |-> FALSE]
      \/ r.k.free > 0 /\ r1 = [k |-> Kfree(w, 1), t |-> t, ok |-> FALSE]
      \/ /\ r.k.free > 0 /\ t.map[v] # Hole
         /\ r1 = [k |-> [w EXCEPT !.panic = "remap"], t |-> t, ok |-> TRUE]
      \/ /\ r.k.free > 0 /\ t.map[v] = Hole
         /\ r1 = [k |-> w, t |-> u, ok |-> TRUE]
  BY AddPageCases
<1>3. content \in PageContents /\ content # Hole
  BY MemoryConstants DEF PageContents
<1>4. N \in Nat
  BY MappedFacts
<1>5. ASSUME r.k.free > 0
      PROVE  /\ w \in Kernels /\ w.free = r.k.free - 1 - (low - r.t.low) /\ w.panic = r.k.panic
             /\ low \in 0 .. Levels
  <2>1. k \in Kernels /\ k = [free |-> r.k.free - 1, panic |-> r.k.panic]
    BY <1>1, <1>5, KernelFacts
  <2> HIDE DEF k
  <2>2. low \in 0 .. Levels /\ w \in Kernels
        /\ w = [free |-> k.free - (low - r.t.low), panic |-> k.panic]
    BY <1>1, <2>1, WalkFacts
  <2> QED
    BY <2>1, <2>2
<1>6. ASSUME r.k.free > 0
      PROVE  /\ t \in Tables /\ u \in Tables
             /\ t.root = r.t.root /\ t.high = r.t.high /\ t.low = low /\ t.map = r.t.map
             /\ u.root = r.t.root /\ u.high = r.t.high /\ u.low = low
             /\ u.map[v] = content /\ \A x \in VPages : x # v => u.map[x] = r.t.map[x]
  <2>1. low \in 0 .. Levels
    BY <1>5, <1>6
  <2> HIDE DEF low
  <2>2. t \in Tables /\ t = [root |-> r.t.root, high |-> r.t.high, low |-> low, map |-> r.t.map]
    BY <1>1, <1>3, <2>1, WithFacts
  <2>3. t.root = r.t.root /\ t.high = r.t.high /\ t.low = low /\ t.map = r.t.map
    BY <2>2
  <2> HIDE DEF t
  <2>4. u \in Tables /\ u = [root |-> t.root, high |-> t.high, low |-> t.low,
                             map |-> [t.map EXCEPT ![v] = content]]
    BY <1>1, <1>3, <2>1, <2>2, WithFacts
  <2>5. u.root = t.root /\ u.high = t.high /\ u.low = t.low /\ u.map = [t.map EXCEPT ![v] = content]
    BY <2>4
  <2>6. u.map[v] = content /\ \A x \in VPages : x # v => u.map[x] = r.t.map[x]
    BY <1>1, <2>3, <2>5
  <2> QED
    BY <2>2, <2>3, <2>4, <2>5, <2>6
<1>7. r.k.free \in Nat /\ r.k.panic \in Panics
  BY <1>1, KernelFacts
<1>12. /\ TablePages(r.t) = r.t.root + r.t.high + r.t.low + N
       /\ r.k.free \in Int /\ r.t.root \in Int /\ r.t.high \in Int /\ r.t.low \in Int /\ N \in Int
       /\ \A i \in 0 .. Levels : i \in Int
  BY <1>1, <1>4, <1>7, MemoryConstants DEF TablePages
<1> HIDE DEF N
<1> HIDE DEF r1, w, t, u, k, low
<1>8. CASE r1 = [k |-> r.k, t |-> r.t, ok |-> FALSE]
  <2>1. r1 \in Loops
    BY <1>1, <1>8 DEF Loops
  <2>2. r1.k = r.k /\ r1.t = r.t
    BY <1>8
  <2> QED
    BY <2>1, <2>2 DEF Adds, SameTotal, r1
<1>9. CASE r.k.free > 0 /\ r1 = [k |-> Kfree(w, 1), t |-> t, ok |-> FALSE]
  <2>1. Kfree(w, 1) \in Kernels /\ Kfree(w, 1) = [free |-> w.free + 1, panic |-> w.panic]
    BY <1>5, <1>9, KernelFacts
  <2>2. r1 \in Loops
    BY <1>6, <1>9, <2>1 DEF Loops
  <2>3. r1.k.free = w.free + 1 /\ r1.k.panic = w.panic /\ r1.t = t
    BY <1>9, <2>1
  <2>4. Mapped(t, VPages) = N
    BY <1>6, <1>9, MappedSame DEF N
  <2>5. r1.k.free = r.k.free - 1 - (low - r.t.low) + 1
    BY <1>5, <1>9, <2>3
  <2>6. TablePages(t) = t.root + t.high + t.low + N
    BY <2>4 DEF TablePages
  <2>7. r1.k.free + TablePages(r1.t) = r.k.free + TablePages(r.t)
    BY <1>5, <1>6, <1>9, <1>12, <2>3, <2>5, <2>6
  <2> QED
    BY <1>5, <1>6, <1>9, <2>2, <2>3, <2>7 DEF Adds, SameTotal, r1
<1>10. CASE r.k.free > 0 /\ t.map[v] # Hole
            /\ r1 = [k |-> [w EXCEPT !.panic = "remap"], t |-> t, ok |-> TRUE]
  <2>1. [w EXCEPT !.panic = "remap"] \in Kernels
    <3> DEFINE s == "remap"
    <3>1. w \in Kernels /\ s \in Panics
      BY <1>5, <1>10 DEF Panics
    <3> HIDE DEF s
    <3>2. [w EXCEPT !.panic = s] \in Kernels
      BY <3>1 DEF Kernels
    <3> QED
      BY <3>2 DEF s
  <2>2. r1 \in Loops
    BY <1>6, <1>10, <2>1 DEF Loops
  <2> QED
    BY <1>6, <1>10, <2>2 DEF r1
<1>11. CASE r.k.free > 0 /\ t.map[v] = Hole /\ r1 = [k |-> w, t |-> u, ok |-> TRUE]
  <2>1. r1 \in Loops
    BY <1>5, <1>6, <1>11 DEF Loops
  <2>2. r1.k = w /\ r1.t = u
    BY <1>11
  <2>3. Mapped(u, VPages) = N + 1
    BY <1>3, <1>6, <1>11, MappedOneMore DEF N
  <2>4. TablePages(u) = u.root + u.high + u.low + (N + 1)
    BY <2>3 DEF TablePages
  <2>5. r1.k.free = r.k.free - 1 - (low - r.t.low)
    BY <1>5, <1>11, <2>2
  <2>6. r1.k.free + TablePages(r1.t) = r.k.free + TablePages(r.t)
    <3>1. r1.k.free + TablePages(r1.t) = r.k.free - 1 - (low - r.t.low) + (r.t.root + r.t.high + low + (N + 1))
      BY <1>6, <1>11, <2>2, <2>4, <2>5
    <3>2. /\ low \in Int /\ r.k.free \in Int /\ r.t.root \in Int /\ r.t.high \in Int /\ r.t.low \in Int
          /\ N \in Int
      BY <1>5, <1>11, <1>12
    <3> QED
      BY <1>12, <3>1, <3>2
  <2> QED
    BY <1>5, <1>6, <1>11, <2>1, <2>2, <2>6 DEF Adds, SameTotal, r1
<1> QED
  BY <1>2, <1>8, <1>9, <1>10, <1>11
-----------------------------------------------------------------------------
(* The loops of uvmalloc() and uvmcopy()                                   *)

\* The rounds of a loop: its state after each.
Rounds(g, k, t, first, n, c) ==
    /\ g[0] = [k |-> k, t |-> t, ok |-> TRUE]
    /\ \A i \in 1 .. n : g[i] = IF c[first + i - 1] = Hole THEN g[i - 1]
                                ELSE AddPage(g[i - 1], first + i - 1, c[first + i - 1])

\* What the first n rounds do to memory k and table t.
Added(r, k, t, first, n, c) ==
    /\ r \in Loops
    /\ SameTotal(r.k, r.t, k, t)
    /\ r.k.panic = k.panic
    /\ r.t.root = t.root /\ r.t.high = t.high
    /\ \A v \in VPages : IF first <= v /\ v < first + n THEN r.t.map[v] \in {Hole, c[v]}
                         ELSE r.t.map[v] = t.map[v]

\* The loop has such rounds, and ends as the last one does.
LEMMA AddPagesRounds ==
    ASSUME NEW k \in Kernels, NEW t \in Tables, NEW first \in Nat, NEW n \in Nat,
           first + n <= TopPage, NEW c \in [VPages -> PageContents]
    PROVE  \E g \in [0 .. n -> Loops] :
               Rounds(g, k, t, first, n, c) /\ AddPages(k, t, first, n, c) = g[n]
<1> DEFINE s == [k |-> k, t |-> t, ok |-> TRUE]
           Body(r, i) == IF c[first + i - 1] = Hole THEN r
                         ELSE AddPage(r, first + i - 1, c[first + i - 1])
           F == [x \in Loops \X Nat |-> IF x[2] \in 1 .. n THEN Body(x[1], x[2]) ELSE x[1]]
<1>1. s \in Loops
  BY DEF Loops
<1>2. \A r \in Loops, i \in 1 .. n : Body(r, i) \in Loops
  <2> SUFFICES ASSUME NEW r \in Loops, NEW i \in 1 .. n
               PROVE  Body(r, i) \in Loops
    OBVIOUS
  <2>1. first + i - 1 \in VPages
    BY MemoryConstants
  <2>2. c[first + i - 1] \in PageContents
    BY <2>1
  <2>3. CASE c[first + i - 1] = Hole
    BY <2>3
  <2>4. CASE c[first + i - 1] # Hole
    <3>1. c[first + i - 1] \in SUBSET Slots
      BY <2>2, <2>4 DEF PageContents
    <3>2. AddPage(r, first + i - 1, c[first + i - 1]) \in Loops
      BY <2>1, <3>1, AddPageFacts
    <3> QED
      BY <2>4, <3>2
  <2> QED
    BY <2>3, <2>4
<1> HIDE DEF Body, s
<1>3. F \in [Loops \X Nat -> Loops]
  BY <1>2
<1>4. \A r \in Loops, i \in 1 .. n : F[<<r, i>>] = Body(r, i)
  OBVIOUS
<1> HIDE DEF F
<1>5. PICK g \in [0 .. n -> Loops] : g[0] = s /\ \A i \in 1 .. n : g[i] = F[<<g[i - 1], i>>]
  <2> DEFINE S == Loops
  <2>1. s \in S /\ F \in [S \X Nat -> S]
    BY <1>1, <1>3
  <2> HIDE DEF S
  <2>2. \E g \in RoundsIn(S, n) : RunOf(g, s, F, n)
    BY <2>1, LoopRuns
  <2> QED
    BY <2>2 DEF S, RunOf, RoundsIn
<1>6. \A i \in 1 .. n : i - 1 \in 0 .. n /\ g[i] = Body(g[i - 1], i)
  <2> SUFFICES ASSUME NEW i \in 1 .. n
               PROVE  i - 1 \in 0 .. n /\ g[i] = Body(g[i - 1], i)
    OBVIOUS
  <2>1. i - 1 \in 0 .. n /\ g[i - 1] \in Loops
    OBVIOUS
  <2> QED
    BY <1>4, <1>5, <2>1
<1> DEFINE Runs1(h) == h = [i \in 0 .. n |-> IF i = 0 THEN s ELSE Body(h[i - 1], i)]
           go == CHOOSE h : Runs1(h)
<1>7. Runs1(g)
  <2>1. \A i \in 0 .. n : i # 0 => i \in 1 .. n
    OBVIOUS
  <2>2. \A i \in 0 .. n : g[i] = IF i = 0 THEN s ELSE Body(g[i - 1], i)
    BY <1>5, <1>6, <2>1
  <2> QED
    BY <2>2
<1>8. Runs1(go)
  <2> HIDE DEF Runs1
  <2> QED
    BY <1>7
<1>9. AddPages(k, t, first, n, c) = go[n]
  BY Zenon DEF AddPages, Body, s
<1> HIDE DEF go
<1>10. \A i \in 0 .. n : go[i] = g[i]
  <2> DEFINE Bad == {i \in 0 .. n : go[i] # g[i]}
  <2>1. CASE Bad = {}
    BY <2>1
  <2>2. CASE Bad # {}
    <3>1. PICK m \in Bad : \A j \in Bad : m <= j
      <4>1. Bad \in SUBSET Nat
        OBVIOUS
      <4> HIDE DEF Bad
      <4> QED
        BY <2>2, <4>1, Least
    <3>2. go[0] = s
      BY <1>8
    <3>3. m \in 1 .. n
      BY <1>5, <3>1, <3>2
    <3>4. m - 1 \in 0 .. n /\ m - 1 \notin Bad
      <4>1. m - 1 \in 0 .. n /\ ~ (m <= m - 1)
        BY <3>3
      <4> HIDE DEF Bad
      <4> QED
        BY <3>1, <4>1
    <3>5. go[m - 1] = g[m - 1]
      BY <3>4
    <3>6. go[m] = Body(go[m - 1], m)
      BY <1>8, <3>3
    <3> QED
      BY <1>6, <3>1, <3>3, <3>5, <3>6
  <2> QED
    BY <2>1, <2>2
<1>11. AddPages(k, t, first, n, c) = g[n]
  BY <1>9, <1>10
<1>12. Rounds(g, k, t, first, n, c)
  BY <1>5, <1>6 DEF Rounds, Body, s
<1> QED
  BY <1>11, <1>12

\* The loop keeps the memory there is, and maps only pages of its range.
LEMMA AddPagesFacts ==
    ASSUME NEW k \in Kernels, NEW t \in Tables, NEW first \in Nat, NEW n \in Nat,
           first + n <= TopPage, NEW c \in [VPages -> PageContents],
           \A v \in VPages : first <= v /\ v < first + n => t.map[v] = Hole
    PROVE  Added(AddPages(k, t, first, n, c), k, t, first, n, c)
<1>1. PICK g \in [0 .. n -> Loops] :
          Rounds(g, k, t, first, n, c) /\ AddPages(k, t, first, n, c) = g[n]
  BY AddPagesRounds
<1> DEFINE Bad == {i \in 0 .. n : ~ Added(g[i], k, t, first, i, c)}
<1>2. CASE Bad = {}
  <2>1. n \in 0 .. n
    OBVIOUS
  <2> QED
    BY <1>1, <1>2, <2>1
<1>3. CASE Bad # {}
  <2>1. PICK m \in Bad : \A j \in Bad : m <= j
    <3>1. Bad \in SUBSET Nat
      OBVIOUS
    <3> HIDE DEF Bad
    <3> QED
      BY <1>3, <3>1, Least
  <2>2. m \in 0 .. n /\ ~ Added(g[m], k, t, first, m, c)
    BY <2>1
  <2>3. m # 0
    <3>0. 0 \in 0 .. n
      OBVIOUS
    <3>1. g[0] = [k |-> k, t |-> t, ok |-> TRUE] /\ g[0] \in Loops
      BY <1>1, <3>0 DEF Rounds
    <3>2. g[0].k = k /\ g[0].t = t
      BY <3>1
    <3>3. \A v \in VPages : ~ (first <= v /\ v < first + 0)
      BY MemoryConstants
    <3>4. Added(g[0], k, t, first, 0, c)
      BY <3>1, <3>2, <3>3 DEF Added, SameTotal
    <3> QED
      BY <2>2, <3>4
  <2>4. m \in 1 .. n /\ m - 1 \in 0 .. n /\ ~ (m <= m - 1)
    BY <2>2, <2>3
  <2> DEFINE r == g[m - 1]
             w == first + m - 1
  <2>5. m - 1 \notin Bad
    <3> HIDE DEF Bad
    <3> QED
      BY <2>1, <2>4
  <2>6. Added(r, k, t, first, m - 1, c) /\ r \in Loops
    BY <2>4, <2>5
  <2>7. g[m] = IF c[w] = Hole THEN r ELSE AddPage(r, w, c[w])
    BY <1>1, <2>4 DEF Rounds
  <2>8. /\ w \in VPages /\ first <= w /\ w < first + m /\ ~ (w < first + (m - 1))
        /\ \A v \in VPages : v # w => (v < first + m <=> v < first + (m - 1))
    BY <2>4, MemoryConstants
  <2>9. t.map[w] = Hole /\ r.t.map[w] = Hole
    <3>1. w < first + n
      BY <2>4, <2>8
    <3> QED
      BY <2>6, <2>8, <3>1 DEF Added
  <2> HIDE DEF r, w, Bad
  <2>10. CASE c[w] = Hole
    <3>1. g[m] = r
      BY <2>7, <2>10
    <3>2. Added(r, k, t, first, m, c)
      BY <2>6, <2>8, <2>9, <2>10 DEF Added
    <3> QED
      BY <2>2, <3>1, <3>2
  <2>11. CASE c[w] # Hole
    <3> DEFINE r1 == AddPage(r, w, c[w])
    <3>1. c[w] \in SUBSET Slots
      <4>1. c[w] \in PageContents
        BY <2>8
      <4> QED
        BY <2>11, <4>1 DEF PageContents
    <3>2. Adds(r, r1, w, c[w])
      BY <2>6, <2>8, <2>9, <3>1, AddPageFacts
    <3>3. g[m] = r1
      BY <2>7, <2>11
    <3> HIDE DEF r1
    <3>4. \A v \in VPages : IF first <= v /\ v < first + m THEN r1.t.map[v] \in {Hole, c[v]}
                            ELSE r1.t.map[v] = t.map[v]
      <4> SUFFICES ASSUME NEW v \in VPages
                   PROVE  IF first <= v /\ v < first + m THEN r1.t.map[v] \in {Hole, c[v]}
                          ELSE r1.t.map[v] = t.map[v]
        OBVIOUS
      <4>1. CASE v = w
        BY <2>8, <3>2, <4>1 DEF Adds
      <4>2. CASE v # w
        <5>1. r1.t.map[v] = r.t.map[v]
          BY <3>2, <4>2 DEF Adds
        <5> QED
          BY <2>6, <2>8, <4>2, <5>1 DEF Added
      <4> QED
        BY <4>1, <4>2
    <3>5. Added(r1, k, t, first, m, c)
      BY <2>6, <3>2, <3>4 DEF Added, Adds, SameTotal
    <3> QED
      BY <2>2, <3>3, <3>5
  <2> QED
    BY <2>10, <2>11
<1> QED
  BY <1>2, <1>3
-----------------------------------------------------------------------------
(* Operators on page tables                                                *)

\* What every operator on a page table keeps: r has the same memory in all as k and t.
Keeps(r, k, t) ==
    /\ r.k \in Kernels /\ r.t \in Tables
    /\ SameTotal(r.k, r.t, k, t)
    /\ r.k.panic = k.panic
    /\ r.t.root = t.root /\ r.t.high = t.high

\* uvmunmap() unmaps the pages from first to last, and frees them.
LEMMA UvmunmapFacts ==
    ASSUME NEW k \in Kernels, NEW t \in Tables, NEW first \in Nat, NEW last \in Nat
    PROVE  LET u == Uvmunmap(k, t, first, last)
           IN  /\ Keeps(u, k, t) /\ u.t.low = t.low
               /\ \A v \in VPages :
                    u.t.map[v] = IF first <= v /\ v < last THEN Hole ELSE t.map[v]
<1> DEFINE range == {v \in VPages : first <= v /\ v < last}
           n == Mapped(t, range)
           map == [v \in VPages |-> IF v \in range THEN Hole ELSE t.map[v]]
           u == Uvmunmap(k, t, first, last)
           t1 == [root |-> t.root, high |-> t.high, low |-> t.low, map |-> map]
<1>1. /\ t = [root |-> t.root, high |-> t.high, low |-> t.low, map |-> t.map]
      /\ t.root \in 0 .. 1 /\ t.high \in 0 .. Levels /\ t.low \in 0 .. Levels
      /\ t.map \in [VPages -> PageContents] /\ Hole \in PageContents
  BY DEF Tables, PageContents
<1>2. n \in Nat
  BY MappedFacts
<1>3. map \in [VPages -> PageContents]
  BY <1>1
<1>4. \A v \in VPages : map[v] = IF v \in range THEN Hole ELSE t.map[v]
  OBVIOUS
<1>5. u.k = Kfree(k, n) /\ u.t = [t EXCEPT !.map = [v \in VPages |-> IF v \in range THEN Hole ELSE @[v]]]
  BY DEF Uvmunmap
<1>6. u.t = t1
  BY <1>1, <1>5
<1>7. t1 \in Tables
  <2> HIDE DEF map
  <2> QED
    BY <1>1, <1>3 DEF Tables
<1>8. t1.root = t.root /\ t1.high = t.high /\ t1.low = t.low /\ t1.map = map
  OBVIOUS
<1>9. Mapped(t, VPages) = n + Mapped(t1, VPages)
  <2>1. range \in SUBSET VPages
    OBVIOUS
  <2>2. \A v \in VPages : t1.map[v] = IF v \in range THEN Hole ELSE t.map[v]
    BY <1>4, <1>8
  <2> HIDE DEF range, t1, map
  <2> QED
    BY <2>1, <2>2, MappedWithout
<1>10. u.k \in Kernels /\ u.k.free = k.free + n /\ u.k.panic = k.panic /\ k.free \in Nat
  <2>1. Kfree(k, n) = [free |-> k.free + n, panic |-> k.panic] /\ Kfree(k, n) \in Kernels
        /\ k.free \in Nat
    BY <1>2, KernelFacts
  <2> HIDE DEF u, n
  <2> QED
    BY <1>5, <2>1
<1>11. Mapped(t1, VPages) \in Nat /\ Mapped(t, VPages) \in Nat
  BY MappedFacts
<1> HIDE DEF u, n, t1, map
<1>12. SameTotal(u.k, u.t, k, t)
  <2>1. TablePages(t1) = t.root + t.high + t.low + Mapped(t1, VPages)
    BY <1>8 DEF TablePages
  <2>2. TablePages(t) = t.root + t.high + t.low + Mapped(t, VPages)
    BY DEF TablePages
  <2>3. t.root \in Int /\ t.high \in Int /\ t.low \in Int
    BY <1>1, MemoryConstants
  <2> QED
    BY <1>2, <1>6, <1>9, <1>10, <1>11, <2>1, <2>2, <2>3 DEF SameTotal
<1>13. \A v \in VPages : u.t.map[v] = IF first <= v /\ v < last THEN Hole ELSE t.map[v]
  BY <1>4, <1>6, <1>8
<1> QED
  BY <1>6, <1>7, <1>8, <1>10, <1>12, <1>13 DEF Keeps, u

\* Freeing a table whose pages are all below the size frees it whole.
LEMMA FreeTableFacts ==
    ASSUME NEW k \in Kernels, NEW t \in Tables, NEW sz \in Nat, Below(t, PgUp(sz))
    PROVE  /\ FreeTable(k, t, sz) \in Kernels
           /\ FreeTable(k, t, sz).free = k.free + TablePages(t)
           /\ FreeTable(k, t, sz).panic = k.panic
<1> DEFINE u == Uvmunmap(k, t, 0, PgUp(sz))
           f == Kfree(u.k, Freewalk(t))
<1>1. PgUp(sz) \in Nat
  BY PgUpFacts
<1>2. /\ Keeps(u, k, t) /\ u.t.low = t.low
      /\ \A v \in VPages : u.t.map[v] = IF 0 <= v /\ v < PgUp(sz) THEN Hole ELSE t.map[v]
  BY <1>1, UvmunmapFacts
<1> HIDE DEF u
<1>3. \A v \in VPages : u.t.map[v] = Hole
  <2> SUFFICES ASSUME NEW v \in VPages
               PROVE  u.t.map[v] = Hole
    OBVIOUS
  <2>1. v \in Nat
    BY MemoryConstants
  <2> QED
    BY <1>1, <1>2, <2>1 DEF Below
<1>4. Mapped(u.t, VPages) = 0
  BY <1>3, MappedNone
<1>5. FreeTable(k, t, sz) = f
  <2> DEFINE x == [f EXCEPT !.panic = "leaf"]
  <2>1. FreeTable(k, t, sz) = IF Mapped(u.t, VPages) > 0 THEN x ELSE f
    BY DEF FreeTable, u
  <2> HIDE DEF x, f
  <2> QED
    BY <1>4, <2>1
<1>6. t.root \in Nat /\ t.high \in Nat /\ t.low \in Nat
  BY MemoryConstants DEF Tables
<1>7. Freewalk(t) \in Nat /\ Freewalk(t) = t.root + t.high + t.low
  BY <1>6 DEF Freewalk
<1>8. u.k \in Kernels /\ u.k.panic = k.panic
  BY <1>2 DEF Keeps
<1>9. f = [free |-> u.k.free + Freewalk(t), panic |-> u.k.panic] /\ f \in Kernels
  BY <1>7, <1>8, KernelFacts
<1>10. TablePages(u.t) = t.root + t.high + t.low
  BY <1>2, <1>4, <1>6 DEF Keeps, TablePages
<1>11. u.k.free + TablePages(u.t) = k.free + TablePages(t)
  BY <1>2 DEF Keeps, SameTotal
<1> HIDE DEF f
<1> QED
  BY <1>5, <1>7, <1>8, <1>9, <1>10, <1>11

\* proc_pagetable() makes a table without user pages, or none.
LEMMA ProcPagetableFacts ==
    ASSUME NEW k \in Kernels
    PROVE  LET r == ProcPagetable(k)
           IN  /\ r.k \in Kernels /\ r.t \in Tables
               /\ r.k.panic = k.panic /\ r.k.free + TablePages(r.t) = k.free
               /\ \A v \in VPages : r.t.map[v] = Hole
               /\ r.t.root = 0 => r.t = NoTable
<1> DEFINE a == Kalloc(k)
           high == Walked(a, 0)
           w == WalkAlloc(a, 0)
           t == [root |-> 1, high |-> high, low |-> 0, map |-> NoTable.map]
           r == ProcPagetable(k)
<1>1. k.free \in Nat /\ NoTable \in Tables /\ TablePages(NoTable) = 0
  BY KernelFacts, NoTableFacts
<1>2. CASE k.free = 0
  <2>1. r.k = k /\ r.t = NoTable
    BY <1>2 DEF ProcPagetable
  <2> HIDE DEF r
  <2> QED
    BY <1>1, <2>1, NoTableFacts DEF r
<1>3. CASE k.free # 0
  <2>1. a \in Kernels /\ a = [free |-> k.free - 1, panic |-> k.panic]
    BY <1>1, <1>3, KernelFacts
  <2>2. a.free = k.free - 1 /\ a.panic = k.panic
    BY <2>1
  <2> HIDE DEF a
  <2>3. 0 \in 0 .. Levels
    BY MemoryConstants
  <2>4. high \in 0 .. Levels /\ w \in Kernels /\ w = [free |-> a.free - (high - 0), panic |-> a.panic]
    BY <2>1, <2>3, WalkFacts
  <2>5. w.free = k.free - 1 - high /\ w.panic = k.panic /\ high \in Int
    BY <1>1, <2>2, <2>4, MemoryConstants
  <2> HIDE DEF high, w
  <2>6. t = [root |-> 1, high |-> high, low |-> 0, map |-> NoTable.map]
    OBVIOUS
  <2>7. t \in Tables
    BY <1>1, <2>3, <2>4, <2>6 DEF Tables
  <2>8. t.root = 1 /\ t.high = high /\ t.low = 0 /\ \A v \in VPages : t.map[v] = Hole
    BY <2>6, NoTableFacts
  <2> HIDE DEF t
  <2>9. TablePages(t) = 1 + high
    BY <2>5, <2>8, MappedNone DEF TablePages
  <2>10. Below(t, PgUp(0))
    BY <2>8 DEF Below
  <2>11. /\ FreeTable(w, t, 0) \in Kernels /\ FreeTable(w, t, 0).free = w.free + (1 + high)
         /\ FreeTable(w, t, 0).panic = w.panic
    BY <2>4, <2>7, <2>9, <2>10, FreeTableFacts
  <2>12. r = IF high # Levels THEN [k |-> FreeTable(w, t, 0), t |-> NoTable] ELSE [k |-> w, t |-> t]
    BY <1>3 DEF ProcPagetable, a, high, w, t
  <2> HIDE DEF r
  <2>13. CASE high # Levels
    <3>1. r.k = FreeTable(w, t, 0) /\ r.t = NoTable
      BY <2>12, <2>13
    <3>2. r.k.free + TablePages(r.t) = k.free
      BY <1>1, <2>5, <2>11, <3>1
    <3> QED
      BY <1>1, <2>5, <2>11, <3>1, <3>2, NoTableFacts DEF r
  <2>14. CASE high = Levels
    <3>1. r.k = w /\ r.t = t
      BY <2>12, <2>14
    <3>2. r.k.free + TablePages(r.t) = k.free
      BY <1>1, <2>5, <2>9, <3>1
    <3> QED
      BY <2>4, <2>5, <2>7, <2>8, <3>1, <3>2 DEF r
  <2> QED
    BY <2>13, <2>14
<1> QED
  BY <1>2, <1>3

\* The memory of a process, or of none: its pages are below its size.
Mems == [trapframe : 0 .. 1, table : Tables, sz : Nat]

MemOk(m) ==
    /\ m \in Mems
    /\ Below(m.table, PgUp(m.sz))
    /\ m.table.root = 0 => m.table = NoTable

\* freeproc() frees all of it.
LEMMA FreeprocFacts ==
    ASSUME NEW k \in Kernels, NEW m, MemOk(m)
    PROVE  /\ Freeproc(k, m) \in Kernels
           /\ Freeproc(k, m).free = k.free + m.trapframe + TablePages(m.table)
           /\ Freeproc(k, m).panic = k.panic
<1> DEFINE f == Kfree(k, m.trapframe)
<1>1. /\ m.trapframe \in 0 .. 1 /\ m.table \in Tables /\ m.sz \in Nat /\ Below(m.table, PgUp(m.sz))
      /\ m.trapframe \in Nat
  BY DEF MemOk, Mems
<1>2. k.free \in Nat /\ f \in Kernels /\ f = [free |-> k.free + m.trapframe, panic |-> k.panic]
  BY <1>1, KernelFacts
<1>3. f.free = k.free + m.trapframe /\ f.panic = k.panic
  BY <1>2
<1> HIDE DEF f
<1>4. CASE m.table.root = 0
  <2>1. TablePages(m.table) = 0
    BY <1>4, NoTableFacts DEF MemOk
  <2>2. Freeproc(k, m) = f
    BY <1>4 DEF Freeproc, f
  <2> QED
    BY <1>1, <1>2, <1>3, <2>1, <2>2
<1>5. CASE m.table.root # 0
  <2>1. Freeproc(k, m) = FreeTable(f, m.table, m.sz)
    BY <1>5 DEF Freeproc, f
  <2> QED
    BY <1>1, <1>2, <1>3, <2>1, FreeTableFacts
<1> QED
  BY <1>4, <1>5

\* No memory is in order.
LEMMA NoMemFacts ==
    /\ MemOk(NoMem) /\ NoMem.trapframe = 0 /\ NoMem.table = NoTable /\ NoMem.sz = 0
    /\ NoTable.root = 0
<1>1. NoMem.trapframe = 0 /\ NoMem.table = NoTable /\ NoMem.sz = 0
  BY DEF NoMem
<1>2. NoMem \in Mems
  BY NoTableFacts DEF NoMem, Mems
<1>3. Below(NoMem.table, PgUp(NoMem.sz))
  BY <1>1, NoTableFacts DEF Below
<1>4. NoTable.root = 0
  BY DEF NoTable
<1> QED
  BY <1>1, <1>2, <1>3, <1>4 DEF MemOk

\* allocproc() makes memory without user pages, or none.
LEMMA AllocprocFacts ==
    ASSUME NEW k \in Kernels
    PROVE  LET r == Allocproc(k)
           IN  /\ r.k \in Kernels /\ MemOk(r.m)
               /\ r.k.panic = k.panic
               /\ r.k.free + r.m.trapframe + TablePages(r.m.table) = k.free
               /\ r.m.sz = 0 /\ \A v \in VPages : r.m.table.map[v] = Hole
               /\ r.m = NoMem \/ r.m.table.root = 1
<1> DEFINE a == Kalloc(k)
           p == ProcPagetable(a)
           r == Allocproc(k)
<1>1. k.free \in Nat
  BY KernelFacts
<1>2. CASE k.free = 0
  <2>1. r.k = k /\ r.m = NoMem
    BY <1>2 DEF Allocproc
  <2> HIDE DEF r
  <2>2. TablePages(NoTable) = 0
    BY NoTableFacts
  <2>3. r.k.free + r.m.trapframe + TablePages(r.m.table) = k.free
    BY <1>1, <2>1, <2>2, NoMemFacts
  <2> QED
    BY <2>1, <2>3, NoMemFacts, NoTableFacts DEF r
<1>3. CASE k.free # 0
  <2>1. a \in Kernels /\ a = [free |-> k.free - 1, panic |-> k.panic]
    BY <1>1, <1>3, KernelFacts
  <2>2. a.free = k.free - 1 /\ a.panic = k.panic
    BY <2>1
  <2> HIDE DEF a
  <2>3. /\ p.k \in Kernels /\ p.t \in Tables
        /\ p.k.panic = a.panic /\ p.k.free + TablePages(p.t) = a.free
        /\ \A v \in VPages : p.t.map[v] = Hole
        /\ p.t.root = 0 => p.t = NoTable
    BY <2>1, ProcPagetableFacts
  <2> HIDE DEF p
  <2>4. p.k.free \in Nat /\ TablePages(p.t) \in Nat
    BY <2>3, KernelFacts, TablePagesType
  <2>5. CASE p.t.root = 0
    <3> DEFINE m == [NoMem EXCEPT !.trapframe = 1]
    <3>1. r.k = Freeproc(p.k, m) /\ r.m = NoMem
      BY <1>3, <2>5 DEF Allocproc, a, p
    <3>2. m = [trapframe |-> 1, table |-> NoTable, sz |-> 0]
      BY DEF NoMem
    <3>3. m \in Mems /\ m.trapframe = 1 /\ m.table = NoTable /\ m.sz = 0
      BY <3>2, NoTableFacts DEF Mems
    <3>4. MemOk(m)
      BY <3>3, NoTableFacts DEF MemOk, Below
    <3> HIDE DEF m, r
    <3>5. /\ r.k \in Kernels /\ r.k.free = p.k.free + 1 + TablePages(NoTable)
          /\ r.k.panic = p.k.panic
      BY <2>3, <3>1, <3>3, <3>4, FreeprocFacts
    <3>6. TablePages(p.t) = 0 /\ TablePages(NoTable) = 0
      BY <2>3, <2>5, NoTableFacts
    <3>7. r.k.free = k.free
      BY <1>1, <2>2, <2>3, <2>4, <3>5, <3>6
    <3>8. r.k.free + r.m.trapframe + TablePages(r.m.table) = k.free
      BY <1>1, <3>1, <3>6, <3>7, NoMemFacts
    <3> QED
      BY <2>2, <2>3, <3>1, <3>5, <3>8, NoMemFacts, NoTableFacts DEF r
  <2>6. CASE p.t.root # 0
    <3> DEFINE m == [trapframe |-> 1, table |-> p.t, sz |-> 0]
    <3>1. r.k = p.k /\ r.m = m
      BY <1>3, <2>6 DEF Allocproc, a, p
    <3>2. m \in Mems /\ m.trapframe = 1 /\ m.table = p.t /\ m.sz = 0
      BY <2>3 DEF Mems
    <3>3. MemOk(m)
      BY <2>3, <2>6, <3>2 DEF MemOk, Below
    <3>4. p.t.root = 1
      BY <2>3, <2>6 DEF Tables
    <3> HIDE DEF m, r
    <3>5. r.k.free + r.m.trapframe + TablePages(r.m.table) = k.free
      BY <1>1, <2>2, <2>3, <2>4, <3>1, <3>2
    <3> QED
      BY <2>2, <2>3, <3>1, <3>2, <3>3, <3>4, <3>5 DEF r
  <2> QED
    BY <2>5, <2>6
<1> QED
  BY <1>2, <1>3

\* No address is beyond the last user page.
LEMMA PgUpTop ==
    ASSUME NEW x \in Nat, x <= TopPage * PgSize
    PROVE  PgUp(x) \in Nat /\ PgUp(x) <= TopPage
<1>1. TopPage \in Nat /\ TopPage * PgSize \in Nat /\ PgUp(TopPage * PgSize) = TopPage
  BY MemoryConstants, PgUpExact
<1> QED
  BY <1>1, PgUpFacts, PgUpMonotone

\* uvmalloc() grows a table up to the new size, or leaves it as it was.
LEMMA UvmallocFacts ==
    ASSUME NEW k \in Kernels, NEW t \in Tables, NEW old \in Nat, NEW new \in Nat,
           new <= TopPage * PgSize, old <= TopPage * PgSize, Below(t, PgUp(old))
    PROVE  LET r == Uvmalloc(k, t, old, new)
           IN  /\ Keeps(r, k, t)
               /\ r.sz \in Nat /\ r.sz <= TopPage * PgSize
               /\ Below(r.t, PgUp(IF r.sz = 0 THEN old ELSE r.sz))
               /\ \A v \in VPages : r.t.map[v] \in {Hole, {}, t.map[v]}
<1> DEFINE n == IF new > old THEN PgUp(new) - PgUp(old) ELSE 0
           c == [v \in VPages |-> {}]
           a == AddPages(k, t, PgUp(old), n, c)
           u == Uvmunmap(a.k, a.t, PgUp(old), PgUp(new))
           r == Uvmalloc(k, t, old, new)
<1>1. PgUp(old) \in Nat /\ PgUp(new) \in Nat /\ PgUp(new) <= TopPage /\ PgUp(old) <= TopPage
  BY PgUpTop
<1>2. new >= old => n \in Nat /\ PgUp(old) + n = PgUp(new)
  <2>1. CASE new = old
    BY <1>1, <2>1
  <2>2. CASE new > old
    <3>1. PgUp(old) <= PgUp(new)
      BY <2>2, PgUpMonotone
    <3> QED
      BY <1>1, <2>2, <3>1
  <2> QED
    BY <2>1, <2>2
<1>3. c \in [VPages -> PageContents] /\ \A v \in VPages : c[v] = {}
  BY MemoryConstants
<1>4. r = IF new < old THEN [k |-> k, t |-> t, sz |-> old]
          ELSE IF a.ok THEN [k |-> a.k, t |-> a.t, sz |-> new]
          ELSE [k |-> u.k, t |-> u.t, sz |-> 0]
  BY DEF Uvmalloc
<1> HIDE DEF r, a, c, n, u
<1>5. CASE new < old
  <2>1. r.k = k /\ r.t = t /\ r.sz = old
    BY <1>4, <1>5
  <2>2. Keeps(r, k, t)
    BY <2>1 DEF Keeps, SameTotal
  <2> QED
    BY <2>1, <2>2 DEF r
<1>6. CASE new >= old
  <2>1. Added(a, k, t, PgUp(old), n, c)
    <3>1. \A v \in VPages : PgUp(old) <= v /\ v < PgUp(old) + n => t.map[v] = Hole
      BY <1>1, MemoryConstants DEF Below
    <3>2. n \in Nat /\ PgUp(old) + n <= TopPage
      BY <1>1, <1>2, <1>6
    <3> QED
      BY <1>1, <1>3, <3>1, <3>2, AddPagesFacts DEF a
  <2>2. a.k \in Kernels /\ a.t \in Tables
    BY <2>1 DEF Added, Loops
  <2>3. Keeps(a, k, t)
    BY <2>1, <2>2 DEF Added, Keeps
  <2>4. \A v \in VPages : IF PgUp(old) <= v /\ v < PgUp(new) THEN a.t.map[v] \in {Hole, {}}
                          ELSE a.t.map[v] = t.map[v]
    BY <1>2, <1>3, <1>6, <2>1 DEF Added
  <2>5. CASE a.ok
    <3>1. r.k = a.k /\ r.t = a.t /\ r.sz = new
      BY <1>4, <1>6, <2>5
    <3>2. Keeps(r, k, t)
      BY <2>3, <3>1 DEF Keeps
    <3>3. Below(r.t, PgUp(new))
      <4> SUFFICES ASSUME NEW v \in VPages, v >= PgUp(new)
                   PROVE  a.t.map[v] = Hole
        BY <3>1 DEF Below
      <4>1. v \in Nat /\ v >= PgUp(old) /\ ~ (v < PgUp(new))
        BY <1>1, <1>2, <1>6, MemoryConstants
      <4> QED
        BY <2>4, <4>1 DEF Below
    <3>4. new = 0 => old = new
      BY <1>6
    <3>5. Below(r.t, PgUp(IF r.sz = 0 THEN old ELSE r.sz))
      BY <3>1, <3>3, <3>4
    <3> QED
      BY <2>4, <3>1, <3>2, <3>5 DEF r
  <2>6. CASE ~ a.ok
    <3>1. r.k = u.k /\ r.t = u.t /\ r.sz = 0
      BY <1>4, <1>6, <2>6
    <3>2. /\ Keeps(u, a.k, a.t)
          /\ \A v \in VPages :
                u.t.map[v] = IF PgUp(old) <= v /\ v < PgUp(new) THEN Hole ELSE a.t.map[v]
      BY <1>1, <2>2, UvmunmapFacts DEF u
    <3>3. Keeps(r, k, t)
      BY <2>3, <3>1, <3>2 DEF Keeps, SameTotal
    <3>4. \A v \in VPages : u.t.map[v] \in {Hole, t.map[v]}
      BY <2>4, <3>2
    <3>5. Below(r.t, PgUp(old))
      BY <3>1, <3>4 DEF Below
    <3>6. 0 <= TopPage * PgSize
      BY MemoryConstants
    <3> QED
      BY <3>1, <3>3, <3>4, <3>5, <3>6 DEF r
  <2> QED
    BY <2>5, <2>6
<1> QED
  BY <1>5, <1>6

\* uvmdealloc() shrinks a table to the new size, or leaves it as it was.
LEMMA UvmdeallocFacts ==
    ASSUME NEW k \in Kernels, NEW t \in Tables, NEW old \in Nat, NEW new \in Int,
           Below(t, PgUp(old))
    PROVE  LET r == Uvmdealloc(k, t, old, new)
           IN  /\ Keeps(r, k, t)
               /\ r.sz \in Nat /\ r.sz <= old
               /\ Below(r.t, PgUp(r.sz))
               /\ \A v \in VPages : r.t.map[v] \in {Hole, t.map[v]}
<1> DEFINE u == Uvmunmap(k, t, PgUp(new), PgUp(old))
           r == Uvmdealloc(k, t, old, new)
<1>1. r = IF new < 0 \/ new >= old THEN [k |-> k, t |-> t, sz |-> old]
          ELSE [k |-> u.k, t |-> u.t, sz |-> new]
  BY DEF Uvmdealloc
<1> HIDE DEF r, u
<1>2. CASE new < 0 \/ new >= old
  <2>1. r.k = k /\ r.t = t /\ r.sz = old
    BY <1>1, <1>2
  <2>2. Keeps(r, k, t)
    BY <2>1 DEF Keeps, SameTotal
  <2> QED
    BY <2>1, <2>2 DEF r
<1>3. CASE 0 <= new /\ new < old
  <2>1. r.k = u.k /\ r.t = u.t /\ r.sz = new /\ new \in Nat
    BY <1>1, <1>3
  <2>2. PgUp(old) \in Nat /\ PgUp(new) \in Nat
    BY <2>1, PgUpFacts
  <2>3. /\ Keeps(u, k, t)
        /\ \A v \in VPages :
              u.t.map[v] = IF PgUp(new) <= v /\ v < PgUp(old) THEN Hole ELSE t.map[v]
    BY <2>2, UvmunmapFacts DEF u
  <2>4. Keeps(r, k, t)
    BY <2>1, <2>3 DEF Keeps
  <2>5. Below(r.t, PgUp(new))
    <3> SUFFICES ASSUME NEW v \in VPages, v >= PgUp(new)
                 PROVE  u.t.map[v] = Hole
      BY <2>1 DEF Below
    <3>1. v \in Nat
      BY MemoryConstants
    <3> QED
      BY <2>2, <2>3, <3>1 DEF Below
  <2> QED
    BY <1>3, <2>1, <2>3, <2>4, <2>5 DEF r
<1> QED
  BY <1>2, <1>3

\* uvmcopy() copies pages below the size, or leaves none.
LEMMA UvmcopyFacts ==
    ASSUME NEW k \in Kernels, NEW old \in Tables, NEW new \in Tables, NEW sz \in Nat,
           sz <= TopPage * PgSize, \A v \in VPages : new.map[v] = Hole
    PROVE  LET r == Uvmcopy(k, old, new, sz)
           IN  /\ Keeps(r, k, new) /\ Below(r.t, PgUp(sz))
               /\ \A v \in VPages : r.t.map[v] \in {Hole, old.map[v]}
               /\ ~ r.ok => \A v \in VPages : r.t.map[v] = Hole
<1> DEFINE n == PgUp(sz)
           a == AddPages(k, new, 0, n, old.map)
           u == Uvmunmap(a.k, a.t, 0, n)
           r == Uvmcopy(k, old, new, sz)
<1>1. n \in Nat /\ n <= TopPage /\ 0 + n <= TopPage
  BY PgUpTop
<1>2. old.map \in [VPages -> PageContents]
  BY DEF Tables
<1>3. r = IF a.ok THEN a ELSE [k |-> u.k, t |-> u.t, ok |-> FALSE]
  BY DEF Uvmcopy
<1>4. \A v \in VPages : v \in Nat /\ (0 <= v /\ v < 0 + n <=> v < n)
  BY <1>1, MemoryConstants
<1> HIDE DEF r, a, u, n
<1>5. Added(a, k, new, 0, n, old.map)
  BY <1>1, <1>2, AddPagesFacts DEF a
<1>6. a.k \in Kernels /\ a.t \in Tables
  BY <1>5 DEF Added, Loops
<1>7. Keeps(a, k, new)
  BY <1>5, <1>6 DEF Added, Keeps
<1>8. \A v \in VPages : IF v < n THEN a.t.map[v] \in {Hole, old.map[v]} ELSE a.t.map[v] = Hole
  BY <1>4, <1>5 DEF Added
<1>9. CASE a.ok
  <2>1. r = a
    BY <1>3, <1>9
  <2>2. Below(a.t, n)
    BY <1>1, <1>4, <1>8 DEF Below
  <2> QED
    BY <1>7, <1>8, <1>9, <2>1, <2>2 DEF r, n
<1>10. CASE ~ a.ok
  <2>1. r.k = u.k /\ r.t = u.t
    BY <1>3, <1>10
  <2>2. /\ Keeps(u, a.k, a.t)
        /\ \A v \in VPages : u.t.map[v] = IF 0 <= v /\ v < n THEN Hole ELSE a.t.map[v]
    BY <1>1, <1>6, UvmunmapFacts DEF u
  <2>3. \A v \in VPages : r.t.map[v] = Hole
    BY <1>4, <1>8, <2>1, <2>2
  <2>4. Keeps(r, k, new)
    BY <1>7, <2>1, <2>2 DEF Keeps, SameTotal
  <2>5. Below(r.t, n)
    BY <2>3 DEF Below
  <2> QED
    BY <2>3, <2>4, <2>5 DEF r, n
<1> QED
  BY <1>9, <1>10
-----------------------------------------------------------------------------
(* The inductive invariant of memory                                       *)

Execs == [at : {"none", "open", "load", "commit", "bad"}, table : Tables, sz : Nat, argv : Nat]

\* What exec() has built: its table is empty, or has zeroed pages below the size.
ExecOk(e) ==
    /\ e \in Execs
    /\ Below(e.table, PgUp(e.sz)) /\ e.sz <= TopPage * PgSize
    /\ e.table.root = 0 => e.table = NoTable
    /\ \A v \in VPages : e.table.map[v] \in {Hole, {}}
    /\ e.at = "none" => e = NoExec
    /\ e.at = "open" => e.table = NoTable /\ e.sz = 0
    /\ e.at \in {"load", "commit"} => e.table.root = 1

\* Process p with memory m, exec() under way e and lineage l.
SlotOk(p, m, e, l) ==
    /\ MemOk(m) /\ m.sz <= TopPage * PgSize
    /\ m.table.root = 0 => m = NoMem
    /\ ExecOk(e)
    /\ l \in SUBSET Slots
    /\ m.table.root # 0 => p \in l
    /\ \A v \in VPages : m.table.map[v] \in {Hole} \union SUBSET l

\* The pages of a process, and those of all processes when f is how many each has.
Pages(m, e) == m.trapframe + TablePages(m.table) + TablePages(e.table) + e.argv
Owned(f)    == UNION {{p} \X (1 .. f[p]) : p \in Slots}
Counts      == [p \in Slots |-> PagesOf(p)]

MemInv ==
    /\ mem \in [Slots -> Mems] /\ exec \in [Slots -> Execs]
    /\ lineage \in [Slots -> SUBSET Slots]
    /\ kmem \in Nat /\ mpanic = "none"
    /\ \A p \in Slots : SlotOk(p, mem[p], exec[p], lineage[p])
    /\ IsFiniteSet(Owned(Counts)) /\ kmem + Cardinality(Owned(Counts)) = NPages

\* n pages of one process.
LEMMA PagesOfOne ==
    ASSUME NEW p, NEW n \in Nat
    PROVE  IsFiniteSet({p} \X (1 .. n)) /\ Cardinality({p} \X (1 .. n)) = n
<1>1. IsFiniteSet({p}) /\ Cardinality({p}) = 1
  BY FS_Singleton
<1>2. IsFiniteSet(1 .. n) /\ Cardinality(1 .. n) = n
  BY FS_Interval
<1>3. IsFiniteSet({p} \X (1 .. n)) /\ Cardinality({p} \X (1 .. n)) = 1 * n
  <2> DEFINE A == {p}
             B == 1 .. n
  <2>1. IsFiniteSet(A) /\ IsFiniteSet(B) /\ Cardinality(A) = 1 /\ Cardinality(B) = n
    BY <1>1, <1>2
  <2> HIDE DEF A, B
  <2>2. IsFiniteSet(A \X B) /\ Cardinality(A \X B) = Cardinality(A) * Cardinality(B)
    BY <2>1, FS_Product
  <2> QED
    BY <2>1, <2>2 DEF A, B
<1> QED
  BY <1>3

\* When the pages of one process change, their number changes as much.
LEMMA OwnedChange ==
    ASSUME NEW f \in [Slots -> Nat], NEW g \in [Slots -> Nat], NEW p \in Slots,
           \A q \in Slots : q # p => g[q] = f[q], IsFiniteSet(Owned(f))
    PROVE  /\ IsFiniteSet(Owned(g))
           /\ Cardinality(Owned(f)) \in Nat /\ Cardinality(Owned(g)) \in Nat
           /\ Cardinality(Owned(g)) + f[p] = Cardinality(Owned(f)) + g[p]
<1> DEFINE Rest == UNION {{q} \X (1 .. f[q]) : q \in Slots \ {p}}
           A == {p} \X (1 .. f[p])
           B == {p} \X (1 .. g[p])
<1>1. Owned(f) = Rest \union A /\ Rest \intersect A = {}
  BY DEF Owned
<1>2. Rest = UNION {{q} \X (1 .. g[q]) : q \in Slots \ {p}}
  OBVIOUS
<1>3. Owned(g) = Rest \union B /\ Rest \intersect B = {}
  BY <1>2 DEF Owned
<1>4. IsFiniteSet(A) /\ Cardinality(A) = f[p] /\ IsFiniteSet(B) /\ Cardinality(B) = g[p]
  BY PagesOfOne
<1> HIDE DEF A, B, Rest
<1>5. IsFiniteSet(Rest)
  BY <1>1, FS_Subset
<1>6. Cardinality(Rest) \in Nat /\ f[p] \in Nat /\ g[p] \in Nat
  BY <1>5, FS_CardinalityType
<1>7. /\ IsFiniteSet(Rest \union A)
      /\ Cardinality(Rest \union A) = Cardinality(Rest) + Cardinality(A) - Cardinality(Rest \intersect A)
  BY <1>4, <1>5, FS_Union
<1>8. /\ IsFiniteSet(Rest \union B)
      /\ Cardinality(Rest \union B) = Cardinality(Rest) + Cardinality(B) - Cardinality(Rest \intersect B)
  BY <1>4, <1>5, FS_Union
<1>9. Cardinality({}) = 0
  BY FS_EmptySet
<1>10. Cardinality(Owned(f)) = Cardinality(Rest) + f[p]
  <2>1. Cardinality(Rest \intersect A) = 0
    BY <1>1, <1>9
  <2> QED
    BY <1>1, <1>4, <1>6, <1>7, <2>1
<1>11. Cardinality(Owned(g)) = Cardinality(Rest) + g[p]
  <2>1. Cardinality(Rest \intersect B) = 0
    BY <1>3, <1>9
  <2> QED
    BY <1>3, <1>4, <1>6, <1>8, <2>1
<1>12. IsFiniteSet(Owned(g))
  BY <1>3, <1>8
<1> QED
  BY <1>6, <1>10, <1>11, <1>12

\* A process in order has a number of pages.
LEMMA PagesType ==
    ASSUME NEW p, NEW m, NEW e, NEW l, SlotOk(p, m, e, l)
    PROVE  /\ Pages(m, e) \in Nat
           /\ m.trapframe \in Nat /\ TablePages(m.table) \in Nat
           /\ TablePages(e.table) \in Nat /\ e.argv \in Nat
<1>1. m.trapframe \in Nat /\ m.table \in Tables
  BY DEF SlotOk, MemOk, Mems
<1>2. e.argv \in Nat /\ e.table \in Tables
  BY DEF SlotOk, ExecOk, Execs
<1>3. TablePages(m.table) \in Nat /\ TablePages(e.table) \in Nat
  BY <1>1, <1>2, TablePagesType
<1> QED
  BY <1>1, <1>2, <1>3 DEF Pages

\* What one process gains the free list loses.
LEMMA Balance ==
    ASSUME NEW a \in Int, NEW b \in Int, NEW x \in Int, NEW y \in Int, NEW f \in Int, NEW g \in Int,
           NEW n \in Int, b + x = a + y, g + a = n, f + y = g + x
    PROVE  f + b = n
  OBVIOUS

\* f with x for p.
Puts(f, p, x) == [f EXCEPT ![p] = x]

\* A step that changes process p alone, keeps it in order and accounts for its pages.
LEMMA StepAt ==
    ASSUME MemInv, NEW p \in Slots, NEW k \in Kernels, NEW m, NEW e, NEW l,
           mem' = Puts(mem, p, m), exec' = Puts(exec, p, e), lineage' = Puts(lineage, p, l),
           Becomes(k), k.panic = "none", SlotOk(p, m, e, l),
           k.free + Pages(m, e) = kmem + Pages(mem[p], exec[p])
    PROVE  MemInv'
<1>1. /\ mem \in [Slots -> Mems] /\ exec \in [Slots -> Execs]
      /\ lineage \in [Slots -> SUBSET Slots] /\ kmem \in Nat
      /\ \A q \in Slots : SlotOk(q, mem[q], exec[q], lineage[q])
      /\ IsFiniteSet(Owned(Counts)) /\ kmem + Cardinality(Owned(Counts)) = NPages
  BY DEF MemInv
<1>2. m \in Mems /\ e \in Execs /\ l \in SUBSET Slots
  BY DEF SlotOk, MemOk, ExecOk
<1>3. /\ mem' \in [Slots -> Mems] /\ exec' \in [Slots -> Execs]
      /\ lineage' \in [Slots -> SUBSET Slots]
  BY <1>1, <1>2 DEF Puts
<1>4. kmem' = k.free /\ mpanic' = "none" /\ k.free \in Nat
  BY KernelFacts DEF Becomes
<1>5. /\ mem'[p] = m /\ exec'[p] = e /\ lineage'[p] = l
      /\ \A q \in Slots : q # p => mem'[q] = mem[q] /\ exec'[q] = exec[q] /\ lineage'[q] = lineage[q]
  BY <1>1 DEF Puts
<1>6. \A q \in Slots : SlotOk(q, mem'[q], exec'[q], lineage'[q])
  BY <1>1, <1>5
<1>7. \A q \in Slots : Counts[q] = Pages(mem[q], exec[q]) /\ Counts[q] \in Nat
  <2>1. \A q \in Slots : Counts[q] = Pages(mem[q], exec[q])
    BY DEF Counts, PagesOf, Pages
  <2> QED
    BY <1>1, <2>1, PagesType
<1>8. \A q \in Slots : Counts'[q] = Pages(mem'[q], exec'[q]) /\ Counts'[q] \in Nat
  <2>1. \A q \in Slots : Counts'[q] = Pages(mem'[q], exec'[q])
    BY DEF Counts, PagesOf, Pages
  <2>2. \A q \in Slots : Pages(mem'[q], exec'[q]) \in Nat
    <3> SUFFICES ASSUME NEW q \in Slots
                 PROVE  Pages(mem'[q], exec'[q]) \in Nat
      OBVIOUS
    <3> DEFINE m1 == mem'[q]
               e1 == exec'[q]
               l1 == lineage'[q]
    <3>1. SlotOk(q, m1, e1, l1)
      BY <1>6
    <3> HIDE DEF m1, e1, l1
    <3>2. Pages(m1, e1) \in Nat
      BY <3>1, PagesType
    <3> QED
      BY <3>2 DEF m1, e1
  <2> QED
    BY <2>1, <2>2
<1>9. Counts \in [Slots -> Nat] /\ Counts' \in [Slots -> Nat]
  <2>1. Counts = [q \in Slots |-> Counts[q]] /\ Counts' = [q \in Slots |-> Counts'[q]]
    BY DEF Counts
  <2> QED
    BY <1>7, <1>8, <2>1
<1>10. \A q \in Slots : q # p => Counts'[q] = Counts[q]
  <2> SUFFICES ASSUME NEW q \in Slots, q # p
               PROVE  Counts'[q] = Counts[q]
    OBVIOUS
  <2>1. Counts'[q] = Pages(mem'[q], exec'[q]) /\ Counts[q] = Pages(mem[q], exec[q])
    BY <1>7, <1>8
  <2>2. mem'[q] = mem[q] /\ exec'[q] = exec[q]
    BY <1>5
  <2> QED
    BY <2>1, <2>2
<1>11. /\ IsFiniteSet(Owned(Counts'))
       /\ Cardinality(Owned(Counts)) \in Nat /\ Cardinality(Owned(Counts')) \in Nat
       /\ Cardinality(Owned(Counts')) + Counts[p] = Cardinality(Owned(Counts)) + Counts'[p]
  BY <1>1, <1>9, <1>10, OwnedChange
<1>12. Counts[p] = Pages(mem[p], exec[p]) /\ Counts'[p] = Pages(m, e) /\ Counts[p] \in Nat
       /\ Counts'[p] \in Nat
  BY <1>5, <1>7, <1>8
<1>13. kmem' + Cardinality(Owned(Counts')) = NPages
  <2>1. Cardinality(Owned(Counts)) \in Int /\ Cardinality(Owned(Counts')) \in Int
    BY <1>11
  <2>2. Pages(mem[p], exec[p]) \in Int /\ Pages(m, e) \in Int /\ k.free \in Int /\ kmem \in Int
        /\ NPages \in Int
    BY <1>1, <1>4, <1>12, MemoryConstants
  <2>3. Cardinality(Owned(Counts')) + Pages(mem[p], exec[p]) = Cardinality(Owned(Counts)) + Pages(m, e)
    BY <1>11, <1>12
  <2>4. k.free + Cardinality(Owned(Counts')) = NPages
    BY <1>1, <2>1, <2>2, <2>3, Balance
  <2> QED
    BY <1>4, <2>4
<1>14. Owned(Counts)' = Owned(Counts')
  BY DEF Owned
<1> QED
  BY <1>3, <1>4, <1>6, <1>11, <1>13, <1>14 DEF MemInv
-----------------------------------------------------------------------------
(* Steps of memory                                                         *)

\* A process in order, and the memory its operations work on.
LEMMA At ==
    ASSUME MemInv, NEW p \in Slots
    PROVE  /\ SlotOk(p, mem[p], exec[p], lineage[p])
           /\ mem \in [Slots -> Mems] /\ exec \in [Slots -> Execs] /\ lineage \in [Slots -> SUBSET Slots]
           /\ mem[p] \in Mems /\ mem[p].table \in Tables /\ mem[p].sz \in Nat
           /\ mem[p].sz <= TopPage * PgSize /\ Below(mem[p].table, PgUp(mem[p].sz))
           /\ exec[p] \in Execs /\ exec[p].table \in Tables /\ exec[p].sz \in Nat
           /\ exec[p].sz <= TopPage * PgSize /\ Below(exec[p].table, PgUp(exec[p].sz))
           /\ exec[p].argv \in Nat
           /\ MK \in Kernels /\ MK.free = kmem /\ MK.panic = "none" /\ kmem \in Nat
<1>1. /\ SlotOk(p, mem[p], exec[p], lineage[p]) /\ kmem \in Nat /\ mpanic = "none"
      /\ mem \in [Slots -> Mems] /\ exec \in [Slots -> Execs] /\ lineage \in [Slots -> SUBSET Slots]
  BY DEF MemInv
<1>2. MK = [free |-> kmem, panic |-> mpanic]
  BY DEF MK
<1>3. MK \in Kernels /\ MK.free = kmem /\ MK.panic = "none"
  BY <1>1, <1>2 DEF Kernels, Panics
<1>4. mem[p] \in Mems /\ exec[p] \in Execs
  BY <1>1
<1>5. mem[p].table \in Tables /\ mem[p].sz \in Nat
  BY <1>4 DEF Mems
<1>6. exec[p].table \in Tables /\ exec[p].sz \in Nat /\ exec[p].argv \in Nat
  BY <1>4 DEF Execs
<1>7. mem[p].sz <= TopPage * PgSize /\ Below(mem[p].table, PgUp(mem[p].sz))
  BY <1>1 DEF SlotOk, MemOk
<1>8. exec[p].sz <= TopPage * PgSize /\ Below(exec[p].table, PgUp(exec[p].sz))
  BY <1>1 DEF SlotOk, ExecOk
<1> QED
  BY <1>1, <1>3, <1>4, <1>5, <1>6, <1>7, <1>8

\* The fields of an image.
LEMMA ImageFacts ==
    ASSUME NEW m \in Mems, NEW t, NEW s
    PROVE  /\ Image(m, t, s).trapframe = m.trapframe
           /\ Image(m, t, s).table = t /\ Image(m, t, s).sz = s
           /\ t \in Tables /\ s \in Nat => Image(m, t, s) \in Mems
<1>1. m = [trapframe |-> m.trapframe, table |-> m.table, sz |-> m.sz] /\ m.trapframe \in 0 .. 1
  BY DEF Mems
<1>2. Image(m, t, s) = [trapframe |-> m.trapframe, table |-> t, sz |-> s]
  BY <1>1 DEF Image
<1> QED
  BY <1>1, <1>2 DEF Mems

\* The fields of what exec() builds.
LEMMA BuildingFacts ==
    ASSUME NEW e \in Execs, NEW at, NEW t, NEW s
    PROVE  /\ Building(e, at, t, s).at = at /\ Building(e, at, t, s).table = t
           /\ Building(e, at, t, s).sz = s /\ Building(e, at, t, s).argv = e.argv
           /\ at \in {"none", "open", "load", "commit", "bad"} /\ t \in Tables /\ s \in Nat
                => Building(e, at, t, s) \in Execs
<1>1. e = [at |-> e.at, table |-> e.table, sz |-> e.sz, argv |-> e.argv] /\ e.argv \in Nat
  BY DEF Execs
<1>2. Building(e, at, t, s) = [at |-> at, table |-> t, sz |-> s, argv |-> e.argv]
  BY <1>1 DEF Building
<1> QED
  BY <1>1, <1>2 DEF Execs

\* A process with another table is in order, and so is its memory.
LEMMA ImageOk ==
    ASSUME NEW p \in Slots, NEW m, NEW e, NEW l, SlotOk(p, m, e, l),
           NEW t \in Tables, NEW s \in Nat, s <= TopPage * PgSize, Below(t, PgUp(s)),
           t.root = 1, p \in l, \A v \in VPages : t.map[v] \in {Hole} \union SUBSET l
    PROVE  /\ SlotOk(p, Image(m, t, s), e, l)
           /\ Pages(Image(m, t, s), e) = Pages(m, e) - TablePages(m.table) + TablePages(t)
<1> DEFINE i == Image(m, t, s)
<1>1. m \in Mems
  BY DEF SlotOk, MemOk
<1>2. i.trapframe = m.trapframe /\ i.table = t /\ i.sz = s
  BY <1>1, ImageFacts
<1>3. i \in Mems
  BY <1>1, ImageFacts
<1> HIDE DEF i
<1>4. MemOk(i)
  BY <1>2, <1>3 DEF MemOk
<1>5. SlotOk(p, i, e, l)
  BY <1>2, <1>4 DEF SlotOk
<1>6. /\ TablePages(t) \in Nat /\ TablePages(m.table) \in Nat
      /\ TablePages(e.table) \in Nat /\ e.argv \in Nat /\ m.trapframe \in Nat
  BY PagesType, TablePagesType
<1>7. Pages(i, e) = Pages(m, e) - TablePages(m.table) + TablePages(t)
  BY <1>2, <1>6 DEF Pages
<1> QED
  BY <1>5, <1>7 DEF i

\* A step of p that changes its table and the free list alike.
LEMMA ImageStep ==
    ASSUME MemInv, NEW p \in Slots, NEW r, NEW s \in Nat,
           mem' = Puts(mem, p, Image(mem[p], r.t, s)),
           UNCHANGED <<exec, lineage>>, Becomes(r.k),
           Keeps(r, MK, mem[p].table), mem[p].table.root # 0,
           s <= TopPage * PgSize, Below(r.t, PgUp(s)),
           \A v \in VPages : r.t.map[v] \in {Hole} \union SUBSET lineage[p]
    PROVE  MemInv'
<1> DEFINE m == Image(mem[p], r.t, s)
<1>1. /\ SlotOk(p, mem[p], exec[p], lineage[p]) /\ exec \in [Slots -> Execs]
      /\ lineage \in [Slots -> SUBSET Slots] /\ mem[p].table \in Tables
      /\ MK.free = kmem /\ MK.panic = "none" /\ kmem \in Nat
  BY At
<1>2. mem[p].table.root = 1 /\ p \in lineage[p]
  BY <1>1 DEF SlotOk, Tables
<1>3. /\ r.k \in Kernels /\ r.t \in Tables /\ r.k.panic = "none" /\ r.t.root = 1
      /\ r.k.free + TablePages(r.t) = kmem + TablePages(mem[p].table)
  BY <1>1, <1>2 DEF Keeps, SameTotal
<1>4. /\ SlotOk(p, m, exec[p], lineage[p])
      /\ Pages(m, exec[p]) = Pages(mem[p], exec[p]) - TablePages(mem[p].table) + TablePages(r.t)
  BY <1>1, <1>2, <1>3, ImageOk
<1>5. /\ r.k.free \in Nat /\ TablePages(r.t) \in Nat /\ TablePages(mem[p].table) \in Nat
      /\ Pages(mem[p], exec[p]) \in Nat
  BY <1>1, <1>3, KernelFacts, TablePagesType, PagesType
<1>6. r.k.free + Pages(m, exec[p]) = kmem + Pages(mem[p], exec[p])
  BY <1>1, <1>3, <1>4, <1>5
<1>7. /\ exec' = Puts(exec, p, exec[p]) /\ lineage' = Puts(lineage, p, lineage[p])
      /\ mem' = Puts(mem, p, m) /\ Becomes(r.k)
  BY <1>1 DEF Puts
<1> HIDE DEF m
<1> QED
  BY <1>3, <1>4, <1>6, <1>7, StepAt

\* sys_sbrk() at once.
LEMMA SbrkStep ==
    ASSUME MemInv, NEW p \in Slots, NEW n \in Growth, Sbrk(p, n)
    PROVE  MemInv'
<1> DEFINE m == mem[p]
           new == IF n > 0 THEN Uvmalloc(MK, m.table, m.sz, m.sz + n)
                  ELSE Uvmdealloc(MK, m.table, m.sz, m.sz + n)
           s == IF n > 0 /\ new.sz = 0 THEN m.sz ELSE new.sz
<1>1. /\ mem \in [Slots -> Mems] /\ m \in Mems /\ m.table \in Tables /\ m.sz \in Nat
      /\ m.sz <= TopPage * PgSize /\ Below(m.table, PgUp(m.sz)) /\ MK \in Kernels
      /\ SlotOk(p, m, exec[p], lineage[p])
  BY At
<1>2. n \in Int /\ TopPage * PgSize \in Nat
  BY MemoryAssumption
<1>3. /\ m.table.root # 0 /\ m.sz + n <= TopPage * PgSize /\ Becomes(new.k)
      /\ mem' = Puts(mem, p, Image(m, new.t, s))
      /\ UNCHANGED <<exec, lineage>>
  BY DEF Sbrk, InUser, Runs, Puts
<1>4. /\ Keeps(new, MK, m.table) /\ s \in Nat /\ s <= TopPage * PgSize /\ Below(new.t, PgUp(s))
      /\ \A v \in VPages : new.t.map[v] \in {Hole, {}, m.table.map[v]}
  <2>1. CASE n > 0
    <3>1. m.sz + n \in Nat
      BY <1>1, <1>2, <2>1
    <3> DEFINE u == Uvmalloc(MK, m.table, m.sz, m.sz + n)
    <3>2. /\ Keeps(u, MK, m.table) /\ u.sz \in Nat /\ u.sz <= TopPage * PgSize
          /\ Below(u.t, PgUp(IF u.sz = 0 THEN m.sz ELSE u.sz))
          /\ \A v \in VPages : u.t.map[v] \in {Hole, {}, m.table.map[v]}
      BY <1>1, <1>3, <3>1, UvmallocFacts
    <3>3. new = u
      BY <2>1
    <3> HIDE DEF u, new, m
    <3>4. s = IF u.sz = 0 THEN m.sz ELSE u.sz
      BY <2>1, <3>3
    <3> HIDE DEF s
    <3> QED
      BY <1>1, <3>2, <3>3, <3>4
  <2>2. CASE ~ (n > 0)
    <3>1. m.sz + n \in Int
      BY <1>1, <1>2
    <3> DEFINE u == Uvmdealloc(MK, m.table, m.sz, m.sz + n)
    <3>2. /\ Keeps(u, MK, m.table) /\ u.sz \in Nat /\ u.sz <= m.sz
          /\ Below(u.t, PgUp(u.sz))
          /\ \A v \in VPages : u.t.map[v] \in {Hole, m.table.map[v]}
      BY <1>1, <3>1, UvmdeallocFacts
    <3>3. new = u
      BY <2>2
    <3> HIDE DEF u, new, m
    <3>4. s = u.sz
      BY <2>2, <3>3
    <3> HIDE DEF s
    <3> QED
      BY <1>1, <1>2, <3>2, <3>3, <3>4
  <2> QED
    BY <2>1, <2>2
<1> HIDE DEF new
<1>6. \A v \in VPages : new.t.map[v] \in {Hole} \union SUBSET lineage[p]
  BY <1>1, <1>4 DEF SlotOk
<1> HIDE DEF s
<1> QED
  BY <1>3, <1>4, <1>6, ImageStep

\* sys_sbrk() that only notes the size.
LEMMA SbrkLazyStep ==
    ASSUME MemInv, NEW p \in Slots, NEW n \in Growth, SbrkLazy(p, n)
    PROVE  MemInv'
<1> DEFINE t == mem[p].table
           r == [k |-> MK, t |-> t]
           s == mem[p].sz + n
<1>1. /\ mem[p] \in Mems /\ t \in Tables /\ mem[p].sz \in Nat
      /\ mem[p].sz <= TopPage * PgSize /\ Below(t, PgUp(mem[p].sz)) /\ MK \in Kernels
      /\ SlotOk(p, mem[p], exec[p], lineage[p]) /\ MK.free = kmem /\ MK.panic = "none"
  BY At
<1>2. n \in Int /\ TopPage * PgSize \in Nat
  BY MemoryAssumption
<1>3. /\ t.root # 0 /\ s <= TopPage * PgSize /\ n >= 0
      /\ mem' = Puts(mem, p, Image(mem[p], t, s))
      /\ UNCHANGED <<kmem, mpanic, exec, lineage>> /\ mpanic = "none"
  BY DEF SbrkLazy, InUser, Runs, Puts
<1>4. s \in Nat /\ mem[p].sz <= s
  BY <1>1, <1>2, <1>3
<1>5. Below(t, PgUp(s))
  <2>1. PgUp(mem[p].sz) <= PgUp(s) /\ PgUp(mem[p].sz) \in Nat /\ PgUp(s) \in Nat
    BY <1>1, <1>4, PgUpMonotone, PgUpFacts
  <2>2. \A v \in VPages : v \in Nat
    BY MemoryConstants
  <2> QED
    BY <1>1, <2>1, <2>2 DEF Below
<1>6. r.k = MK /\ r.t = t
  OBVIOUS
<1> HIDE DEF r, s
<1>7. Keeps(r, MK, t)
  BY <1>1, <1>6 DEF Keeps, SameTotal
<1>8. Becomes(r.k)
  BY <1>1, <1>3, <1>6 DEF Becomes
<1>9. \A v \in VPages : r.t.map[v] \in {Hole} \union SUBSET lineage[p]
  BY <1>1, <1>6 DEF SlotOk
<1>10. Below(r.t, PgUp(s)) /\ mem' = Puts(mem, p, Image(mem[p], r.t, s))
  BY <1>3, <1>5, <1>6
<1> QED
  BY <1>3, <1>4, <1>7, <1>8, <1>9, <1>10, ImageStep

\* A write changes the content of one page at most, and maps none.
LEMMA LoadedFacts ==
    ASSUME NEW t \in Tables, NEW v \in VPages, NEW p \in Slots
    PROVE  LET u == Loaded(t, v, p)
           IN  /\ u \in Tables /\ TablePages(u) = TablePages(t)
               /\ u.root = t.root /\ u.high = t.high
               /\ \A x \in VPages : u.map[x] = t.map[x] \/ (t.map[x] # Hole /\ u.map[x] = t.map[x] \union {p})
<1> DEFINE c == IF t.map[v] = Hole THEN Hole ELSE t.map[v] \union {p}
           u == Loaded(t, v, p)
<1>1. /\ t = [root |-> t.root, high |-> t.high, low |-> t.low, map |-> t.map]
      /\ t.root \in 0 .. 1 /\ t.high \in 0 .. Levels /\ t.low \in 0 .. Levels
      /\ t.map \in [VPages -> PageContents]
  BY DEF Tables
<1>2. t.map[v] \in PageContents
  BY <1>1
<1>3. c \in PageContents /\ (c = Hole <=> t.map[v] = Hole)
  BY <1>2, MemoryConstants DEF PageContents
<1>4. u = [t EXCEPT !.map[v] = c]
  BY DEF Loaded
<1>5. c = t.map[v] \/ (t.map[v] # Hole /\ c = t.map[v] \union {p})
  OBVIOUS
<1> HIDE DEF c, u
<1>6. u = [root |-> t.root, high |-> t.high, low |-> t.low, map |-> [t.map EXCEPT ![v] = c]]
  BY <1>1, <1>4
<1>7. [t.map EXCEPT ![v] = c] \in [VPages -> PageContents]
  BY <1>1, <1>3
<1>8. /\ u.root = t.root /\ u.high = t.high /\ u.low = t.low
      /\ u.map[v] = c /\ \A x \in VPages : x # v => u.map[x] = t.map[x]
  BY <1>1, <1>6
<1>9. u \in Tables
  BY <1>1, <1>6, <1>7 DEF Tables
<1>10. Mapped(t, VPages) = Mapped(u, VPages)
  <2>1. \A x \in VPages : t.map[x] = Hole <=> u.map[x] = Hole
    BY <1>3, <1>8
  <2> QED
    BY <2>1, MappedSame
<1>11. TablePages(u) = TablePages(t)
  BY <1>8, <1>10 DEF TablePages
<1> QED
  BY <1>5, <1>8, <1>9, <1>11 DEF u

\* A page fault and a write.
LEMMA AccessStep ==
    ASSUME MemInv, NEW p \in Slots, NEW v \in VPages, Access(p, v)
    PROVE  MemInv'
<1> DEFINE t   == mem[p].table
           sz  == mem[p].sz
           now == [k |-> MK, t |-> t, ok |-> TRUE]
           r   == IF Faults(mem[p], v) THEN AddPage(now, v, {}) ELSE now
           u   == Loaded(r.t, v, p)
           r1  == [k |-> r.k, t |-> u]
<1>1. /\ mem[p] \in Mems /\ t \in Tables /\ sz \in Nat
      /\ sz <= TopPage * PgSize /\ Below(t, PgUp(sz)) /\ MK \in Kernels
      /\ SlotOk(p, mem[p], exec[p], lineage[p])
  BY At
<1>2. /\ t.root # 0 /\ mem' = Puts(mem, p, Image(mem[p], u, sz)) /\ Becomes(r.k)
      /\ UNCHANGED <<exec, lineage>>
  BY DEF Access, InUser, Runs, Puts
<1>3. /\ p \in lineage[p] /\ lineage[p] \in SUBSET Slots
      /\ \A x \in VPages : t.map[x] \in {Hole} \union SUBSET lineage[p]
  BY <1>1, <1>2 DEF SlotOk
<1>4. now \in Loops /\ now.k = MK /\ now.t = t
  BY <1>1 DEF Loops
<1>5. /\ Keeps(r, MK, t) /\ Below(r.t, PgUp(sz))
      /\ \A x \in VPages : r.t.map[x] \in {Hole} \union SUBSET lineage[p]
  <2>1. CASE Faults(mem[p], v)
    <3>1. r = AddPage(now, v, {})
      BY <2>1
    <3>2. t.map[v] = Hole /\ v < PgUp(sz) /\ PgUp(sz) \in Nat
      <4>1. v \in Nat /\ v * PgSize < sz /\ t.map[v] = Hole
        BY <2>1, MemoryConstants DEF Faults
      <4> QED
        BY <1>1, <4>1, PgUpFacts
    <3> HIDE DEF r, now
    <3>3. {} \in SUBSET Slots
      OBVIOUS
    <3>4. Adds(now, r, v, {})
      BY <1>4, <3>1, <3>2, <3>3, AddPageFacts
    <3>5. r.k \in Kernels /\ r.t \in Tables
      BY <3>4 DEF Adds, Loops
    <3>6. Keeps(r, MK, t)
      BY <1>4, <3>4, <3>5 DEF Adds, Keeps
    <3>7. \A x \in VPages : x # v => r.t.map[x] = t.map[x]
      BY <1>4, <3>4 DEF Adds
    <3>8. r.t.map[v] \in {Hole, {}}
      BY <3>4 DEF Adds
    <3>9. Below(r.t, PgUp(sz))
      <4> SUFFICES ASSUME NEW x \in VPages, x >= PgUp(sz)
                   PROVE  r.t.map[x] = Hole
        BY DEF Below
      <4>1. x # v
        BY <3>2, MemoryConstants
      <4> QED
        BY <1>1, <3>7, <4>1 DEF Below
    <3>10. \A x \in VPages : r.t.map[x] \in {Hole} \union SUBSET lineage[p]
      BY <1>3, <3>7, <3>8
    <3> QED
      BY <3>6, <3>9, <3>10
  <2>2. CASE ~ Faults(mem[p], v)
    <3>1. r = now
      BY <2>2
    <3> HIDE DEF r, now
    <3>2. Keeps(r, MK, t)
      BY <1>1, <1>4, <3>1 DEF Keeps, SameTotal
    <3> QED
      BY <1>1, <1>3, <1>4, <3>1, <3>2
  <2> QED
    BY <2>1, <2>2
<1> HIDE DEF r, now
<1>6. /\ u \in Tables /\ TablePages(u) = TablePages(r.t)
      /\ u.root = r.t.root /\ u.high = r.t.high
      /\ \A x \in VPages : \/ u.map[x] = r.t.map[x]
                           \/ r.t.map[x] # Hole /\ u.map[x] = r.t.map[x] \union {p}
  <2>1. r.t \in Tables
    BY <1>5 DEF Keeps
  <2> QED
    BY <2>1, LoadedFacts
<1>7. r1.k = r.k /\ r1.t = u
  OBVIOUS
<1> HIDE DEF u, r1
<1>8. Keeps(r1, MK, t)
  BY <1>5, <1>6, <1>7 DEF Keeps, SameTotal
<1>9. Below(u, PgUp(sz))
  BY <1>5, <1>6 DEF Below
<1>10. \A x \in VPages : u.map[x] \in {Hole} \union SUBSET lineage[p]
  BY <1>3, <1>5, <1>6
<1>11. /\ Below(r1.t, PgUp(sz)) /\ mem' = Puts(mem, p, Image(mem[p], r1.t, sz))
       /\ \A x \in VPages : r1.t.map[x] \in {Hole} \union SUBSET lineage[p]
       /\ Becomes(r1.k)
  BY <1>2, <1>7, <1>9, <1>10
<1> HIDE DEF sz, t
<1> QED
  BY <1>1, <1>2, <1>8, <1>11, ImageStep DEF sz, t

\* A step of exec() at p.
LEMMA ExecStep ==
    ASSUME MemInv, NEW p \in Slots, NEW k \in Kernels, NEW e,
           exec' = Puts(exec, p, e), UNCHANGED <<mem, lineage>>, Becomes(k), k.panic = "none",
           ExecOk(e),
           k.free + TablePages(e.table) + e.argv = kmem + TablePages(exec[p].table) + exec[p].argv
    PROVE  MemInv'
<1> DEFINE m == mem[p]
           l == lineage[p]
<1>1. SlotOk(p, m, exec[p], l) /\ mem \in [Slots -> Mems] /\ lineage \in [Slots -> SUBSET Slots]
      /\ kmem \in Nat
  BY At
<1>2. mem' = Puts(mem, p, m) /\ lineage' = Puts(lineage, p, l)
  BY <1>1 DEF Puts
<1> HIDE DEF m, l
<1>3. SlotOk(p, m, e, l)
  BY <1>1 DEF SlotOk
<1>4. /\ m.trapframe \in Nat /\ TablePages(m.table) \in Nat
      /\ TablePages(e.table) \in Nat /\ e.argv \in Nat
  BY <1>3, PagesType
<1>5. TablePages(exec[p].table) \in Nat /\ exec[p].argv \in Nat
  BY <1>1, PagesType
<1>6. k.free \in Nat
  BY KernelFacts
<1>7. k.free + Pages(m, e) = kmem + Pages(m, exec[p])
  BY <1>1, <1>4, <1>5, <1>6 DEF Pages
<1>8. Pages(m, exec[p]) = Pages(mem[p], exec[p])
  BY DEF m
<1> QED
  BY <1>2, <1>3, <1>7, <1>8, StepAt

\* A step of exec() at p that changes its table and the free list alike.
LEMMA BuildStep ==
    ASSUME MemInv, NEW p \in Slots, NEW r, NEW s \in Nat, NEW at \in {"load", "commit", "bad"},
           exec' = Puts(exec, p, Building(exec[p], at, r.t, s)), UNCHANGED <<mem, lineage>>,
           Becomes(r.k), Keeps(r, MK, exec[p].table), exec[p].table.root = 1,
           s <= TopPage * PgSize, Below(r.t, PgUp(s)),
           \A v \in VPages : r.t.map[v] \in {Hole, {}}
    PROVE  MemInv'
<1> DEFINE e == Building(exec[p], at, r.t, s)
<1>1. /\ exec[p] \in Execs /\ exec[p].table \in Tables /\ exec[p].argv \in Nat
      /\ MK.free = kmem /\ MK.panic = "none" /\ kmem \in Nat
  BY At
<1>2. /\ r.k \in Kernels /\ r.t \in Tables /\ r.k.panic = "none" /\ r.t.root = 1
      /\ r.k.free + TablePages(r.t) = kmem + TablePages(exec[p].table)
  BY <1>1 DEF Keeps, SameTotal
<1>3. at \in {"none", "open", "load", "commit", "bad"} /\ at # "none" /\ at # "open"
  OBVIOUS
<1>4. /\ e.at = at /\ e.table = r.t /\ e.sz = s /\ e.argv = exec[p].argv /\ e \in Execs
  BY <1>1, <1>2, <1>3, BuildingFacts
<1>5. exec' = Puts(exec, p, e)
  OBVIOUS
<1> HIDE DEF e
<1>6. ExecOk(e)
  BY <1>2, <1>3, <1>4 DEF ExecOk
<1>7. /\ r.k.free \in Nat /\ TablePages(r.t) \in Nat /\ TablePages(exec[p].table) \in Nat
  BY <1>1, <1>2, KernelFacts, TablePagesType
<1>8. r.k.free + TablePages(e.table) + e.argv = kmem + TablePages(exec[p].table) + exec[p].argv
  BY <1>1, <1>2, <1>4, <1>7
<1> QED
  BY <1>2, <1>5, <1>6, <1>8, ExecStep

\* No exec() is in order.
LEMMA NoExecFacts ==
    ExecOk(NoExec) /\ NoExec.table = NoTable /\ NoExec.argv = 0 /\ NoExec.at = "none" /\ NoExec.sz = 0
<1>1. NoExec.table = NoTable /\ NoExec.argv = 0 /\ NoExec.at = "none" /\ NoExec.sz = 0
  BY DEF NoExec
<1>2. NoExec \in Execs
  BY NoTableFacts DEF NoExec, Execs
<1>3. 0 <= TopPage * PgSize
  BY MemoryConstants
<1> QED
  BY <1>1, <1>2, <1>3, NoTableFacts DEF ExecOk, Below

\* sys_exec() copies the arguments.
LEMMA ExecArgsStep ==
    ASSUME MemInv, NEW p \in Slots, NEW n \in Argc, ExecArgs(p, n)
    PROVE  MemInv'
<1> DEFINE e == Building([argv |-> n], "open", NoTable, 0)
           k == [free |-> kmem - n, panic |-> mpanic]
<1>1. /\ SlotOk(p, mem[p], exec[p], lineage[p]) /\ kmem \in Nat /\ MK \in Kernels
      /\ MK.panic = "none" /\ n \in Nat
  BY At, MemoryAssumption
<1>2. /\ exec[p].at = "none" /\ n <= kmem /\ kmem' = kmem - n /\ mpanic = "none"
      /\ exec' = Puts(exec, p, e) /\ UNCHANGED <<mem, lineage, mpanic>>
  BY DEF ExecArgs, InUser, Runs, ImageKept, Puts
<1>3. exec[p] = NoExec
  BY <1>1, <1>2 DEF SlotOk, ExecOk
<1>4. k \in Kernels /\ k.free = kmem - n /\ k.panic = "none"
  BY <1>1, <1>2 DEF Kernels, Panics
<1>5. Becomes(k)
  BY <1>2, <1>4 DEF Becomes
<1>6. e = [at |-> "open", table |-> NoTable, sz |-> 0, argv |-> n]
  BY DEF Building
<1>7. e \in Execs /\ e.at = "open" /\ e.table = NoTable /\ e.sz = 0 /\ e.argv = n
  BY <1>1, <1>6, NoTableFacts DEF Execs
<1> HIDE DEF e, k
<1>8. ExecOk(e)
  BY <1>7, NoExecFacts, NoTableFacts DEF ExecOk
<1>9. k.free + TablePages(e.table) + e.argv = kmem + TablePages(exec[p].table) + exec[p].argv
  BY <1>1, <1>3, <1>4, <1>7, NoExecFacts, NoTableFacts
<1> QED
  BY <1>2, <1>4, <1>5, <1>8, <1>9, ExecStep

\* kexec() makes a page table, or does not.
LEMMA ExecTableStep ==
    ASSUME MemInv, NEW p \in Slots, ExecTable(p)
    PROVE  MemInv'
<1> DEFINE x == exec[p]
           r == ProcPagetable(MK)
           at == IF r.t.root = 0 THEN "bad" ELSE "load"
           e1 == Building(x, "bad", x.table, x.sz)
           e2 == Building(x, at, r.t, 0)
<1>1. /\ SlotOk(p, mem[p], x, lineage[p]) /\ x \in Execs /\ x.table \in Tables
      /\ MK \in Kernels /\ MK.panic = "none" /\ MK.free = kmem /\ kmem \in Nat /\ x.argv \in Nat
  BY At
<1>2. /\ x.at = "open" /\ UNCHANGED <<mem, lineage>>
      /\ \/ Becomes(MK) /\ exec' = Puts(exec, p, e1)
         \/ Becomes(r.k) /\ exec' = Puts(exec, p, e2)
  BY DEF ExecTable, In, ImageKept, Puts
<1>3. ExecOk(x) /\ x.table = NoTable /\ x.sz = 0 /\ TablePages(x.table) = 0
  BY <1>1, <1>2, NoTableFacts DEF SlotOk, ExecOk
<1>4. CASE Becomes(MK) /\ exec' = Puts(exec, p, e1)
  <2>1. x.sz \in Nat /\ "bad" \in {"none", "open", "load", "commit", "bad"}
    BY <1>3
  <2>2. e1.at = "bad" /\ e1.table = x.table /\ e1.sz = x.sz /\ e1.argv = x.argv /\ e1 \in Execs
    BY <1>1, <2>1, BuildingFacts
  <2>3. exec' = Puts(exec, p, e1)
    BY <1>4
  <2> HIDE DEF e1
  <2>4. ExecOk(e1)
    BY <1>3, <2>2 DEF ExecOk
  <2>5. MK.free + TablePages(e1.table) + e1.argv = kmem + TablePages(exec[p].table) + exec[p].argv
    BY <1>1, <2>2
  <2> QED
    BY <1>1, <1>2, <1>4, <2>3, <2>4, <2>5, ExecStep
<1>5. CASE Becomes(r.k) /\ exec' = Puts(exec, p, e2)
  <2>1. /\ r.k \in Kernels /\ r.t \in Tables
        /\ r.k.panic = MK.panic /\ r.k.free + TablePages(r.t) = MK.free
        /\ \A v \in VPages : r.t.map[v] = Hole
        /\ r.t.root = 0 => r.t = NoTable
    BY <1>1, ProcPagetableFacts
  <2> HIDE DEF r
  <2>2. at \in {"bad", "load"} /\ (at = "load" => r.t.root # 0)
    OBVIOUS
  <2> HIDE DEF at
  <2>3. e2.at = at /\ e2.table = r.t /\ e2.sz = 0 /\ e2.argv = x.argv /\ e2 \in Execs
    BY <1>1, <2>1, <2>2, BuildingFacts
  <2>4. exec' = Puts(exec, p, e2)
    BY <1>5
  <2> HIDE DEF e2
  <2>5. r.t.root # 0 => r.t.root = 1
    BY <2>1 DEF Tables
  <2>6. ExecOk(e2)
    BY <2>1, <2>2, <2>3, <2>5, NoExecFacts DEF ExecOk, Below
  <2>7. r.k.free \in Nat /\ TablePages(r.t) \in Nat
    BY <2>1, KernelFacts, TablePagesType
  <2>8. r.k.free + TablePages(e2.table) + e2.argv = kmem + TablePages(exec[p].table) + exec[p].argv
    BY <1>1, <1>3, <2>1, <2>3, <2>7
  <2> QED
    BY <1>1, <1>2, <1>5, <2>1, <2>4, <2>6, <2>8, ExecStep
<1> QED
  BY <1>2, <1>4, <1>5

\* kexec() loads a segment.
LEMMA ExecSegmentStep ==
    ASSUME MemInv, NEW p \in Slots, NEW end \in SegmentEnds, ExecSegment(p, end)
    PROVE  MemInv'
<1> DEFINE x == exec[p]
           u == Uvmalloc(MK, x.table, x.sz, end)
           s == IF u.sz = 0 THEN x.sz ELSE u.sz
<1>1. /\ SlotOk(p, mem[p], x, lineage[p]) /\ x.table \in Tables /\ x.sz \in Nat
      /\ x.sz <= TopPage * PgSize /\ Below(x.table, PgUp(x.sz)) /\ MK \in Kernels
  BY At
<1>2. PICK loaded \in BOOLEAN :
        /\ x.at = "load" /\ UNCHANGED <<mem, lineage>> /\ Becomes(u.k)
        /\ exec' = Puts(exec, p, Building(x, IF u.sz # 0 /\ loaded THEN "load" ELSE "bad", u.t, s))
  BY DEF ExecSegment, In, ImageKept, Puts
<1> DEFINE at == IF u.sz # 0 /\ loaded THEN "load" ELSE "bad"
<1>3. end \in Nat /\ end <= TopPage * PgSize
  <2>1. end \in 0 .. TopPage * PgSize /\ TopPage * PgSize \in Nat
    BY MemoryAssumption
  <2> QED
    BY <2>1
<1>4. /\ Keeps(u, MK, x.table) /\ u.sz \in Nat /\ u.sz <= TopPage * PgSize
      /\ Below(u.t, PgUp(s))
      /\ \A v \in VPages : u.t.map[v] \in {Hole, {}, x.table.map[v]}
  BY <1>1, <1>3, UvmallocFacts
<1>5. x.table.root = 1 /\ \A v \in VPages : x.table.map[v] \in {Hole, {}}
  BY <1>1, <1>2 DEF SlotOk, ExecOk
<1> HIDE DEF u
<1>6. at \in {"load", "commit", "bad"} /\ s \in Nat /\ s <= TopPage * PgSize
  BY <1>1, <1>4
<1>7. \A v \in VPages : u.t.map[v] \in {Hole, {}}
  BY <1>4, <1>5
<1> HIDE DEF at, s
<1>8. exec' = Puts(exec, p, Building(x, at, u.t, s))
  BY <1>2 DEF at
<1> QED
  BY <1>2, <1>4, <1>5, <1>6, <1>7, <1>8, BuildStep

\* kexec() allocates the stack.
LEMMA ExecStackStep ==
    ASSUME MemInv, NEW p \in Slots, ExecStack(p)
    PROVE  MemInv'
<1> DEFINE x  == exec[p]
           n  == PgUp(x.sz)
           sz == n * PgSize
           u  == Uvmalloc(MK, x.table, sz, sz + 2 * PgSize)
           s  == IF u.sz = 0 THEN sz ELSE u.sz
<1>1. /\ SlotOk(p, mem[p], x, lineage[p]) /\ x.table \in Tables /\ x.sz \in Nat
      /\ x.sz <= TopPage * PgSize /\ Below(x.table, n) /\ MK \in Kernels
  BY At
<1>2. PICK fits \in BOOLEAN :
        /\ x.at = "load" /\ n + 2 <= TopPage /\ UNCHANGED <<mem, lineage>> /\ Becomes(u.k)
        /\ exec' = Puts(exec, p, Building(x, IF u.sz # 0 /\ fits THEN "commit" ELSE "bad", u.t, s))
  BY DEF ExecStack, In, ImageKept, Puts
<1> DEFINE at == IF u.sz # 0 /\ fits THEN "commit" ELSE "bad"
<1>3. n \in Nat /\ sz \in Nat /\ PgUp(sz) = n
  <2>1. n \in Nat
    BY <1>1, PgUpFacts
  <2> HIDE DEF n
  <2> QED
    BY <2>1, PgUpExact
<1> HIDE DEF n
<1>4. sz + 2 * PgSize \in Nat /\ sz + 2 * PgSize <= TopPage * PgSize /\ sz <= TopPage * PgSize
  <2>1. sz + 2 * PgSize = (n + 2) * PgSize
    BY <1>3, MemoryConstants
  <2>2. (n + 2) * PgSize <= TopPage * PgSize
    BY <1>2, <1>3, MemoryConstants
  <2>3. sz <= sz + 2 * PgSize /\ sz + 2 * PgSize \in Nat /\ TopPage * PgSize \in Nat
    BY <1>3, MemoryConstants
  <2> HIDE DEF sz
  <2> QED
    BY <1>3, <2>1, <2>2, <2>3
<1>5. Below(x.table, PgUp(sz))
  BY <1>1, <1>3
<1> HIDE DEF sz
<1>6. /\ Keeps(u, MK, x.table) /\ u.sz \in Nat /\ u.sz <= TopPage * PgSize
      /\ Below(u.t, PgUp(s))
      /\ \A v \in VPages : u.t.map[v] \in {Hole, {}, x.table.map[v]}
  BY <1>1, <1>3, <1>4, <1>5, UvmallocFacts
<1>7. x.table.root = 1 /\ \A v \in VPages : x.table.map[v] \in {Hole, {}}
  BY <1>1, <1>2 DEF SlotOk, ExecOk
<1> HIDE DEF u
<1>8. at \in {"load", "commit", "bad"} /\ s \in Nat /\ s <= TopPage * PgSize
  BY <1>3, <1>4, <1>6
<1>9. \A v \in VPages : u.t.map[v] \in {Hole, {}}
  BY <1>6, <1>7
<1> HIDE DEF at, s
<1>10. exec' = Puts(exec, p, Building(x, at, u.t, s))
  BY <1>2 DEF at
<1> QED
  BY <1>2, <1>6, <1>7, <1>8, <1>9, <1>10, BuildStep

\* The new image replaces the old one.
LEMMA ExecCommitStep ==
    ASSUME MemInv, NEW p \in Slots, ExecCommit(p)
    PROVE  MemInv'
<1> DEFINE x == exec[p]
           o == mem[p]
           l == lineage[p]
           f == FreeTable(MK, o.table, o.sz)
           k == Kfree(f, x.argv)
           m == Image(o, x.table, x.sz)
<1>1. /\ SlotOk(p, o, x, l) /\ o.table \in Tables /\ o.sz \in Nat
      /\ Below(o.table, PgUp(o.sz)) /\ MK \in Kernels /\ MK.free = kmem /\ MK.panic = "none"
      /\ kmem \in Nat /\ x.argv \in Nat /\ x.table \in Tables /\ x.sz \in Nat
      /\ x.sz <= TopPage * PgSize /\ Below(x.table, PgUp(x.sz))
      /\ lineage \in [Slots -> SUBSET Slots]
  BY At
<1>2. /\ x.at = "commit" /\ o.table.root # 0 /\ Becomes(k) /\ mem' = Puts(mem, p, m)
      /\ exec' = Puts(exec, p, NoExec) /\ lineage' = lineage
  BY DEF ExecCommit, In, Runs, OldSize, Puts
<1>3. f \in Kernels /\ f.free = kmem + TablePages(o.table) /\ f.panic = "none"
  BY <1>1, FreeTableFacts
<1> HIDE DEF f
<1>4. k \in Kernels /\ k = [free |-> f.free + x.argv, panic |-> f.panic]
  BY <1>1, <1>3, KernelFacts
<1> HIDE DEF k
<1>5. k.free = kmem + TablePages(o.table) + x.argv /\ k.panic = "none"
  BY <1>3, <1>4
<1>6. x.table.root = 1 /\ (\A v \in VPages : x.table.map[v] \in {Hole, {}}) /\ p \in l
  BY <1>1, <1>2 DEF SlotOk, ExecOk
<1>7. \A v \in VPages : x.table.map[v] \in {Hole} \union SUBSET l
  BY <1>6
<1>8. /\ SlotOk(p, m, x, l)
      /\ Pages(m, x) = Pages(o, x) - TablePages(o.table) + TablePages(x.table)
  BY <1>1, <1>6, <1>7, ImageOk
<1> HIDE DEF m
<1>9. SlotOk(p, m, NoExec, l)
  BY <1>8, NoExecFacts DEF SlotOk
<1>10. Pages(m, NoExec) = m.trapframe + TablePages(m.table) /\ m.trapframe \in Nat
       /\ TablePages(m.table) \in Nat
  <2>1. Pages(m, NoExec) = m.trapframe + TablePages(m.table) + 0 + 0
    BY NoExecFacts, NoTableFacts DEF Pages
  <2>2. m.trapframe \in Nat /\ TablePages(m.table) \in Nat
    BY <1>8, PagesType
  <2> QED
    BY <2>1, <2>2
<1>11. /\ Pages(m, x) = m.trapframe + TablePages(m.table) + TablePages(x.table) + x.argv
       /\ TablePages(x.table) \in Nat /\ TablePages(o.table) \in Nat /\ Pages(o, x) \in Nat
  BY <1>1, PagesType DEF Pages
<1>12. k.free + Pages(m, NoExec) = kmem + Pages(o, x)
  BY <1>1, <1>5, <1>8, <1>10, <1>11
<1>13. lineage' = Puts(lineage, p, l)
  BY <1>1, <1>2 DEF Puts
<1> HIDE DEF l
<1> QED
  BY <1>2, <1>4, <1>5, <1>9, <1>12, <1>13, StepAt

\* Label bad of kexec().
LEMMA ExecBadStep ==
    ASSUME MemInv, NEW p \in Slots, ExecBad(p)
    PROVE  MemInv'
<1> DEFINE x == exec[p]
           f == IF x.table.root = 0 THEN MK ELSE FreeTable(MK, x.table, x.sz)
           k == Kfree(f, x.argv)
<1>1. /\ SlotOk(p, mem[p], x, lineage[p]) /\ MK \in Kernels /\ MK.free = kmem /\ MK.panic = "none"
      /\ kmem \in Nat /\ x.argv \in Nat /\ x.table \in Tables /\ x.sz \in Nat
      /\ Below(x.table, PgUp(x.sz))
  BY At
<1>2. Becomes(k) /\ exec' = Puts(exec, p, NoExec) /\ UNCHANGED <<mem, lineage>>
  BY DEF ExecBad, ImageKept, Puts
<1>3. TablePages(x.table) \in Nat
  BY <1>1, TablePagesType
<1>4. f \in Kernels /\ f.free = kmem + TablePages(x.table) /\ f.panic = "none"
  <2>1. CASE x.table.root = 0
    <3>1. x.table = NoTable
      BY <1>1, <2>1 DEF SlotOk, ExecOk
    <3>2. TablePages(x.table) = 0
      BY <3>1, NoTableFacts
    <3>3. f = MK
      BY <2>1
    <3> HIDE DEF f
    <3> QED
      BY <1>1, <3>2, <3>3
  <2>2. CASE x.table.root # 0
    <3>1. f = FreeTable(MK, x.table, x.sz)
      BY <2>2
    <3> HIDE DEF f
    <3> QED
      BY <1>1, <3>1, FreeTableFacts
  <2> QED
    BY <2>1, <2>2
<1> HIDE DEF f
<1>5. k \in Kernels /\ k = [free |-> f.free + x.argv, panic |-> f.panic]
  BY <1>1, <1>4, KernelFacts
<1> HIDE DEF k
<1>6. k.free = kmem + TablePages(x.table) + x.argv /\ k.panic = "none"
  BY <1>4, <1>5
<1>7. k.free + TablePages(NoExec.table) + NoExec.argv = kmem + TablePages(exec[p].table) + exec[p].argv
  BY <1>1, <1>3, <1>6, NoExecFacts, NoTableFacts
<1> QED
  BY <1>2, <1>5, <1>6, <1>7, NoExecFacts, ExecStep

\* No memory with an exec() in order.
LEMMA NoMemOk ==
    ASSUME NEW p \in Slots, NEW e, ExecOk(e)
    PROVE  SlotOk(p, NoMem, e, {}) /\ NoMem.trapframe + TablePages(NoMem.table) = 0
<1>1. 0 <= TopPage * PgSize
  BY MemoryConstants
<1>2. NoMem.trapframe + TablePages(NoMem.table) = 0
  BY NoMemFacts, NoTableFacts
<1>3. SlotOk(p, NoMem, e, {})
  BY <1>1, NoMemFacts, NoTableFacts DEF SlotOk
<1> QED
  BY <1>2, <1>3

\* A process is freed.
LEMMA FreeMemoryStep ==
    ASSUME MemInv, NEW p \in Slots, FreeMemory(p)
    PROVE  MemInv'
<1> DEFINE m == mem[p]
           e == exec[p]
           k == Freeproc(MK, m)
<1>1. /\ SlotOk(p, m, e, lineage[p]) /\ MK \in Kernels /\ MK.free = kmem /\ MK.panic = "none"
      /\ kmem \in Nat /\ exec \in [Slots -> Execs]
  BY At
<1>2. /\ Becomes(k) /\ mem' = Puts(mem, p, NoMem) /\ lineage' = Puts(lineage, p, {})
      /\ exec' = exec
  BY DEF FreeMemory, Puts
<1>3. /\ k \in Kernels /\ k.free = kmem + m.trapframe + TablePages(m.table) /\ k.panic = "none"
  <2>1. MemOk(m)
    BY <1>1 DEF SlotOk
  <2> HIDE DEF m
  <2> QED
    BY <1>1, <2>1, FreeprocFacts
<1> HIDE DEF k
<1>4. /\ m.trapframe \in Nat /\ TablePages(m.table) \in Nat
      /\ TablePages(e.table) \in Nat /\ e.argv \in Nat
  BY <1>1, PagesType
<1>5. SlotOk(p, NoMem, e, {}) /\ NoMem.trapframe + TablePages(NoMem.table) = 0
  BY <1>1, NoMemOk DEF SlotOk
<1>6. k.free + Pages(NoMem, e) = kmem + Pages(m, e)
  <2>1. Pages(NoMem, e) = TablePages(e.table) + e.argv
    BY <1>4, <1>5 DEF Pages
  <2>2. Pages(m, e) = m.trapframe + TablePages(m.table) + TablePages(e.table) + e.argv
    BY DEF Pages
  <2> QED
    BY <1>1, <1>3, <1>4, <2>1, <2>2
<1>7. exec' = Puts(exec, p, e)
  BY <1>1, <1>2 DEF Puts
<1>8. Pages(m, e) = Pages(mem[p], exec[p])
  OBVIOUS
<1> HIDE DEF e, m
<1> QED
  BY <1>2, <1>3, <1>5, <1>6, <1>7, <1>8, StepAt

\* kfork() copies the memory of a process, or leaves nothing.
LEMMA ForkMemoryStep ==
    ASSUME MemInv, NEW p \in Slots, NEW q \in Slots, ForkMemory(p, q)
    PROVE  MemInv'
<1> DEFINE m == mem[p]
           a == Allocproc(MK)
           c == Uvmcopy(a.k, m.table, a.m.table, m.sz)
           e == exec[q]
           f == Freeproc(c.k, Image(a.m, c.t, a.m.sz))
           fails == a.m = NoMem \/ ~ c.ok
           k == IF a.m = NoMem THEN a.k ELSE IF ~ c.ok THEN f ELSE c.k
           new == Image(a.m, c.t, m.sz)
           l == lineage[p] \union {q}
<1>1. /\ SlotOk(p, m, exec[p], lineage[p]) /\ MK \in Kernels /\ MK.free = kmem
      /\ MK.panic = "none" /\ kmem \in Nat /\ m.table \in Tables /\ m.sz \in Nat
      /\ m.sz <= TopPage * PgSize /\ Below(m.table, PgUp(m.sz))
  BY At
<1>2. /\ SlotOk(q, mem[q], e, lineage[q]) /\ mem \in [Slots -> Mems]
      /\ exec \in [Slots -> Execs] /\ lineage \in [Slots -> SUBSET Slots]
  BY At
<1>3. /\ m.table.root # 0 /\ mem[q] = NoMem /\ Becomes(k) /\ exec' = exec
      /\ mem' = IF fails THEN mem ELSE Puts(mem, q, new)
      /\ lineage' = IF fails THEN lineage ELSE Puts(lineage, q, l)
  BY DEF ForkMemory, InUser, Runs, Puts
<1>4. /\ a.k \in Kernels /\ MemOk(a.m) /\ a.k.panic = "none"
      /\ a.k.free + a.m.trapframe + TablePages(a.m.table) = kmem
      /\ a.m.sz = 0 /\ \A v \in VPages : a.m.table.map[v] = Hole
      /\ a.m = NoMem \/ a.m.table.root = 1
  BY <1>1, AllocprocFacts
<1> HIDE DEF a
<1>5. /\ a.m \in Mems /\ a.m.table \in Tables /\ a.m.trapframe \in Nat
  BY <1>4 DEF MemOk, Mems
<1>6. /\ Keeps(c, a.k, a.m.table) /\ Below(c.t, PgUp(m.sz))
      /\ \A v \in VPages : c.t.map[v] \in {Hole, m.table.map[v]}
      /\ ~ c.ok => \A v \in VPages : c.t.map[v] = Hole
  BY <1>1, <1>4, <1>5, UvmcopyFacts
<1> HIDE DEF c
<1>7. /\ c.k \in Kernels /\ c.t \in Tables /\ c.k.panic = "none" /\ c.t.root = a.m.table.root
      /\ c.k.free + TablePages(c.t) = a.k.free + TablePages(a.m.table)
  BY <1>4, <1>6 DEF Keeps, SameTotal
<1>8. /\ c.k.free \in Nat /\ a.k.free \in Nat /\ TablePages(c.t) \in Nat
      /\ TablePages(a.m.table) \in Nat
  BY <1>4, <1>5, <1>7, KernelFacts, TablePagesType
<1>9. exec' = Puts(exec, q, e) /\ Puts(mem, q, mem[q]) = mem /\ Puts(lineage, q, lineage[q]) = lineage
  BY <1>2, <1>3 DEF Puts
<1>10. CASE fails
  <2>1. k \in Kernels /\ k.free = kmem /\ k.panic = "none"
    <3>1. CASE a.m = NoMem
      <4>1. k = a.k
        BY <3>1
      <4>2. a.m.trapframe = 0 /\ TablePages(a.m.table) = 0
        BY <3>1, NoMemFacts, NoTableFacts
      <4> HIDE DEF k
      <4> QED
        BY <1>4, <1>8, <4>1, <4>2
    <3>2. CASE a.m # NoMem /\ ~ c.ok
      <4> DEFINE i == Image(a.m, c.t, a.m.sz)
      <4>1. a.m.sz \in Nat
        BY <1>4
      <4>2. i \in Mems /\ i.trapframe = a.m.trapframe /\ i.table = c.t /\ i.sz = 0
        BY <1>4, <1>5, <1>7, <4>1, ImageFacts
      <4>3. k = Freeproc(c.k, i)
        BY <3>2
      <4> HIDE DEF i, k, f
      <4>4. MemOk(i)
        BY <1>4, <1>6, <1>7, <3>2, <4>2 DEF MemOk, Below
      <4>5. k \in Kernels /\ k.free = c.k.free + i.trapframe + TablePages(i.table)
            /\ k.panic = c.k.panic
        BY <1>7, <4>3, <4>4, FreeprocFacts
      <4>6. k.free = kmem
        BY <1>4, <1>5, <1>7, <1>8, <4>2, <4>5
      <4> QED
        BY <1>7, <4>5, <4>6
    <3> QED
      BY <1>10, <3>1, <3>2
  <2>2. mem' = Puts(mem, q, mem[q]) /\ lineage' = Puts(lineage, q, lineage[q])
    BY <1>3, <1>9, <1>10
  <2> HIDE DEF k, e
  <2>3. k.free + Pages(mem[q], e) = kmem + Pages(mem[q], exec[q])
    BY <2>1 DEF e
  <2> QED
    BY <1>2, <1>3, <1>9, <2>1, <2>2, <2>3, StepAt
<1>11. CASE ~ fails
  <2>1. k = c.k /\ mem' = Puts(mem, q, new) /\ lineage' = Puts(lineage, q, l) /\ c.t.root = 1
    BY <1>3, <1>4, <1>7, <1>11
  <2>2. new \in Mems /\ new.trapframe = a.m.trapframe /\ new.table = c.t /\ new.sz = m.sz
    BY <1>1, <1>5, <1>7, ImageFacts
  <2> HIDE DEF new, k
  <2>3. MemOk(new)
    BY <1>6, <2>1, <2>2 DEF MemOk
  <2>4. /\ \A v \in VPages : m.table.map[v] \in {Hole} \union SUBSET lineage[p]
        /\ lineage[p] \in SUBSET Slots /\ ExecOk(e)
    BY <1>1, <1>2 DEF SlotOk
  <2>5. \A v \in VPages : c.t.map[v] \in {Hole} \union SUBSET l
    BY <1>6, <2>4
  <2>6. l \in SUBSET Slots /\ q \in l
    BY <2>4
  <2> HIDE DEF l, e
  <2>7. SlotOk(q, new, e, l)
    BY <1>1, <2>1, <2>2, <2>3, <2>4, <2>5, <2>6 DEF SlotOk
  <2>8. /\ TablePages(e.table) \in Nat /\ e.argv \in Nat
    BY <2>7, PagesType
  <2>9. Pages(new, e) = a.m.trapframe + TablePages(c.t) + TablePages(e.table) + e.argv
    BY <2>2 DEF Pages
  <2>10. Pages(mem[q], e) = TablePages(e.table) + e.argv
    <3>1. NoMem.trapframe = 0 /\ TablePages(NoMem.table) = 0
      BY NoMemFacts, NoTableFacts
    <3> QED
      BY <1>3, <2>8, <3>1 DEF Pages
  <2>11. k.free + Pages(new, e) = kmem + Pages(mem[q], e)
    BY <1>1, <1>4, <1>5, <1>7, <1>8, <2>1, <2>8, <2>9, <2>10
  <2>12. Pages(mem[q], e) = Pages(mem[q], exec[q])
    BY DEF e
  <2> QED
    BY <1>3, <1>7, <1>9, <2>1, <2>7, <2>11, <2>12, StepAt
<1> QED
  BY <1>10, <1>11
-----------------------------------------------------------------------------
(* Theorems about memory                                                   *)

\* userinit() leaves memory in order.
LEMMA MemoryInitInv == MemoryInit => MemInv
<1> SUFFICES ASSUME MemoryInit
             PROVE  MemInv
  OBVIOUS
<1> DEFINE k0 == [free |-> NPages, panic |-> "none"]
           a == Allocproc(k0)
           z == [q \in Slots |-> 0]
<1>1. k0 \in Kernels /\ k0.free = NPages /\ NPages \in Nat /\ InitSlot \in Slots
  BY MemoryConstants DEF Kernels, Panics
<1>2. /\ kmem = a.k.free /\ mpanic = "none"
      /\ mem = [q \in Slots |-> IF q = InitSlot THEN a.m ELSE NoMem]
      /\ exec = [q \in Slots |-> NoExec]
      /\ lineage = [q \in Slots |-> IF q = InitSlot THEN {q} ELSE {}]
  BY DEF MemoryInit
<1> HIDE DEF k0
<1>3. /\ a.k \in Kernels /\ MemOk(a.m)
      /\ a.k.free + a.m.trapframe + TablePages(a.m.table) = NPages
      /\ a.m.sz = 0 /\ \A v \in VPages : a.m.table.map[v] = Hole
      /\ a.m = NoMem \/ a.m.table.root = 1
  BY <1>1, AllocprocFacts
<1> HIDE DEF a
<1>4. a.m \in Mems /\ a.k.free \in Nat
  BY <1>3, KernelFacts DEF MemOk
<1>5. SlotOk(InitSlot, a.m, NoExec, {InitSlot})
  <2>1. 0 <= TopPage * PgSize
    BY MemoryConstants
  <2>2. a.m.table.root = 0 => a.m = NoMem
    BY <1>3
  <2> QED
    BY <1>1, <1>3, <2>1, <2>2, NoExecFacts DEF SlotOk
<1>6. \A q \in Slots : SlotOk(q, mem[q], exec[q], lineage[q])
  <2> SUFFICES ASSUME NEW q \in Slots
               PROVE  SlotOk(q, mem[q], exec[q], lineage[q])
    OBVIOUS
  <2>1. CASE q = InitSlot
    BY <1>2, <1>5, <2>1
  <2>2. CASE q # InitSlot
    <3>1. mem[q] = NoMem /\ exec[q] = NoExec /\ lineage[q] = {}
      BY <1>2, <2>2
    <3> QED
      BY <3>1, NoMemOk, NoExecFacts
  <2> QED
    BY <2>1, <2>2
<1>7. /\ mem \in [Slots -> Mems] /\ exec \in [Slots -> Execs]
      /\ lineage \in [Slots -> SUBSET Slots]
  <2>1. NoMem \in Mems /\ NoExec \in Execs
    BY NoMemFacts, NoExecFacts DEF MemOk, ExecOk
  <2> QED
    BY <1>2, <1>4, <2>1
<1>8. \A q \in Slots : Counts[q] = Pages(mem[q], exec[q]) /\ Counts[q] \in Nat
  <2>1. \A q \in Slots : Counts[q] = Pages(mem[q], exec[q])
    BY DEF Counts, PagesOf, Pages
  <2> QED
    BY <1>6, <2>1, PagesType
<1>9. Counts[InitSlot] = a.m.trapframe + TablePages(a.m.table)
  <2>1. mem[InitSlot] = a.m /\ exec[InitSlot] = NoExec
    BY <1>1, <1>2
  <2>2. a.m.trapframe \in Nat /\ TablePages(a.m.table) \in Nat
    BY <1>5, PagesType
  <2>3. Counts[InitSlot] = a.m.trapframe + TablePages(a.m.table) + 0 + 0
    BY <1>1, <1>8, <2>1, NoExecFacts, NoTableFacts DEF Pages
  <2> QED
    BY <2>2, <2>3
<1>10. \A q \in Slots : q # InitSlot => Counts[q] = 0
  <2> SUFFICES ASSUME NEW q \in Slots, q # InitSlot
               PROVE  Counts[q] = 0
    OBVIOUS
  <2>1. mem[q] = NoMem /\ exec[q] = NoExec
    BY <1>2
  <2>2. Counts[q] = 0 + 0 + 0 + 0
    BY <1>8, <2>1, NoMemFacts, NoExecFacts, NoTableFacts DEF Pages
  <2> QED
    BY <2>2
<1>11. z \in [Slots -> Nat] /\ Counts \in [Slots -> Nat] /\ z[InitSlot] = 0
       /\ \A q \in Slots : q # InitSlot => Counts[q] = z[q]
  <2>1. Counts = [q \in Slots |-> Counts[q]]
    BY DEF Counts
  <2> QED
    BY <1>1, <1>8, <1>10, <2>1
<1>12. Owned(z) = {}
  <2>1. 1 .. 0 = {}
    OBVIOUS
  <2>2. \A q \in Slots : {q} \X (1 .. z[q]) = {}
    BY <2>1
  <2> QED
    BY <2>2 DEF Owned
<1> HIDE DEF z
<1>13. IsFiniteSet(Owned(z)) /\ Cardinality(Owned(z)) = 0
  BY <1>12, FS_EmptySet
<1>14. /\ IsFiniteSet(Owned(Counts)) /\ Cardinality(Owned(Counts)) \in Nat
       /\ Cardinality(Owned(Counts)) + z[InitSlot] = Cardinality(Owned(z)) + Counts[InitSlot]
  BY <1>1, <1>11, <1>13, OwnedChange
<1>15. Counts[InitSlot] \in Nat
  BY <1>1, <1>8
<1>16. Cardinality(Owned(Counts)) = Counts[InitSlot]
  BY <1>11, <1>13, <1>14, <1>15
<1>17. kmem + Cardinality(Owned(Counts)) = NPages
  <2>1. a.m.trapframe \in Nat /\ TablePages(a.m.table) \in Nat
    BY <1>5, PagesType
  <2> QED
    BY <1>2, <1>3, <1>4, <1>9, <1>16, <2>1
<1> QED
  BY <1>2, <1>4, <1>6, <1>7, <1>14, <1>17 DEF MemInv

\* Every step leaves memory in order.
LEMMA MemoryStepInv == MemInv /\ [MemoryNext]_memoryVars => MemInv'
<1> SUFFICES ASSUME MemInv, [MemoryNext]_memoryVars
             PROVE  MemInv'
  OBVIOUS
<1>1. CASE UNCHANGED memoryVars
  <2>1. /\ UNCHANGED <<kmem, mem, exec, lineage, mpanic>>
    BY <1>1 DEF memoryVars
  <2>2. Counts' = Counts
    BY <2>1 DEF Counts, PagesOf
  <2>3. Owned(Counts)' = Owned(Counts)
    BY <2>2 DEF Owned
  <2> QED
    BY <2>1, <2>3 DEF MemInv
<1>2. CASE MemoryNext
  <2>1. PICK p \in Slots :
          \/ \E q \in Slots : ForkMemory(p, q)
          \/ FreeMemory(p)
          \/ \E n \in Growth : Sbrk(p, n) \/ SbrkLazy(p, n)
          \/ \E v \in VPages : Access(p, v)
          \/ \E n \in Argc : ExecArgs(p, n)
          \/ ExecTable(p) \/ ExecStack(p) \/ ExecCommit(p) \/ ExecBad(p)
          \/ \E end \in SegmentEnds : ExecSegment(p, end)
    BY <1>2 DEF MemoryNext
  <2>2. CASE \E q \in Slots : ForkMemory(p, q)
    BY <2>2, ForkMemoryStep
  <2>3. CASE FreeMemory(p)
    BY <2>3, FreeMemoryStep
  <2>4. CASE \E n \in Growth : Sbrk(p, n) \/ SbrkLazy(p, n)
    BY <2>4, SbrkStep, SbrkLazyStep
  <2>5. CASE \E v \in VPages : Access(p, v)
    BY <2>5, AccessStep
  <2>6. CASE \E n \in Argc : ExecArgs(p, n)
    BY <2>6, ExecArgsStep
  <2>7. CASE ExecTable(p)
    BY <2>7, ExecTableStep
  <2>8. CASE ExecStack(p)
    BY <2>8, ExecStackStep
  <2>9. CASE ExecCommit(p)
    BY <2>9, ExecCommitStep
  <2>10. CASE ExecBad(p)
    BY <2>10, ExecBadStep
  <2>11. CASE \E end \in SegmentEnds : ExecSegment(p, end)
    BY <2>11, ExecSegmentStep
  <2> QED
    BY <2>1, <2>2, <2>3, <2>4, <2>5, <2>6, <2>7, <2>8, <2>9, <2>10, <2>11
<1> QED
  BY <1>1, <1>2

\* Memory is always in order: every process has its tables below its size, and the pages
\* of the free list, of processes and of exec() are all there are.
THEOREM MemoryInvariant == MemorySpec => []MemInv
<1>1. MemoryInit => MemInv
  BY MemoryInitInv
<1>2. MemInv /\ [MemoryNext]_memoryVars => MemInv'
  BY MemoryStepInv
<1> QED
  BY <1>1, <1>2, PTL DEF MemorySpec

\* No page is lost or freed twice, page tables are torn down without a panic, and a
\* process finds only its own data in memory, whatever fails in fork(), exec() or sbrk().
THEOREM MemoryIsSound == MemorySpec => []MemorySound
<1>1. MemInv => MemorySound
  <2> SUFFICES ASSUME MemInv
               PROVE  MemorySound
    OBVIOUS
  <2>1. UNION {{p} \X (1 .. PagesOf(p)) : p \in Slots} = Owned(Counts)
    <3>1. \A p \in Slots : Counts[p] = PagesOf(p)
      BY DEF Counts
    <3> QED
      BY <3>1 DEF Owned
  <2>2. PagesAccounted
    BY <2>1 DEF MemInv, PagesAccounted
  <2>3. MemoryIsPrivate
    BY DEF MemInv, SlotOk, MemoryIsPrivate
  <2>4. MemoryNoPanic
    BY DEF MemInv, MemoryNoPanic
  <2> QED
    BY <2>2, <2>3, <2>4 DEF MemorySound
<1> QED
  BY <1>1, MemoryInvariant, PTL
=============================================================================
