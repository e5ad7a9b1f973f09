----------------------------- MODULE ShellJobs ------------------------------
(***************************************************************************)
(* Job control of the shell: the job table (shell/src/jobs.c), fg, bg and  *)
(* ping (job_control.c), the Ctrl-C and Ctrl-Z handlers (signals.c) and    *)
(* the parts of executor.c and main.c that fork and wait.                  *)
(*                                                                         *)
(* The kernel is external: proc is the state of every process id, event    *)
(* the state change of a child that waitpid() has not reported yet.  The   *)
(* kernel keeps the latest change only.  Process ids are reused once the   *)
(* child was reaped.  The shell never calls setpgid(), so the terminal     *)
(* sends Ctrl-C and Ctrl-Z to all its children as well.                    *)
(*                                                                         *)
(* pc is where the shell is:                                               *)
(*   check     in the loop of check_background_jobs()                      *)
(*   prompt    blocked in fgets()                                          *)
(*   next      between two commands of the line, or at its end             *)
(*   fg_set, fg_wait, fg_done     a foreground command: before             *)
(*             set_foreground_pid(), in waitpid(), after it                *)
(*   job_set, job_wait, job_done  the same in cmd_fg()                     *)
(*   pipe_wait in the waitpid() loop of a foreground pipeline              *)
(*   logout    after Ctrl-D                                                *)
(***************************************************************************)
EXTENDS Integers, Sequences, FiniteSets

CONSTANTS
    Pids,         \* process ids: positive integers
    MaxJobs,      \* MAX_JOBS
    MaxJobId,     \* bound on next_job_id
    Pipelines,    \* command lines with a pipe are entered, too
    ForkMayFail,  \* fork() may fail
    Outside       \* processes stop and continue by signals from elsewhere

ASSUME ShellJobsAssumption ==
    /\ Pids \subseteq Nat \ {0}
    /\ MaxJobs \in Nat \ {0}
    /\ MaxJobId \in Nat
    /\ Pipelines \in BOOLEAN /\ ForkMayFail \in BOOLEAN /\ Outside \in BOOLEAN

VARIABLES
    pc,
    jobs,            \* the job table
    next_job_id,
    foreground_pid,  \* NoPid when there is none
    proc,            \* process id -> state of the process (kernel)
    event,           \* process id -> change that waitpid() may report (kernel)
    waiting,         \* process ids the shell waits for, one after the other
    slot,            \* the job that cmd_fg() works on
    status,          \* the status that the last waitpid() returned
    lost             \* history: children the shell did not put into its table,
                     \* and NoPid once a fork() of a pipeline has failed

NoPid == -1

shellVars  == <<pc, jobs, next_job_id, foreground_pid, waiting, slot, status>>
kernelVars == <<proc, event, lost>>
vars       == <<shellVars, kernelVars>>

JobSlots  == 1 .. MaxJobs
JobStatus == {"running", "stopped"}
Job       == [in_use : BOOLEAN, job_id : Nat, pid : Pids \union {NoPid},
              status : JobStatus]

PC == {"check", "prompt", "next", "fg_set", "fg_wait", "fg_done",
       "job_set", "job_wait", "job_done", "pipe_wait", "logout"}
-----------------------------------------------------------------------------
(* The kernel                                                              *)

\* A child that has not been waited for since it ended.
Children == {p \in Pids : proc[p] # "free"}

\* A signal reaches process p: the next (state, event) of p.
Deliver(p, sig) ==
    CASE sig = "KILL" /\ proc[p] \in {"running", "stopped"} -> <<"zombie", "exit">>
      [] sig = "STOP" /\ proc[p] = "running"                -> <<"stopped", "stop">>
      [] sig = "CONT" /\ proc[p] = "stopped"                -> <<"running", "cont">>
      [] OTHER                                              -> <<proc[p], event[p]>>

\* The signal reaches every process of the set P.
Signal(P, sig) ==
    /\ proc'  = [p \in Pids |-> IF p \in P THEN Deliver(p, sig)[1] ELSE proc[p]]
    /\ event' = [p \in Pids |-> IF p \in P THEN Deliver(p, sig)[2] ELSE event[p]]
    /\ UNCHANGED lost

\* waitpid() has returned the event of p: an ended child is gone.
Reported(p) ==
    /\ proc'  = [proc  EXCEPT ![p] = IF event[p] = "exit" THEN "free" ELSE @]
    /\ event' = [event EXCEPT ![p] = "none"]
    /\ lost'  = IF event[p] = "exit" THEN lost \ {p} ELSE lost

\* A process ends by itself, or by a signal from elsewhere.
ProcessEnds(p) ==
    /\ proc[p] = "running"
    /\ Signal({p}, "KILL")
    /\ UNCHANGED shellVars

OutsideSignal(p, sig) ==
    /\ Outside
    /\ proc[p] \in {"running", "stopped"}
    /\ Signal({p}, sig)
    /\ UNCHANGED shellVars
-----------------------------------------------------------------------------
(* The job table                                                           *)

InUse == {i \in JobSlots : jobs[i].in_use}

\* get_job_by_pid(): the first job with this process id.
IsJobOf(i, p) ==
    /\ i \in InUse /\ jobs[i].pid = p
    /\ \A j \in InUse : jobs[j].pid = p => i <= j

\* add_job() takes the first free slot, or gives up on a full table.
AddJob(p, st) ==
    \/ /\ InUse = JobSlots
       /\ UNCHANGED <<jobs, next_job_id>>
    \/ \E i \in JobSlots \ InUse :
         /\ \A j \in JobSlots \ InUse : i <= j
         /\ jobs' = [jobs EXCEPT ![i] = [in_use |-> TRUE, job_id |-> next_job_id,
                                         pid |-> p, status |-> st]]
         /\ next_job_id' = next_job_id + 1

\* The process that add_job() does not record, if any.
Refused(p) == IF InUse = JobSlots THEN {p} ELSE {}

\* remove_job() with the id of job i.
RemoveJob(i) == jobs' = [jobs EXCEPT ![i].in_use = FALSE]

SetStatus(i, st) == jobs' = [jobs EXCEPT ![i].status = st]

Init ==
    /\ pc = "check"
    /\ jobs = [i \in JobSlots |-> [in_use |-> FALSE, job_id |-> 0,
                                   pid |-> NoPid, status |-> "running"]]
    /\ next_job_id = 1
    /\ foreground_pid = NoPid
    /\ proc = [p \in Pids |-> "free"]
    /\ event = [p \in Pids |-> "none"]
    /\ waiting = <<>>
    /\ slot = 1
    /\ status = "none"
    /\ lost = {}
-----------------------------------------------------------------------------
(* check_background_jobs()                                                 *)

\* Mutant: WIFCONTINUED is not handled.
CheckChild_NoCont(p) ==
    /\ pc = "check"
    /\ event[p] # "none"
    /\ Reported(p)
    /\ IF \E i \in InUse : IsJobOf(i, p)
         THEN \E i \in InUse :
                /\ IsJobOf(i, p)
                /\ CASE event[p] = "exit" -> RemoveJob(i)
                     [] event[p] = "stop" -> SetStatus(i, "stopped")
                     [] OTHER             -> UNCHANGED jobs
         ELSE UNCHANGED jobs
    /\ UNCHANGED <<pc, next_job_id, foreground_pid, waiting, slot, status>>

\* One iteration: waitpid(-1, WNOHANG | WUNTRACED | WCONTINUED) reports p.
CheckChild(p) ==
    /\ pc = "check"
    /\ event[p] # "none"
    /\ Reported(p)
    /\ IF \E i \in InUse : IsJobOf(i, p)
         THEN \E i \in InUse :
                /\ IsJobOf(i, p)
                /\ CASE event[p] = "exit" -> RemoveJob(i)
                     [] event[p] = "stop" -> SetStatus(i, "stopped")
                     [] event[p] = "cont" -> SetStatus(i, "running")
         ELSE UNCHANGED jobs
    /\ UNCHANGED <<pc, next_job_id, foreground_pid, waiting, slot, status>>

CheckDone ==
    /\ pc = "check"
    /\ \A p \in Pids : event[p] = "none"
    /\ pc' = "prompt"
    /\ UNCHANGED <<jobs, next_job_id, foreground_pid, waiting, slot, status,
                   kernelVars>>
-----------------------------------------------------------------------------
(* Commands                                                                *)

\* The shell takes the next command of the line.  next_job_id is bounded.
TakesCommand == pc \in {"prompt", "next"} /\ next_job_id <= MaxJobId

\* The line is done.
EndOfLine ==
    /\ pc = "next"
    /\ pc' = "check"
    /\ UNCHANGED <<jobs, next_job_id, foreground_pid, waiting, slot, status,
                   kernelVars>>

\* An empty line, a comment, a syntax error, or a command that forks nothing.
OtherCommand ==
    /\ pc = "prompt"
    /\ pc' = "next"
    /\ UNCHANGED <<jobs, next_job_id, foreground_pid, waiting, slot, status,
                   kernelVars>>

\* fork() of the processes P: the children run.
Fork(P) ==
    /\ \A p \in P : proc[p] = "free"
    /\ proc'  = [p \in Pids |-> IF p \in P THEN "running" ELSE proc[p]]
    /\ UNCHANGED event

\* execute_single_command(), background.
RunBackground(p) ==
    /\ TakesCommand
    /\ Fork({p})
    /\ AddJob(p, "running")
    /\ lost' = lost \union Refused(p)
    /\ pc' = "next"
    /\ UNCHANGED <<foreground_pid, waiting, slot, status>>

\* execute_single_command(), foreground: fork().
RunForeground(p) ==
    /\ TakesCommand
    /\ Fork({p})
    /\ waiting' = <<p>>
    /\ pc' = "fg_set"
    /\ UNCHANGED <<jobs, next_job_id, foreground_pid, slot, status, lost>>

\* set_foreground_pid() of a foreground command and of cmd_fg().
SetForeground ==
    /\ pc \in {"fg_set", "job_set"}
    /\ foreground_pid' = Head(waiting)
    /\ pc' = IF pc = "fg_set" THEN "fg_wait" ELSE "job_wait"
    /\ UNCHANGED <<jobs, next_job_id, waiting, slot, status, kernelVars>>

\* The children that waitpid(pid) waits for: any child when pid is -1.
WaitedFor(pid) == {p \in Children : pid \in {p, NoPid}}

\* Mutant: WUNTRACED is missing.
WaitUntraced_NoStop ==
    /\ pc \in {"fg_wait", "job_wait"}
    /\ \E p \in WaitedFor(Head(waiting)) :
         /\ event[p] = "exit"
         /\ status' = event[p]
         /\ Reported(p)
    /\ pc' = IF pc = "fg_wait" THEN "fg_done" ELSE "job_done"
    /\ UNCHANGED <<jobs, next_job_id, foreground_pid, waiting, slot>>

\* waitpid(pid, WUNTRACED) returns: the child has stopped or ended.  If
\* there is no such child it fails and leaves status uninitialized.
WaitUntraced ==
    /\ pc \in {"fg_wait", "job_wait"}
    /\ \/ \E p \in WaitedFor(Head(waiting)) :
            /\ event[p] \in {"stop", "exit"}
            /\ status' = event[p]
            /\ Reported(p)
       \/ /\ WaitedFor(Head(waiting)) = {}
          /\ status' \in {"none", "stop", "exit"}
          /\ UNCHANGED kernelVars
    /\ pc' = IF pc = "fg_wait" THEN "fg_done" ELSE "job_done"
    /\ UNCHANGED <<jobs, next_job_id, foreground_pid, waiting, slot>>

\* Mutant: the foreground process is not reset.
ForegroundDone_NoReset ==
    /\ pc = "fg_done"
    /\ IF status = "stop"
         THEN AddJob(Head(waiting), "stopped") /\ lost' = lost \union Refused(Head(waiting))
         ELSE UNCHANGED <<jobs, next_job_id, lost>>
    /\ waiting' = <<>>
    /\ pc' = "next"
    /\ UNCHANGED <<foreground_pid, slot, status, proc, event>>

\* A foreground command that stopped becomes a job.
ForegroundDone ==
    /\ pc = "fg_done"
    /\ foreground_pid' = NoPid
    /\ IF status = "stop"
         THEN AddJob(Head(waiting), "stopped") /\ lost' = lost \union Refused(Head(waiting))
         ELSE UNCHANGED <<jobs, next_job_id, lost>>
    /\ waiting' = <<>>
    /\ pc' = "next"
    /\ UNCHANGED <<slot, status, proc, event>>

\* cmd_fg() on job i, up to set_foreground_pid().  kill(-1) reaches all.
Fg(i) ==
    /\ TakesCommand
    /\ i \in InUse
    /\ IF jobs[i].status = "stopped"
         THEN Signal(WaitedFor(jobs[i].pid), "CONT")
         ELSE UNCHANGED kernelVars
    /\ SetStatus(i, "running")
    /\ waiting' = <<jobs[i].pid>>
    /\ slot' = i
    /\ pc' = "job_set"
    /\ UNCHANGED <<next_job_id, foreground_pid, status>>

\* Mutant: only a normal exit removes the job, not a signal.
FgDone_Kept ==
    /\ pc = "job_done"
    /\ foreground_pid' = NoPid
    /\ \/ status = "exit" /\ UNCHANGED jobs
       \/ status = "exit" /\ RemoveJob(slot)
       \/ status = "stop" /\ SetStatus(slot, "stopped")
    /\ waiting' = <<>>
    /\ pc' = "next"
    /\ UNCHANGED <<next_job_id, slot, status, kernelVars>>

\* cmd_fg() after waitpid().
FgDone ==
    /\ pc = "job_done"
    /\ foreground_pid' = NoPid
    /\ \/ status = "exit" /\ RemoveJob(slot)
       \/ status = "stop" /\ SetStatus(slot, "stopped")
       \/ status = "none" /\ UNCHANGED jobs
    /\ waiting' = <<>>
    /\ pc' = "next"
    /\ UNCHANGED <<next_job_id, slot, status, kernelVars>>

\* cmd_bg() on job i.
Bg(i) ==
    /\ TakesCommand
    /\ i \in InUse
    /\ IF jobs[i].status = "running"
         THEN UNCHANGED <<jobs, kernelVars>>
         ELSE /\ Signal(WaitedFor(jobs[i].pid), "CONT")
              /\ SetStatus(i, "running")
    /\ pc' = "next"
    /\ UNCHANGED <<next_job_id, foreground_pid, waiting, slot, status>>

\* cmd_ping(): a signal for a child of the shell.
Ping(p, sig) ==
    /\ TakesCommand
    /\ p \in Children
    /\ Signal({p}, sig)
    /\ pc' = "next"
    /\ UNCHANGED <<jobs, next_job_id, foreground_pid, waiting, slot, status>>
-----------------------------------------------------------------------------
(* execute_pipeline() with two commands: q | p.  A fork() that fails       *)
(* leaves -1 in pids[].                                                    *)

Forked == {p \in Pids : proc[p] = "free"} \union IF ForkMayFail THEN {NoPid} ELSE {}

\* In the background the last process is the job.
PipelineBackground(q, p) ==
    /\ Pipelines
    /\ TakesCommand
    /\ q \in Forked /\ p \in Forked /\ (q = p => p = NoPid)
    /\ Fork({q, p} \ {NoPid})
    /\ AddJob(p, "running")
    /\ lost' = lost \union {q} \union Refused(p) \union ({p} \intersect {NoPid})
    /\ pc' = "next"
    /\ UNCHANGED <<foreground_pid, waiting, slot, status>>

PipelineForeground(q, p) ==
    /\ Pipelines
    /\ TakesCommand
    /\ q \in Forked /\ p \in Forked /\ (q = p => p = NoPid)
    /\ Fork({q, p} \ {NoPid})
    /\ waiting' = <<q, p>>
    /\ lost' = lost \union {q, p}
    /\ pc' = "pipe_wait"
    /\ UNCHANGED <<jobs, next_job_id, foreground_pid, slot, status>>

\* waitpid(pids[i], 0) returns: the process has ended, or there is none.
WaitStage ==
    /\ pc = "pipe_wait"
    /\ waiting # <<>>
    /\ \/ \E p \in WaitedFor(Head(waiting)) : event[p] = "exit" /\ Reported(p)
       \/ WaitedFor(Head(waiting)) = {} /\ UNCHANGED kernelVars
    /\ waiting' = Tail(waiting)
    /\ UNCHANGED <<pc, jobs, next_job_id, foreground_pid, slot, status>>

PipelineDone ==
    /\ pc = "pipe_wait"
    /\ waiting = <<>>
    /\ pc' = "next"
    /\ UNCHANGED <<jobs, next_job_id, foreground_pid, waiting, slot, status,
                   kernelVars>>
-----------------------------------------------------------------------------
(* The terminal.  A process may ignore a signal: P obeys it.               *)

\* Ctrl-C: SIGINT for all; the handler only sends it once more.
CtrlC(P) ==
    /\ pc # "logout"
    /\ P # {} /\ \A p \in P : proc[p] = "running"
    /\ Signal(P, "KILL")
    /\ UNCHANGED shellVars

\* Ctrl-Z: SIGTSTP for all; the handler forgets the foreground process.
CtrlZ(P) ==
    /\ pc # "logout"
    /\ \A p \in P : proc[p] = "running"
    /\ Signal(P, "STOP")
    /\ IF foreground_pid > 0
         THEN /\ foreground_pid' = NoPid
              /\ IF \E i \in InUse : IsJobOf(i, foreground_pid)
                   THEN \E i \in InUse :
                          IsJobOf(i, foreground_pid) /\ SetStatus(i, "stopped")
                   ELSE UNCHANGED jobs
         ELSE UNCHANGED <<jobs, foreground_pid>>
    /\ UNCHANGED <<pc, next_job_id, waiting, slot, status>>

\* Ctrl-D: kill(0, SIGKILL).
CtrlD ==
    /\ pc = "prompt"
    /\ Signal(Pids, "KILL")
    /\ pc' = "logout"
    /\ UNCHANGED <<jobs, next_job_id, foreground_pid, waiting, slot, status>>
-----------------------------------------------------------------------------
\* The steps the shell takes by itself.
ShellStep ==
    \/ CheckDone \/ EndOfLine \/ SetForeground \/ WaitUntraced
    \/ ForegroundDone \/ FgDone \/ WaitStage \/ PipelineDone
    \/ \E p \in Pids : CheckChild(p)

Command ==
    \/ OtherCommand
    \/ \E p \in Pids : RunBackground(p) \/ RunForeground(p)
    \/ \E i \in JobSlots : Fg(i) \/ Bg(i)
    \/ \E p \in Pids, sig \in {"KILL", "STOP", "CONT"} : Ping(p, sig)
    \/ \E q, p \in Forked : PipelineBackground(q, p) \/ PipelineForeground(q, p)

Kernel ==
    \E p \in Pids : ProcessEnds(p) \/ \E sig \in {"STOP", "CONT"} : OutsideSignal(p, sig)

Terminal == CtrlD \/ \E P \in SUBSET Pids : CtrlC(P) \/ CtrlZ(P)

Next == ShellStep \/ Command \/ Kernel \/ Terminal

Spec     == Init /\ [][Next]_vars

\* The shell runs whenever it is not blocked.
FairSpec == Spec /\ WF_vars(ShellStep)
-----------------------------------------------------------------------------
(* Properties                                                              *)

\* Types of all variables.
TypeOK ==
    /\ pc \in PC
    /\ jobs \in [JobSlots -> Job]
    /\ next_job_id \in Nat
    /\ foreground_pid \in Pids \union {NoPid}
    /\ proc \in [Pids -> {"free", "running", "stopped", "zombie"}]
    /\ event \in [Pids -> {"none", "stop", "cont", "exit"}]
    /\ waiting \in Seq(Pids \union {NoPid})
    /\ slot \in JobSlots
    /\ status \in {"none", "stop", "exit"}
    /\ lost \subseteq Pids \union {NoPid}

\* The properties below hold until a fork() of a pipeline fails.
ForksWell == NoPid \notin lost

\* cmd_fg() is between taking job i and writing its status back.
HeldByFg(i) == slot = i /\ pc \in {"job_set", "job_wait", "job_done"}

\* A job in the table is a child that has not been reaped, so that fg, bg
\* and the handlers never signal a process id that belongs to somebody else
\* and check_background_jobs() will hear of its end.  The exception is the
\* job that cmd_fg() has just reaped and is about to remove.
JobIsChild ==
    ForksWell => \A i \in InUse :
        \/ jobs[i].pid \in Children
        \/ HeldByFg(i) /\ pc = "job_done" /\ status = "exit"

\* When the table is wrong about a job, the kernel still has to report the
\* change: the next check_background_jobs() corrects it.  No stop or
\* continue is lost, in whatever order signals, waits and commands happen.
WrongIsPending ==
    \A i \in InUse : ForksWell /\ ~HeldByFg(i) =>
        LET p == jobs[i].pid
        IN  /\ jobs[i].status = "running" /\ proc[p] = "stopped" => event[p] = "stop"
            /\ jobs[i].status = "stopped" /\ proc[p] = "running" => event[p] = "cont"
            /\ proc[p] = "zombie" => event[p] = "exit"

\* The Ctrl-C and Ctrl-Z handlers, which may run at any point, signal only
\* the process that the shell waits for, also when forks have failed.
ForegroundIsWaited ==
    foreground_pid # NoPid =>
        /\ pc \in {"fg_wait", "fg_done", "job_wait", "job_done"}
        /\ foreground_pid = Head(waiting)

\* No two jobs share an id or a process.
JobsDistinct ==
    ForksWell => \A i, j \in InUse :
        i # j => jobs[i].job_id # jobs[j].job_id /\ jobs[i].pid # jobs[j].pid

\* At the prompt every child is in the job table: a command that was
\* stopped, started in the background or brought to the foreground is shown
\* by activities and can still be reached by fg and bg.  The exceptions are
\* the first commands of a pipeline and what add_job() refused.
AllListed ==
    ForksWell /\ pc = "prompt" =>
        \A p \in Children \ lost : \E i \in InUse : jobs[i].pid = p

\* The table lists the children of the shell: each once, no others, none forgotten.
JobTableSound == TypeOK /\ JobIsChild /\ JobsDistinct /\ AllListed

\* The foreground command is in one of the states S.
AwaitedIn(S) == \E p \in Pids : waiting = <<p>> /\ proc[p] \in S

\* A foreground command, also one that fg resumed, gives control back to the
\* shell when it stops or ends, whatever was reported about it before; unless
\* somebody else lets it continue.
StopReturnsPrompt ==
    ForksWell /\ pc \in {"fg_wait", "job_wait"} /\ AwaitedIn({"stopped", "zombie"})
        ~> pc = "next" \/ AwaitedIn({"running"})
-----------------------------------------------------------------------------
(* What the documentation says and the code does not do                    *)

\* "Ctrl-Z: Stop foreground process": also a pipeline that is stopped gives
\* control back.
PipelineReturnsPrompt ==
    pc = "pipe_wait" /\ (\A p \in Children : proc[p] = "stopped") /\ waiting # <<>>
        ~> pc = "next"
=============================================================================
