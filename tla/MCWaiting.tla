----------------------------- MODULE MCWaiting ------------------------------
(***************************************************************************)
(* Components whose parts wait for each other, model-checked side by side: *)
(* the shell's job control, the redo log of xv6, and a S.H.A.M. transfer   *)
(* on a network that loses nothing and is quicker than the timers.  They   *)
(* share no state, so a behaviour is one of a single component, the focus. *)
(***************************************************************************)
EXTENDS ShellJobs, Xv6Log

CONSTANTS DataSize, WindowSize, MaxRetries, FileSize, SockBuf, Lossy, Duplicating,
          Reordering, Pace, SimulatedLoss, ServerFaults

VARIABLES
    toServer, toClient,
    cpc, window_base, next_seq_num, file_pos, done_sending, window, retx_i,
    spc, next_expected_seq, recv_buffer, recv_buffer_size, received_file,
    focus

Transfer == INSTANCE ShamTransfer

transferVars == <<toServer, toClient,
                  cpc, window_base, next_seq_num, file_pos, done_sending, window, retx_i,
                  spc, next_expected_seq, recv_buffer, recv_buffer_size, received_file>>
waitingVars  == <<vars, diskLogVars, transferVars, focus>>

WaitingInit ==
    /\ Init /\ LogInit /\ Transfer!Init
    /\ focus \in {"jobs", "log", "transfer"}

\* The components but f stay as they are.
OthersStay(f) ==
    /\ UNCHANGED focus
    /\ f # "jobs"     => UNCHANGED vars
    /\ f # "log"      => UNCHANGED diskLogVars
    /\ f # "transfer" => UNCHANGED transferVars

WaitingNext ==
    \/ focus = "jobs"     /\ Next          /\ OthersStay("jobs")
    \/ focus = "log"      /\ LogNext       /\ OthersStay("log")
    \/ focus = "transfer" /\ Transfer!Next /\ OthersStay("transfer")

\* The fairness of each component, for the behaviours that are about it.
Fairness ==
    /\ WF_vars(focus = "jobs" /\ ShellStep)
    /\ WF_diskLogVars(focus = "log" /\ KernelStep)
    /\ \A p \in Procs :
          /\ WF_diskLogVars(focus = "log" /\ EndOp(p))
          /\ WF_diskLogVars(focus = "log" /\ call[p] = "woken" /\ BeginOp(p))
    /\ WF_transferVars(focus = "transfer" /\ Transfer!Client)
    /\ WF_transferVars(focus = "transfer" /\ Transfer!Server)
    /\ SF_transferVars(focus = "transfer" /\ Transfer!Timer)

WaitingSpec == WaitingInit /\ [][WaitingNext]_waitingVars /\ Fairness
-----------------------------------------------------------------------------
\* The disk as mkfs wrote it.
ZeroDisk == [b \in Blocks |-> 0]

\* On such a network the file arrives and is written, and both programs end.
FileArrives == focus = "transfer" => Transfer!FileArrives
=============================================================================
