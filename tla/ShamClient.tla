----------------------------- MODULE ShamClient -----------------------------
(***************************************************************************)
(* The S.H.A.M. client (networking/client.c) in file mode: the three-way   *)
(* handshake, send_file() with its sliding window, and the four-way        *)
(* termination.                                                            *)
(*                                                                         *)
(* cpc is the point of main() the client has reached:                      *)
(*   start     before perform_handshake() sends SYN                        *)
(*   syn_sent  waiting for SYN-ACK                                         *)
(*   fill      at the inner loop of send_file() that sends new packets     *)
(*   await     at recv_packet_timeout(), waiting for an ACK                *)
(*   retx      in the loop that retransmits, at slot retx_i                *)
(*   fin       send_file() returned 0, before perform_termination()        *)
(*   fin_ack, fin_peer  the two receives of perform_termination()          *)
(*   closed, failed     main() returned 0, or 1                            *)
(* Clocks are abstracted: a slot that is_timeout() is asked about may have *)
(* timed out or not (SlotMayTimeout).  window[i].acked is left out: it is  *)
(* never set to true.                                                      *)
(***************************************************************************)
EXTENDS Sham

VARIABLES
    cpc,
    window_base,    \* first unacknowledged sequence number
    next_seq_num,   \* sequence number of the next new packet
    file_pos,       \* read position in the input file
    done_sending,   \* fread() has returned 0
    window,         \* the window array: packet and retries per slot
    retx_i          \* i of the retransmission loop

clientVars == <<cpc, window_base, next_seq_num, file_pos, done_sending,
                window, retx_i>>

Slots == 0 .. WindowSize - 1

ClientPC == {"start", "syn_sent", "fill", "await", "retx", "fin",
             "fin_ack", "fin_peer", "closed", "failed"}

ClientInit ==
    /\ cpc = "start"
    /\ window_base = 0
    /\ next_seq_num = 0
    /\ file_pos = 0
    /\ done_sending = FALSE
    /\ window = [s \in Slots |-> [packet |-> Data(0, 0, 0), retries |-> 0]]
    /\ retx_i = 0

ClientGoto(pc) == cpc' = pc
-----------------------------------------------------------------------------
(* perform_handshake()                                                     *)

SendSyn ==
    /\ cpc = "start"
    /\ toServer' = Put(toServer, Header({SYN}, initial_seq, 0))
    /\ ClientGoto("syn_sent")
    /\ UNCHANGED <<toClient, window_base, next_seq_num, file_pos,
                   done_sending, window, retx_i>>

\* The first datagram that arrives must be the SYN-ACK.
RecvSynAck(k) ==
    /\ cpc = "syn_sent"
    /\ toClient' \in AfterRecv(toClient, k)
    /\ IF {SYN, ACK} \subseteq toClient[k].flags
         THEN /\ toServer' = Put(toServer,
                       Header({ACK}, initial_seq + 1, toClient[k].seq_num + 1))
              /\ next_seq_num' = initial_seq + 1
              /\ window_base' = initial_seq + 1
              /\ ClientGoto("fill")
         ELSE /\ ClientGoto("failed")
              /\ UNCHANGED <<toServer, next_seq_num, window_base>>
    /\ UNCHANGED <<file_pos, done_sending, window, retx_i>>

SynAckTimeout ==
    /\ cpc = "syn_sent"
    /\ MayTimeout
    /\ ClientGoto("failed")
    /\ UNCHANGED <<channels, window_base, next_seq_num, file_pos,
                   done_sending, window, retx_i>>
-----------------------------------------------------------------------------
(* send_file()                                                             *)

\* The window has room for a new packet and the file is not at its end.
MaySendNew ==
    /\ ~done_sending
    /\ next_seq_num - window_base < WindowSize * DataSize

\* What fread() returns.
BytesRead ==
    IF FileSize - file_pos < DataSize THEN FileSize - file_pos ELSE DataSize

\* win_idx: the slot of the packet with this sequence number, counted from
\* the current window_base.
WinIdx(seq) == ((seq - window_base) \div DataSize) % WindowSize

\* One iteration of the inner loop: a packet is read, recorded and sent.
SendNew ==
    /\ cpc = "fill"
    /\ MaySendNew
    /\ BytesRead > 0
    /\ LET pkt == Data(next_seq_num, file_pos, BytesRead)
       IN  /\ window' = [window EXCEPT ![WinIdx(next_seq_num)] =
                            [packet |-> pkt, retries |-> 0]]
           /\ toServer' = Put(toServer, pkt)
    /\ file_pos' = file_pos + BytesRead
    /\ next_seq_num' = next_seq_num + BytesRead
    /\ UNCHANGED <<toClient, cpc, window_base, done_sending, retx_i>>

\* The inner loop ends: at the end of the file, or with the window full.
StopFilling ==
    /\ cpc = "fill"
    /\ MaySendNew => BytesRead = 0
    /\ done_sending' = (done_sending \/ MaySendNew)
    /\ ClientGoto("await")
    /\ UNCHANGED <<channels, window_base, next_seq_num, file_pos, window,
                   retx_i>>

\* Mutant: an ACK sets window_base whether or not it is newer.
RecvAck_AnyAck(k) ==
    /\ cpc = "await"
    /\ toClient' \in AfterRecv(toClient, k)
    /\ window_base' =
         IF ACK \in toClient[k].flags THEN toClient[k].ack_num ELSE window_base
    /\ retx_i' = 0
    /\ ClientGoto("retx")
    /\ UNCHANGED <<toServer, next_seq_num, file_pos, done_sending, window>>

\* A datagram arrives within 100 ms; an ACK moves window_base forward only.
RecvAck(k) ==
    /\ cpc = "await"
    /\ toClient' \in AfterRecv(toClient, k)
    /\ window_base' =
         IF ACK \in toClient[k].flags /\ toClient[k].ack_num > window_base
           THEN toClient[k].ack_num
           ELSE window_base
    /\ retx_i' = 0
    /\ ClientGoto("retx")
    /\ UNCHANGED <<toServer, next_seq_num, file_pos, done_sending, window>>

AckTimeout ==
    /\ cpc = "await"
    /\ MayTimeout
    /\ retx_i' = 0
    /\ ClientGoto("retx")
    /\ UNCHANGED <<channels, window_base, next_seq_num, file_pos,
                   done_sending, window>>

\* The loop condition at slot i: pkt_seq is below next_seq_num.
RetxSeq(i) == window_base + i * DataSize
InRetxLoop == retx_i < WindowSize /\ RetxSeq(retx_i) < next_seq_num

\* is_timeout() on a slot.  A slot whose packet was acknowledged may have been
\* sent long ago; any other one only while the peer keeps it waiting.
SlotMayTimeout(s) ==
    \/ MayTimeout
    \/ Pace = "rtt" /\ window[s].packet.seq_num < window_base

\* The slot has not timed out yet: the loop goes on.
SlotNotDue ==
    /\ cpc = "retx"
    /\ InRetxLoop
    /\ retx_i' = retx_i + 1
    /\ UNCHANGED <<channels, cpc, window_base, next_seq_num, file_pos,
                   done_sending, window>>

\* win_idx of the retransmission loop.
RetxSlot == WinIdx(RetxSeq(retx_i))

\* Mutant: retries is not counted.
Retransmit_NoCount ==
    /\ cpc = "retx"
    /\ InRetxLoop
    /\ SlotMayTimeout(RetxSlot)
    /\ window[RetxSlot].retries < MaxRetries
    /\ toServer' = Put(toServer, window[RetxSlot].packet)
    /\ retx_i' = retx_i + 1
    /\ UNCHANGED <<toClient, cpc, window_base, next_seq_num, file_pos,
                   done_sending, window>>

\* The slot has timed out: its packet is sent again.
Retransmit ==
    /\ cpc = "retx"
    /\ InRetxLoop
    /\ SlotMayTimeout(RetxSlot)
    /\ window[RetxSlot].retries < MaxRetries
    /\ toServer' = Put(toServer, window[RetxSlot].packet)
    /\ window' = [window EXCEPT ![RetxSlot].retries = @ + 1]
    /\ retx_i' = retx_i + 1
    /\ UNCHANGED <<toClient, cpc, window_base, next_seq_num, file_pos,
                   done_sending>>

\* The slot has timed out once too often: "Max retries exceeded".
GiveUp ==
    /\ cpc = "retx"
    /\ InRetxLoop
    /\ SlotMayTimeout(RetxSlot)
    /\ window[RetxSlot].retries >= MaxRetries
    /\ ClientGoto("failed")
    /\ UNCHANGED <<channels, window_base, next_seq_num, file_pos,
                   done_sending, window, retx_i>>

\* Mutant: the end of the file is taken for the end of the transfer.
EndOfRound_Early ==
    /\ cpc = "retx"
    /\ ~InRetxLoop
    /\ ClientGoto(IF done_sending THEN "fin" ELSE "fill")
    /\ UNCHANGED <<channels, window_base, next_seq_num, file_pos,
                   done_sending, window, retx_i>>

\* The retransmission loop ends.  send_file() returns 0 when the whole file
\* was read and acknowledged; otherwise its outer loop goes on.
EndOfRound ==
    /\ cpc = "retx"
    /\ ~InRetxLoop
    /\ ClientGoto(IF done_sending /\ window_base >= next_seq_num
                    THEN "fin" ELSE "fill")
    /\ UNCHANGED <<channels, window_base, next_seq_num, file_pos,
                   done_sending, window, retx_i>>
-----------------------------------------------------------------------------
(* perform_termination(): every datagram, or a timeout, ends a wait.       *)

SendFin ==
    /\ cpc = "fin"
    /\ toServer' = Put(toServer, Header({FIN}, next_seq_num, 0))
    /\ ClientGoto("fin_ack")
    /\ UNCHANGED <<toClient, window_base, next_seq_num, file_pos,
                   done_sending, window, retx_i>>

\* toClient after one bounded wait for any datagram.
WaitAny ==
    \/ \E k \in Deliverable(toClient) : toClient' \in AfterRecv(toClient, k)
    \/ MayTimeout /\ UNCHANGED toClient

WaitFinAck ==
    /\ cpc = "fin_ack"
    /\ WaitAny
    /\ ClientGoto("fin_peer")
    /\ UNCHANGED <<toServer, window_base, next_seq_num, file_pos,
                   done_sending, window, retx_i>>

\* The final ACK.  The packet is cleared before its ack_num is computed from
\* its own seq_num, which is then 0.
FinalAck == Header({ACK}, 0, 0 + 1)

WaitPeerFin ==
    /\ cpc = "fin_peer"
    /\ WaitAny
    /\ toServer' = Put(toServer, FinalAck)
    /\ ClientGoto("closed")
    /\ UNCHANGED <<window_base, next_seq_num, file_pos, done_sending, window,
                   retx_i>>
-----------------------------------------------------------------------------
ClientNext ==
    \/ SendSyn \/ SynAckTimeout
    \/ SendNew \/ StopFilling \/ AckTimeout
    \/ SlotNotDue \/ Retransmit \/ GiveUp \/ EndOfRound
    \/ SendFin \/ WaitFinAck \/ WaitPeerFin
    \/ \E k \in Deliverable(toClient) : RecvSynAck(k) \/ RecvAck(k)
=============================================================================
