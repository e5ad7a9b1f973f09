---------------------------- MODULE ShamTransfer ----------------------------
(***************************************************************************)
(* One S.H.A.M. file transfer: the client, the server and the network      *)
(* between them.                                                           *)
(***************************************************************************)
EXTENDS ShamClient, ShamServer

vars == <<channels, clientVars, serverVars>>

Init == ChannelInit /\ ClientInit /\ ServerInit

Client  == ClientNext /\ UNCHANGED serverVars
Server  == ServerNext /\ UNCHANGED clientVars
Network == Lose /\ UNCHANGED <<clientVars, serverVars>>

Next == Client \/ Server \/ Network

Spec == Init /\ [][Next]_vars

\* Both programs are scheduled; the network owes nothing.  A slot that the
\* retransmission loop looks at again and again times out in the end, because
\* every round of send_file() takes time.
Timer    == (Retransmit \/ GiveUp) /\ UNCHANGED serverVars
FairSpec == Spec /\ WF_vars(Client) /\ WF_vars(Server) /\ SF_vars(Timer)
-----------------------------------------------------------------------------
(* Safety                                                                  *)

SlotEntry == [packet : Packet, retries : Nat]

\* Types of all variables.
TypeOK ==
    /\ toServer \in Seq(Packet)
    /\ toClient \in Seq(Packet)
    /\ cpc \in ClientPC
    /\ window_base \in Nat
    /\ next_seq_num \in Nat
    /\ file_pos \in Nat
    /\ done_sending \in BOOLEAN
    /\ window \in [Slots -> SlotEntry]
    /\ retx_i \in 0 .. WindowSize
    /\ spc \in ServerPC
    /\ next_expected_seq \in Nat
    /\ recv_buffer_size \in Nat
    /\ recv_buffer \in [0 .. recv_buffer_size - 1 -> Nat]
    /\ received_file \in Seq(Nat)

\* The client's loop over the window has been entered and not given up.
Sending   == cpc \in {"fill", "await", "retx"}

\* send_file() has returned 0.
Succeeded == cpc \in {"fin", "fin_ack", "fin_peer", "closed"}

\* The server's buffer is a prefix of the file: byte p of the buffer is byte
\* p of the file, whatever the network loses, repeats or reorders, and
\* whichever slots the client retransmits.  (handle_data_transfer() appends
\* at recv_buffer_size and never looks at where the bytes came from.)
Integrity ==
    /\ recv_buffer_size <= FileSize
    /\ \A p \in 0 .. recv_buffer_size - 1 : recv_buffer[p] = p

\* The three cursors of the transfer are ordered: what the client takes for
\* acknowledged has been stored by the server, and what the server has
\* stored has been sent.  In particular the uint32_t difference
\* next_seq_num - window_base in send_file() never wraps.
AckSound ==
    Sending \/ Succeeded =>
        /\ window_base <= FirstSeq + recv_buffer_size
        /\ FirstSeq + recv_buffer_size <= next_seq_num

\* "File sent successfully" is true: when send_file() returns 0 the server
\* holds every byte of the file.
SuccessMeansDelivered == Succeeded => recv_buffer_size = FileSize

\* What received_file may hold: the server that ends after a FIN has written
\* the whole file, since the client sends FIN after the last ACK; the server
\* whose receive failed has written the part of the file it had by then,
\* which nothing in received_file tells from a whole one.  In both cases the
\* file is not there if it could not be opened, and before it never is.
WrittenIsReceived ==
    received_file # <<>> =>
        /\ spc \in {"done", "broken"}
        /\ received_file = [p \in 1 .. recv_buffer_size |-> p - 1]
        /\ spc = "done" => recv_buffer_size = FileSize

\* What a step may never do: take back an acknowledgement, shrink the buffer
\* or change a byte in it, or write received_file a second time.
NeverTakenBack ==
    [][ /\ window_base' >= window_base
        /\ recv_buffer_size' >= recv_buffer_size
        /\ \A p \in 0 .. recv_buffer_size - 1 : recv_buffer'[p] = recv_buffer[p]
        /\ received_file # <<>> => received_file' = received_file ]_vars
-----------------------------------------------------------------------------
(* Why it works: an inductive invariant, in parts                          *)

\* A data packet carries the bytes its sequence number says, and they have
\* been read from the file.
Genuine(pkt) ==
    pkt.data_len > 0 =>
        /\ pkt.flags = {}
        /\ pkt.seq_num = FirstSeq + pkt.off
        /\ pkt.off + pkt.data_len <= file_pos

\* On the way to the server: genuine data, the SYN, the handshake ACK, and
\* FIN and the final ACK only after send_file() returned 0.
ToServerOK(pkt) ==
    /\ Genuine(pkt)
    /\ SYN \in pkt.flags => pkt.seq_num = initial_seq
    /\ FIN \in pkt.flags => Succeeded
    /\ ACK \in pkt.flags => pkt.seq_num = FirstSeq \/ (pkt.seq_num = 0 /\ Succeeded)

\* On the way to the client: no ACK is ahead of the server's buffer, but the
\* one for FIN.
ToClientOK(pkt) ==
    ACK \in pkt.flags => pkt.ack_num <= FirstSeq + recv_buffer_size \/ Succeeded

\* In the window array: data packets, or the zeroes of memset().
SlotOK(pkt) == Genuine(pkt) /\ pkt.flags = {}

PacketsOK ==
    /\ \A pkt \in Range(toServer) : ToServerOK(pkt)
    /\ \A pkt \in Range(toClient) : ToClientOK(pkt)
    /\ \A s \in Slots : SlotOK(window[s].packet)

ClientOK ==
    /\ file_pos <= FileSize
    /\ done_sending => file_pos = FileSize
    /\ cpc \in {"start", "syn_sent"} => file_pos = 0 /\ window_base = 0
    /\ Sending \/ Succeeded =>
         /\ next_seq_num = FirstSeq + file_pos
         /\ window_base <= FirstSeq + recv_buffer_size
    /\ Succeeded => recv_buffer_size = FileSize

\* With an empty file the final ACK can be taken for the handshake ACK; no
\* data follows it.
ServerOK ==
    /\ recv_buffer_size <= file_pos
    /\ \A p \in 0 .. recv_buffer_size - 1 : recv_buffer[p] = p
    /\ spc \in {"wait_syn", "wait_ack"} => recv_buffer_size = 0
    /\ spc = "data" =>
         FileSize = 0 \/ next_expected_seq = FirstSeq + recv_buffer_size
    /\ spc \in {"last_ack", "done"} => Succeeded
    /\ WrittenIsReceived

\* Data packets, acknowledgements and the programs' cursors fit together at
\* every moment, whatever the network did so far.
Coherent == PacketsOK /\ ClientOK /\ ServerOK
-----------------------------------------------------------------------------
\* The service that a file transfer promises, and how this one provides it.
Service == INSTANCE FileDelivery WITH
    delivered <- recv_buffer_size,
    reported  <- IF Succeeded THEN "ok"
                 ELSE IF cpc = "failed" THEN "failed" ELSE "none",
    receiver  <- IF spc = "done" THEN "done"
                 ELSE IF spc \in {"broken", "failed"} THEN "broken" ELSE "open",
    written   <- Len(received_file)

\* The protocol provides the service: bytes only ever arrive in order, "ok"
\* is reported only after the last byte arrived, and the file is written at
\* most once: all of it after "ok", or what there is when a receive fails.
Implements == Service!Spec
-----------------------------------------------------------------------------
(* Liveness                                                                *)

\* The client terminates: it closes the connection or gives up.
ClientTerminates == <>(cpc \in {"closed", "failed"})

\* The file arrives and is written, and both programs end.
FileArrives ==
    <>(/\ cpc = "closed"
       /\ spc = "done"
       /\ received_file = [p \in 1 .. FileSize |-> p - 1])

\* A transfer that the client reports as a success is written by the server.
ReportedIsWritten == cpc = "closed" ~> spc = "done"
-----------------------------------------------------------------------------
(* What the documentation says and the code does not do                    *)

\* "On timeout: Unacknowledged packets are retransmitted": the slot that the
\* timer picks holds a packet that has not been acknowledged.
ResendsUnacked ==
    [][Retransmit => window[RetxSlot].packet.seq_num >= window_base]_vars
=============================================================================
