----------------------------- MODULE ShamServer -----------------------------
(***************************************************************************)
(* The S.H.A.M. server (networking/server.c) in file mode:                 *)
(* handle_handshake() and handle_data_transfer().                          *)
(*                                                                         *)
(* spc is the receive the server is blocked in:                            *)
(*   wait_syn, wait_ack  the two receives of handle_handshake()            *)
(*   data                the loop of handle_data_transfer()                *)
(*   last_ack            the receive after the server sent its own FIN     *)
(*   done                main() returned 0, after a FIN                    *)
(*   broken              main() returned 0, a receive of data failed       *)
(*   failed              main() returned 1, the handshake failed           *)
(* The receives of the first three repeat on their 2 s timeout, so a       *)
(* timeout there is a stuttering step.                                     *)
(***************************************************************************)
EXTENDS Sham

CONSTANTS
    SimulatedLoss,  \* the server was given a loss_rate above zero
    ServerFaults    \* a receive may fail, and so may opening the file

ASSUME ServerAssumption == SimulatedLoss \in BOOLEAN /\ ServerFaults \in BOOLEAN

VARIABLES
    spc,
    next_expected_seq,
    recv_buffer,      \* byte position -> file offset of the byte stored there
    recv_buffer_size,
    received_file     \* contents of "received_file": <<>> if never written

serverVars == <<spc, next_expected_seq, recv_buffer, recv_buffer_size,
                received_file>>

ServerPC == {"wait_syn", "wait_ack", "data", "last_ack", "done", "broken", "failed"}

ServerInit ==
    /\ spc = "wait_syn"
    /\ next_expected_seq = 0
    /\ recv_buffer = [p \in {} |-> 0]
    /\ recv_buffer_size = 0
    /\ received_file = <<>>

ServerGoto(pc) == spc' = pc
-----------------------------------------------------------------------------
(* handle_handshake()                                                      *)

RecvSyn(k) ==
    /\ spc = "wait_syn"
    /\ toServer' \in AfterRecv(toServer, k)
    /\ IF SYN \in toServer[k].flags
         THEN /\ toClient' = Put(toClient,
                    Header({SYN, ACK}, server_seq, toServer[k].seq_num + 1))
              /\ ServerGoto("wait_ack")
         ELSE /\ ServerGoto("failed")
              /\ UNCHANGED toClient
    /\ UNCHANGED <<next_expected_seq, recv_buffer, recv_buffer_size,
                   received_file>>

\* Mutant: the flags are not checked.
RecvHandshakeAck_AnyPacket(k) ==
    /\ spc = "wait_ack"
    /\ toServer' \in AfterRecv(toServer, k)
    /\ next_expected_seq' = toServer[k].seq_num
    /\ ServerGoto("data")
    /\ UNCHANGED <<toClient, recv_buffer, recv_buffer_size, received_file>>

\* Mutant: the handshake ACK is counted as a byte.
RecvHandshakeAck_OffByOne(k) ==
    /\ spc = "wait_ack"
    /\ toServer' \in AfterRecv(toServer, k)
    /\ IF ACK \in toServer[k].flags
         THEN /\ next_expected_seq' = toServer[k].seq_num + 1
              /\ ServerGoto("data")
         ELSE /\ ServerGoto("failed")
              /\ UNCHANGED next_expected_seq
    /\ UNCHANGED <<toClient, recv_buffer, recv_buffer_size, received_file>>

\* Any packet without the ACK flag ends the server.
RecvHandshakeAck(k) ==
    /\ spc = "wait_ack"
    /\ toServer' \in AfterRecv(toServer, k)
    /\ IF ACK \in toServer[k].flags
         THEN /\ next_expected_seq' = toServer[k].seq_num
              /\ ServerGoto("data")
         ELSE /\ ServerGoto("failed")
              /\ UNCHANGED next_expected_seq
    /\ UNCHANGED <<toClient, recv_buffer, recv_buffer_size, received_file>>
-----------------------------------------------------------------------------
(* handle_data_transfer()                                                  *)

\* FIN: the ACK for it and the server's own FIN go out together.
RecvFin(k) ==
    /\ spc = "data"
    /\ FIN \in toServer[k].flags
    /\ toServer' \in AfterRecv(toServer, k)
    /\ toClient' = Put(Put(toClient, Header({ACK}, 0, toServer[k].seq_num + 1)),
                       Header({FIN}, next_expected_seq, 0))
    /\ ServerGoto("last_ack")
    /\ UNCHANGED <<next_expected_seq, recv_buffer, recv_buffer_size,
                   received_file>>

\* A data packet thrown away by should_drop_packet().
DropData(k) ==
    /\ spc = "data"
    /\ SimulatedLoss
    /\ FIN \notin toServer[k].flags
    /\ toServer[k].data_len > 0
    /\ toServer' \in AfterRecv(toServer, k)
    /\ UNCHANGED <<toClient, serverVars>>

\* Mutant: data is stored whatever its sequence number.
InOrder_AnySeq(pkt) == pkt.data_len > 0

InOrder(pkt) == pkt.data_len > 0 /\ pkt.seq_num = next_expected_seq

\* memcpy() of a payload to the end of the buffer.
Stored(pkt) ==
    [p \in 0 .. recv_buffer_size + pkt.data_len - 1 |->
        IF p < recv_buffer_size THEN recv_buffer[p]
        ELSE pkt.off + (p - recv_buffer_size)]

\* Mutant: the ACK names the packet after the next one.
RecvInOrder_AckAhead(k) ==
    /\ spc = "data"
    /\ FIN \notin toServer[k].flags
    /\ InOrder(toServer[k])
    /\ toServer' \in AfterRecv(toServer, k)
    /\ recv_buffer' = Stored(toServer[k])
    /\ recv_buffer_size' = recv_buffer_size + toServer[k].data_len
    /\ next_expected_seq' = next_expected_seq + toServer[k].data_len
    /\ toClient' = Put(toClient, Header({ACK}, 0, next_expected_seq' + DataSize))
    /\ UNCHANGED <<spc, received_file>>

\* The packet that continues the data received so far is stored and
\* acknowledged.
RecvInOrder(k) ==
    /\ spc = "data"
    /\ FIN \notin toServer[k].flags
    /\ InOrder(toServer[k])
    /\ toServer' \in AfterRecv(toServer, k)
    /\ recv_buffer' = Stored(toServer[k])
    /\ recv_buffer_size' = recv_buffer_size + toServer[k].data_len
    /\ next_expected_seq' = next_expected_seq + toServer[k].data_len
    /\ toClient' = Put(toClient, Header({ACK}, 0, next_expected_seq'))
    /\ UNCHANGED <<spc, received_file>>

\* Every other packet is ignored without an answer.
RecvOther(k) ==
    /\ spc = "data"
    /\ FIN \notin toServer[k].flags
    /\ ~InOrder(toServer[k])
    /\ toServer' \in AfterRecv(toServer, k)
    /\ UNCHANGED <<toClient, serverVars>>

\* The end of handle_data_transfer(): the buffer is written out, if it holds
\* anything and the file can be opened.
WriteOut ==
    \/ received_file' = IF recv_buffer_size > 0
                          THEN [p \in 1 .. recv_buffer_size |-> recv_buffer[p - 1]]
                          ELSE received_file
    \/ ServerFaults /\ UNCHANGED received_file

\* The receive after the server's FIN returns with any packet, at its timeout
\* or with an error; then the buffer is written out.
Finish ==
    /\ spc = "last_ack"
    /\ \/ \E k \in Deliverable(toServer) : toServer' \in AfterRecv(toServer, k)
       \/ (MayTimeout \/ ServerFaults) /\ UNCHANGED toServer
    /\ WriteOut
    /\ ServerGoto("done")
    /\ UNCHANGED <<toClient, next_expected_seq, recv_buffer, recv_buffer_size>>
-----------------------------------------------------------------------------
(* recv_packet() < 0: recvfrom() failed with anything but its timeout, as  *)
(* after a stop and a SIGCONT, or the datagram, which then is none of the  *)
(* client's, is shorter than a header.                                     *)

\* handle_handshake() fails.
HandshakeError ==
    /\ ServerFaults
    /\ spc \in {"wait_syn", "wait_ack"}
    /\ ServerGoto("failed")
    /\ UNCHANGED <<channels, next_expected_seq, recv_buffer, recv_buffer_size,
                   received_file>>

\* The loop of handle_data_transfer() ends without a FIN, and what has been
\* received so far is written out.
DataError ==
    /\ ServerFaults
    /\ spc = "data"
    /\ WriteOut
    /\ ServerGoto("broken")
    /\ UNCHANGED <<channels, next_expected_seq, recv_buffer, recv_buffer_size>>
-----------------------------------------------------------------------------
ServerNext ==
    \/ Finish \/ HandshakeError \/ DataError
    \/ \E k \in Deliverable(toServer) :
          \/ RecvSyn(k) \/ RecvHandshakeAck(k)
          \/ RecvFin(k) \/ DropData(k) \/ RecvInOrder(k) \/ RecvOther(k)
=============================================================================
