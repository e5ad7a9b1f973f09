----------------------------- MODULE ShamProofs -----------------------------
(***************************************************************************)
(* Proofs about S.H.A.M.: one file transfer, for every file size, window   *)
(* size, retry limit and buffer size, and for a network that may lose,     *)
(* repeat and reorder datagrams; and chat mode, for any number of lines.   *)
(***************************************************************************)
EXTENDS ShamTransfer, ShamChat, SequenceTheorems, TLAPS

-----------------------------------------------------------------------------
(* The network: nothing appears in a channel that was not sent.            *)

\* sendto() adds at most the datagram that is sent.
LEMMA PutLemma ==
    ASSUME NEW q \in Seq(Packet), NEW pkt \in Packet
    PROVE  /\ Put(q, pkt) \in Seq(Packet)
           /\ \A x \in Range(Put(q, pkt)) : x = pkt \/ x \in Range(q)
BY DEF Put, Range

\* Removing a datagram adds none.
LEMMA WithoutLemma ==
    ASSUME NEW q \in Seq(Packet), NEW k \in 1 .. Len(q)
    PROVE  /\ Without(q, k) \in Seq(Packet)
           /\ \A x \in Range(Without(q, k)) : x \in Range(q)
<1>1. Len(q) - 1 \in Nat
  OBVIOUS
<1>2. \A j \in 1 .. Len(q) - 1 : /\ j \in 1 .. Len(q) /\ j + 1 \in 1 .. Len(q)
  OBVIOUS
<1>3. Without(q, k) \in [1 .. Len(q) - 1 -> Packet]
  BY <1>2 DEF Without
<1>4. Without(q, k) \in Seq(Packet)
  BY <1>1, <1>3
<1>5. \A x \in Range(Without(q, k)) : x \in Range(q)
  BY <1>2 DEF Without, Range
<1> QED
  BY <1>4, <1>5

\* A receive leaves the channel with datagrams it already held, and what is
\* received was in it.
LEMMA RecvLemma ==
    ASSUME NEW q \in Seq(Packet), NEW k \in Deliverable(q),
           NEW r \in AfterRecv(q, k)
    PROVE  /\ k \in 1 .. Len(q)
           /\ q[k] \in Packet
           /\ q[k] \in Range(q)
           /\ r \in Seq(Packet)
           /\ \A x \in Range(r) : x \in Range(q)
<1>1. k \in 1 .. Len(q)
  BY DEF Deliverable
<1>2. q[k] \in Packet /\ q[k] \in Range(q)
  BY <1>1 DEF Range
<1>3. r = Without(q, k) \/ r = q
  BY DEF AfterRecv
<1>4. /\ Without(q, k) \in Seq(Packet)
      /\ \A x \in Range(Without(q, k)) : x \in Range(q)
  BY <1>1, WithoutLemma
<1> QED
  BY <1>1, <1>2, <1>3, <1>4

LEMMA RangeLemma ==
    ASSUME NEW q \in Seq(Packet)
    PROVE  \A x \in Range(q) : x \in Packet
BY DEF Range

\* The packets that the programs build are packets.
LEMMA PacketLemma ==
    /\ \A f \in SUBSET {SYN, ACK, FIN}, s \in Nat, a \in Nat :
           Header(f, s, a) \in Packet
    /\ \A s \in Nat, o \in Nat, l \in Nat : Data(s, o, l) \in Packet
BY DEF Header, Data, Packet

\* The fields of a packet.
LEMMA FieldLemma ==
    ASSUME NEW pkt \in Packet
    PROVE  /\ pkt.flags \in SUBSET {SYN, ACK, FIN}
           /\ pkt.seq_num \in Nat /\ pkt.ack_num \in Nat
           /\ pkt.off \in Nat /\ pkt.data_len \in Nat
BY DEF Packet

\* win_idx is a slot of the window array, also where window_base has moved.
LEMMA SlotLemma ==
    ASSUME NEW seq \in Int, window_base \in Nat
    PROVE  WinIdx(seq) \in Slots
<1>1. (seq - window_base) \div DataSize \in Int
  BY ShamAssumption
<1>2. \A x \in Int : x % WindowSize \in 0 .. WindowSize - 1
  BY ShamAssumption
<1> QED
  BY <1>1, <1>2 DEF WinIdx, Slots

-----------------------------------------------------------------------------
(* Types                                                                   *)

LEMMA ClientTypes ==
    ASSUME TypeOK, Client
    PROVE  TypeOK'
<1> USE ShamAssumption, PacketLemma DEF ClientGoto
<1>0. /\ toServer \in Seq(Packet) /\ toClient \in Seq(Packet)
      /\ cpc \in ClientPC
      /\ window_base \in Nat /\ next_seq_num \in Nat /\ file_pos \in Nat
      /\ done_sending \in BOOLEAN
      /\ window \in [Slots -> SlotEntry]
      /\ retx_i \in 0 .. WindowSize
  BY DEF TypeOK
<1>s. UNCHANGED serverVars
  BY DEF Client
<1>c. SUFFICES /\ toServer' \in Seq(Packet) /\ toClient' \in Seq(Packet)
               /\ cpc' \in ClientPC
               /\ window_base' \in Nat /\ next_seq_num' \in Nat
               /\ file_pos' \in Nat
               /\ done_sending' \in BOOLEAN
               /\ window' \in [Slots -> SlotEntry]
               /\ retx_i' \in 0 .. WindowSize
  BY <1>s DEF TypeOK, serverVars
<1>1. CASE SendSyn
  <2>1. Header({SYN}, initial_seq, 0) \in Packet
    BY DEF initial_seq
  <2> QED
    BY <1>0, <1>1, <2>1, PutLemma DEF SendSyn, ClientPC
<1>2. CASE SynAckTimeout
  BY <1>0, <1>2 DEF SynAckTimeout, ClientPC, channels
<1>3. CASE SendNew
  <2> DEFINE pkt == Data(next_seq_num, file_pos, BytesRead)
  <2>1. BytesRead \in Nat
    BY <1>0, <1>3 DEF SendNew, BytesRead
  <2>2. pkt \in Packet
    BY <1>0, <2>1
  <2>3. toServer' \in Seq(Packet)
    BY <1>0, <1>3, <2>2, PutLemma DEF SendNew
  <2>4. [packet |-> pkt, retries |-> 0] \in SlotEntry
    BY <2>2 DEF SlotEntry
  <2>5. window' \in [Slots -> SlotEntry]
    BY <1>0, <1>3, <2>4 DEF SendNew
  <2>6. file_pos' \in Nat /\ next_seq_num' \in Nat
    BY <1>0, <1>3, <2>1 DEF SendNew
  <2> QED
    BY <1>0, <1>3, <2>3, <2>5, <2>6 DEF SendNew
<1>4. CASE StopFilling
  <2>1. done_sending' \in BOOLEAN
    BY <1>0, <1>4 DEF StopFilling, MaySendNew
  <2> QED
    BY <1>0, <1>4, <2>1 DEF StopFilling, ClientPC, channels
<1>5. CASE AckTimeout
  BY <1>0, <1>5 DEF AckTimeout, ClientPC, channels
<1>6. CASE SlotNotDue
  BY <1>0, <1>6 DEF SlotNotDue, InRetxLoop, channels
<1>7. CASE Retransmit
  <2>1. retx_i' \in 0 .. WindowSize
    BY <1>0, <1>7 DEF Retransmit, InRetxLoop
  <2>2. RetxSlot \in Slots
    BY <1>0, <1>7, SlotLemma DEF RetxSlot, RetxSeq
  <2>3. window' \in [Slots -> SlotEntry]
    <3>1. window[RetxSlot] \in [packet : Packet, retries : Nat]
      BY <1>0, <2>2 DEF SlotEntry
    <3>2. [window[RetxSlot] EXCEPT !.retries = @ + 1] \in SlotEntry
      BY <3>1 DEF SlotEntry
    <3>3. window' = [window EXCEPT ![RetxSlot] =
                        [window[RetxSlot] EXCEPT !.retries = @ + 1]]
      BY <1>7 DEF Retransmit
    <3> HIDE DEF RetxSlot, Slots
    <3> QED
      BY <1>0, <3>2, <3>3
  <2>5. window[RetxSlot].packet \in Packet
    BY <1>0, <2>2 DEF SlotEntry
  <2>6. toServer' \in Seq(Packet)
    BY <1>0, <1>7, <2>5, PutLemma DEF Retransmit
  <2> QED
    BY <1>0, <1>7, <2>1, <2>3, <2>6 DEF Retransmit
<1>8. CASE GiveUp
  BY <1>0, <1>8 DEF GiveUp, ClientPC, channels
<1>9. CASE EndOfRound
  BY <1>0, <1>9 DEF EndOfRound, ClientPC, channels
<1>10. CASE SendFin
  <2>1. Header({FIN}, next_seq_num, 0) \in Packet
    BY <1>0
  <2> QED
    BY <1>0, <1>10, <2>1, PutLemma DEF SendFin, ClientPC
<1>11. CASE WaitFinAck
  <2>1. toClient' \in Seq(Packet)
    BY <1>0, <1>11, RecvLemma DEF WaitFinAck, WaitAny
  <2> QED
    BY <1>0, <1>11, <2>1 DEF WaitFinAck, ClientPC
<1>12. CASE WaitPeerFin
  <2>1. toClient' \in Seq(Packet)
    BY <1>0, <1>12, RecvLemma DEF WaitPeerFin, WaitAny
  <2>2. FinalAck \in Packet
    BY DEF FinalAck
  <2>3. toServer' \in Seq(Packet)
    BY <1>0, <1>12, <2>2, PutLemma DEF WaitPeerFin
  <2> QED
    BY <1>0, <1>12, <2>1, <2>3 DEF WaitPeerFin, ClientPC
<1>13. ASSUME NEW k \in Deliverable(toClient), RecvSynAck(k)
       PROVE  <1>c!1
  <2>1. toClient[k] \in Packet /\ toClient' \in Seq(Packet)
    BY <1>0, <1>13, RecvLemma DEF RecvSynAck
  <2>a. toClient[k].seq_num + 1 \in Nat /\ initial_seq + 1 \in Nat
    BY <2>1, FieldLemma DEF initial_seq
  <2>2. Header({ACK}, initial_seq + 1, toClient[k].seq_num + 1) \in Packet
    BY <2>a
  <2>3. toServer' \in Seq(Packet)
    BY <1>0, <1>13, <2>2, PutLemma DEF RecvSynAck
  <2> QED
    BY <1>0, <1>13, <2>1, <2>3 DEF RecvSynAck, ClientPC, initial_seq
<1>14. ASSUME NEW k \in Deliverable(toClient), RecvAck(k)
       PROVE  <1>c!1
  <2>1. toClient[k] \in Packet /\ toClient' \in Seq(Packet)
    BY <1>0, <1>14, RecvLemma DEF RecvAck
  <2>2. window_base' \in Nat
    BY <1>0, <1>14, <2>1, FieldLemma DEF RecvAck
  <2> QED
    BY <1>0, <1>14, <2>1, <2>2 DEF RecvAck, ClientPC
<1> QED
  BY <1>1, <1>2, <1>3, <1>4, <1>5, <1>6, <1>7, <1>8, <1>9, <1>10, <1>11,
     <1>12, <1>13, <1>14 DEF Client, ClientNext

LEMMA WriteOutTypes ==
    ASSUME TypeOK, WriteOut
    PROVE  received_file' \in Seq(Nat)
<1>1. /\ recv_buffer_size \in Nat /\ received_file \in Seq(Nat)
      /\ recv_buffer \in [0 .. recv_buffer_size - 1 -> Nat]
  BY DEF TypeOK
<1>2. \A p \in 1 .. recv_buffer_size : recv_buffer[p - 1] \in Nat
  BY <1>1
<1>3. [p \in 1 .. recv_buffer_size |-> recv_buffer[p - 1]] \in Seq(Nat)
  BY <1>1, <1>2
<1> QED
  BY <1>1, <1>3 DEF WriteOut

LEMMA ServerTypes ==
    ASSUME TypeOK, Server
    PROVE  TypeOK'
<1> USE DEF ServerGoto
<1>0. /\ toServer \in Seq(Packet) /\ toClient \in Seq(Packet)
      /\ spc \in ServerPC
      /\ next_expected_seq \in Nat
      /\ recv_buffer_size \in Nat
      /\ recv_buffer \in [0 .. recv_buffer_size - 1 -> Nat]
      /\ received_file \in Seq(Nat)
  BY DEF TypeOK
<1>c. SUFFICES /\ toServer' \in Seq(Packet) /\ toClient' \in Seq(Packet)
               /\ spc' \in ServerPC
               /\ next_expected_seq' \in Nat
               /\ recv_buffer_size' \in Nat
               /\ recv_buffer' \in [0 .. recv_buffer_size' - 1 -> Nat]
               /\ received_file' \in Seq(Nat)
  <2>1. UNCHANGED clientVars
    BY DEF Server
  <2> QED
    BY <2>1 DEF TypeOK, clientVars
<1>1. CASE Finish
  <2>1. toServer' \in Seq(Packet)
    BY <1>0, <1>1, RecvLemma DEF Finish
  <2>2. received_file' \in Seq(Nat)
    BY <1>1, WriteOutTypes DEF Finish
  <2> QED
    BY <1>0, <1>1, <2>1, <2>2 DEF Finish, ServerPC
<1>9. CASE HandshakeError
  BY <1>0, <1>9 DEF HandshakeError, ServerPC, channels
<1>10. CASE DataError
  <2>1. received_file' \in Seq(Nat)
    BY <1>10, WriteOutTypes DEF DataError
  <2> QED
    BY <1>0, <1>10, <2>1 DEF DataError, ServerPC, channels
<1>2. ASSUME NEW k \in Deliverable(toServer),
             toServer' \in AfterRecv(toServer, k)
      PROVE  /\ toServer[k].flags \in SUBSET {SYN, ACK, FIN}
             /\ toServer[k].seq_num \in Nat
             /\ toServer[k].off \in Nat
             /\ toServer[k].data_len \in Nat
             /\ toServer' \in Seq(Packet)
  BY <1>0, <1>2, RecvLemma, FieldLemma
<1>3. ASSUME NEW k \in Deliverable(toServer), RecvSyn(k)
      PROVE  <1>c!1
  <2>1. Header({SYN, ACK}, server_seq, toServer[k].seq_num + 1) \in Packet
    BY <1>2, <1>3, PacketLemma DEF RecvSyn, server_seq
  <2>2. toClient' \in Seq(Packet)
    BY <1>0, <1>3, <2>1, PutLemma DEF RecvSyn
  <2> QED
    BY <1>0, <1>2, <1>3, <2>2 DEF RecvSyn, ServerPC
<1>4. ASSUME NEW k \in Deliverable(toServer), RecvHandshakeAck(k)
      PROVE  <1>c!1
  BY <1>0, <1>2, <1>4 DEF RecvHandshakeAck, ServerPC
<1>5. ASSUME NEW k \in Deliverable(toServer), RecvFin(k)
      PROVE  <1>c!1
  <2>1. Header({ACK}, 0, toServer[k].seq_num + 1) \in Packet
    BY <1>2, <1>5, PacketLemma DEF RecvFin
  <2>2. Header({FIN}, next_expected_seq, 0) \in Packet
    BY <1>0, PacketLemma
  <2>3. toClient' \in Seq(Packet)
    BY <1>0, <1>5, <2>1, <2>2, PutLemma DEF RecvFin
  <2> QED
    BY <1>0, <1>2, <1>5, <2>3 DEF RecvFin, ServerPC
<1>6. ASSUME NEW k \in Deliverable(toServer), DropData(k)
      PROVE  <1>c!1
  BY <1>0, <1>2, <1>6 DEF DropData, serverVars
<1>7. ASSUME NEW k \in Deliverable(toServer), RecvInOrder(k)
      PROVE  <1>c!1
  <2>1. toServer' \in Seq(Packet) /\ toServer[k].off \in Nat /\ toServer[k].data_len \in Nat
    BY <1>2, <1>7 DEF RecvInOrder
  <2>a. /\ recv_buffer' = Stored(toServer[k])
        /\ recv_buffer_size' = recv_buffer_size + toServer[k].data_len
        /\ next_expected_seq' = next_expected_seq + toServer[k].data_len
    BY <1>7 DEF RecvInOrder
  <2>b. PICK n \in Nat : n = toServer[k].data_len
    BY <2>1
  <2>c. /\ recv_buffer_size' = recv_buffer_size + n
        /\ next_expected_seq' = next_expected_seq + n
    BY <2>a, <2>b
  <2>2. next_expected_seq' \in Nat /\ recv_buffer_size' \in Nat
    BY <1>0, <2>c
  <2>3. Header({ACK}, 0, next_expected_seq') \in Packet
    BY <2>2, PacketLemma
  <2>4. toClient' \in Seq(Packet)
    BY <1>0, <1>7, <2>3, PutLemma DEF RecvInOrder
  <2>5. Stored(toServer[k]) \in
            [0 .. recv_buffer_size + toServer[k].data_len - 1 -> Nat]
    <3>1. ASSUME NEW p \in 0 .. recv_buffer_size + toServer[k].data_len - 1
          PROVE  (IF p < recv_buffer_size THEN recv_buffer[p]
                  ELSE toServer[k].off + (p - recv_buffer_size)) \in Nat
      BY <1>0, <2>1
    <3> QED
      BY <3>1 DEF Stored
  <2>6. recv_buffer' \in [0 .. recv_buffer_size' - 1 -> Nat]
    <3>1. Stored(toServer[k]) \in [0 .. recv_buffer_size + n - 1 -> Nat]
      BY <2>b, <2>5
    <3>2. recv_buffer' = Stored(toServer[k])
      BY <2>a
    <3>3. recv_buffer_size \in Nat /\ recv_buffer_size' - 1 = recv_buffer_size + n - 1
      BY <1>0, <2>c
    <3> QED
      BY <3>1, <3>2, <3>3, Zenon
  <2> QED
    BY <1>0, <1>7, <2>1, <2>2, <2>4, <2>6 DEF RecvInOrder
<1>8. ASSUME NEW k \in Deliverable(toServer), RecvOther(k)
      PROVE  <1>c!1
  BY <1>0, <1>2, <1>8 DEF RecvOther, serverVars
<1> QED
  BY <1>1, <1>3, <1>4, <1>5, <1>6, <1>7, <1>8, <1>9, <1>10 DEF Server, ServerNext

\* A lost datagram changes one channel only.
LEMMA NetworkStep ==
    ASSUME TypeOK, Network
    PROVE  /\ toServer' \in Seq(Packet) /\ toClient' \in Seq(Packet)
           /\ \A x \in Range(toServer') : x \in Range(toServer)
           /\ \A x \in Range(toClient') : x \in Range(toClient)
           /\ UNCHANGED <<clientVars, serverVars>>
BY WithoutLemma DEF TypeOK, Network, Lose

LEMMA NetworkTypes ==
    ASSUME TypeOK, Network
    PROVE  TypeOK'
BY NetworkStep DEF TypeOK, clientVars, serverVars

\* Every variable keeps its type; in particular win_idx never leaves the
\* window array and recv_buffer holds exactly recv_buffer_size bytes.
THEOREM TypeCorrect == Spec => []TypeOK
<1>1. Init => TypeOK
  <2> SUFFICES ASSUME Init PROVE TypeOK
    OBVIOUS
  <2>1. Data(0, 0, 0) \in Packet
    BY PacketLemma
  <2>2. window \in [Slots -> SlotEntry]
    BY <2>1 DEF Init, ClientInit, SlotEntry
  <2>3. recv_buffer \in [0 .. recv_buffer_size - 1 -> Nat]
    BY DEF Init, ServerInit
  <2>4. 0 \in 0 .. WindowSize /\ <<>> \in Seq(Packet) /\ <<>> \in Seq(Nat)
    BY ShamAssumption
  <2> QED
    BY <2>2, <2>3, <2>4
    DEF Init, ChannelInit, ClientInit, ServerInit, TypeOK, ClientPC, ServerPC
<1>2. TypeOK /\ [Next]_vars => TypeOK'
  <2> SUFFICES ASSUME TypeOK, [Next]_vars PROVE TypeOK'
    OBVIOUS
  <2>1. CASE UNCHANGED vars
    BY <2>1 DEF TypeOK, vars, channels, clientVars, serverVars
  <2> QED
    BY <2>1, ClientTypes, ServerTypes, NetworkTypes DEF Next
<1> QED
  BY <1>1, <1>2, PTL DEF Spec

-----------------------------------------------------------------------------
(* Coherence                                                               *)

\* What makes a packet acceptable only grows: bytes read, bytes stored and
\* success are never taken back.
Grows ==
    /\ file_pos' >= file_pos
    /\ recv_buffer_size' >= recv_buffer_size
    /\ Succeeded => Succeeded'

LEMMA StillOK ==
    ASSUME TypeOK, TypeOK', Grows, NEW pkt \in Packet
    PROVE  /\ Genuine(pkt) => Genuine(pkt)'
           /\ ToServerOK(pkt) => ToServerOK(pkt)'
           /\ ToClientOK(pkt) => ToClientOK(pkt)'
<1> HIDE DEF Succeeded
<1>1. /\ file_pos \in Nat /\ file_pos' \in Nat
      /\ recv_buffer_size \in Nat /\ recv_buffer_size' \in Nat
      /\ pkt.off \in Nat /\ pkt.data_len \in Nat /\ pkt.ack_num \in Nat
  BY FieldLemma DEF TypeOK
<1>2. Genuine(pkt) => Genuine(pkt)'
  BY <1>1 DEF Grows, Genuine
<1>3. ToClientOK(pkt) => ToClientOK(pkt)'
  <2> SUFFICES ASSUME ToClientOK(pkt), ACK \in pkt.flags, ~ Succeeded'
               PROVE  pkt.ack_num <= FirstSeq + recv_buffer_size'
    BY DEF ToClientOK
  <2>1. pkt.ack_num <= FirstSeq + recv_buffer_size
    BY DEF ToClientOK, Grows
  <2>2. recv_buffer_size' >= recv_buffer_size
    BY DEF Grows
  <2> QED
    BY <1>1, <2>1, <2>2 DEF FirstSeq, initial_seq
<1>4. ToServerOK(pkt) => ToServerOK(pkt)'
  BY <1>2 DEF Grows, ToServerOK
<1> QED
  BY <1>2, <1>3, <1>4

\* A step that only adds acceptable packets keeps all packets acceptable.
LEMMA PacketsKept ==
    ASSUME TypeOK, TypeOK', PacketsOK, Grows,
           \A x \in Range(toServer') : x \in Range(toServer) \/ ToServerOK(x)',
           \A x \in Range(toClient') : x \in Range(toClient) \/ ToClientOK(x)',
           \A s \in Slots : \/ window'[s].packet = window[s].packet
                            \/ SlotOK(window[s].packet)'
    PROVE  PacketsOK'
<1>1. \A x \in Range(toServer) : x \in Packet
  BY RangeLemma DEF TypeOK
<1>2. \A x \in Range(toClient) : x \in Packet
  BY RangeLemma DEF TypeOK
<1>3. \A s \in Slots : window[s].packet \in Packet
  BY DEF TypeOK, SlotEntry
<1>4. \A x \in Range(toServer') : ToServerOK(x)'
  BY <1>1, StillOK DEF PacketsOK
<1>5. \A x \in Range(toClient') : ToClientOK(x)'
  BY <1>2, StillOK DEF PacketsOK
<1>6. \A s \in Slots : SlotOK(window[s].packet)'
  <2> TAKE s \in Slots
  <2>1. CASE window'[s].packet = window[s].packet
    <3> DEFINE pkt == window[s].packet
    <3>1. pkt \in Packet /\ Genuine(pkt) /\ pkt.flags = {}
      BY <1>3 DEF PacketsOK, SlotOK
    <3>2. pkt' = pkt
      BY <2>1
    <3>3. SlotOK(window[s].packet)' <=>
            /\ pkt'.flags = {}
            /\ pkt'.data_len > 0 =>
                 /\ pkt'.flags = {}
                 /\ pkt'.seq_num = FirstSeq + pkt'.off
                 /\ pkt'.off + pkt'.data_len <= file_pos'
      BY DEF SlotOK, Genuine
    <3>4. /\ file_pos \in Nat /\ file_pos' \in Nat /\ file_pos' >= file_pos
          /\ pkt.off \in Nat /\ pkt.data_len \in Nat
      BY <3>1, FieldLemma DEF TypeOK, Grows
    <3> QED
      BY <3>1, <3>2, <3>3, <3>4 DEF Genuine
  <2> QED
    BY <2>1
<1> QED
  BY <1>4, <1>5, <1>6 DEF PacketsOK

LEMMA ServerKept ==
    ASSUME TypeOK, TypeOK', ServerOK, Grows, UNCHANGED serverVars
    PROVE  ServerOK'
<1>1. /\ file_pos \in Nat /\ file_pos' \in Nat /\ recv_buffer_size \in Nat
      /\ file_pos' >= file_pos
      /\ Succeeded => Succeeded'
  BY DEF TypeOK, Grows
<1> QED
  BY <1>1 DEF ServerOK, WrittenIsReceived, serverVars

LEMMA ClientCoherent ==
    ASSUME TypeOK, TypeOK', Coherent, Client
    PROVE  Coherent'
<1> USE ShamAssumption DEF ClientGoto, Sending, Succeeded, FirstSeq, initial_seq
<1>0. /\ toServer \in Seq(Packet) /\ toClient \in Seq(Packet)
      /\ cpc \in ClientPC
      /\ window_base \in Nat /\ next_seq_num \in Nat /\ file_pos \in Nat
      /\ recv_buffer_size \in Nat
      /\ window \in [Slots -> SlotEntry]
  BY DEF TypeOK
<1>s. UNCHANGED serverVars /\ recv_buffer_size' = recv_buffer_size
  BY DEF Client, serverVars
<1>i. PacketsOK /\ ClientOK /\ ServerOK
  BY DEF Coherent
<1>c. SUFFICES /\ Grows
               /\ ClientOK'
               /\ \A x \in Range(toServer') : x \in Range(toServer) \/ ToServerOK(x)'
               /\ \A x \in Range(toClient') : x \in Range(toClient)
               /\ \A s \in Slots : \/ window'[s].packet = window[s].packet
                                    \/ SlotOK(window[s].packet)'
  BY <1>s, <1>i, PacketsKept, ServerKept DEF Coherent
<1>1. CASE SendSyn
  <2> DEFINE pkt == Header({SYN}, initial_seq, 0)
  <2>1. ToServerOK(pkt)'
    BY DEF ToServerOK, Genuine, Header, SYN, FIN, ACK
  <2>2. pkt \in Packet
    BY PacketLemma
  <2>3. \A x \in Range(toServer') : x = pkt \/ x \in Range(toServer)
    BY <1>0, <1>1, <2>2, PutLemma DEF SendSyn
  <2>4. Grows /\ ClientOK'
    BY <1>0, <1>1, <1>i, <1>s DEF SendSyn, Grows, ClientOK
  <2> QED
    BY <1>1, <2>1, <2>3, <2>4 DEF SendSyn
<1>2. CASE SynAckTimeout
  BY <1>0, <1>2, <1>i, <1>s DEF SynAckTimeout, Grows, ClientOK, channels
<1>3. CASE SendNew
  <2>1. BytesRead \in Nat /\ file_pos + BytesRead <= FileSize /\ BytesRead > 0
    BY <1>0, <1>3, <1>i DEF SendNew, BytesRead, ClientOK
  <2>4. PICK pkt \in Packet : pkt = Data(next_seq_num, file_pos, BytesRead)
    BY <1>0, <2>1, PacketLemma
  <2>a. /\ pkt.flags = {} /\ pkt.seq_num = next_seq_num /\ pkt.off = file_pos
        /\ pkt.data_len = BytesRead
    BY <2>4 DEF Data
  <2>b. /\ next_seq_num = FirstSeq + file_pos
        /\ file_pos' = file_pos + BytesRead
        /\ next_seq_num' = next_seq_num + BytesRead
        /\ done_sending' = done_sending /\ done_sending = FALSE
        /\ cpc' = cpc /\ cpc = "fill" /\ window_base' = window_base
        /\ window_base <= FirstSeq + recv_buffer_size
    BY <1>3, <1>i DEF SendNew, ClientOK, MaySendNew
  <2>2. Genuine(pkt)'
    BY <1>0, <2>1, <2>a, <2>b DEF Genuine
  <2>3. ToServerOK(pkt)'
    BY <2>2, <2>a DEF ToServerOK
  <2>5. \A x \in Range(toServer') : x = pkt \/ x \in Range(toServer)
    BY <1>0, <1>3, <2>4, PutLemma DEF SendNew
  <2>6. \A s \in Slots : \/ window'[s].packet = window[s].packet
                         \/ SlotOK(window[s].packet)'
    <3> TAKE s \in Slots
    <3>1. CASE s = WinIdx(next_seq_num)
      <4>1. window'[s].packet = pkt
        BY <1>0, <1>3, <2>4, <3>1 DEF SendNew
      <4> QED
        BY <1>0, <2>1, <2>a, <2>b, <4>1 DEF SlotOK, Genuine
    <3>2. CASE s # WinIdx(next_seq_num)
      BY <1>0, <1>3, <3>2 DEF SendNew
    <3> QED
      BY <3>1, <3>2
  <2>7. Grows
    BY <1>0, <1>s, <2>1, <2>b DEF Grows
  <2>8. ClientOK'
    BY <1>0, <1>s, <2>1, <2>b DEF ClientOK
  <2> QED
    BY <1>3, <2>3, <2>5, <2>6, <2>7, <2>8 DEF SendNew
<1>4. CASE StopFilling
  <2>1. done_sending' => file_pos = FileSize
    <3>1. BytesRead = 0 => file_pos = FileSize
      BY <1>0, <1>i DEF BytesRead, ClientOK
    <3>2. done_sending => file_pos = FileSize
      BY <1>i DEF ClientOK
    <3>3. done_sending' => done_sending \/ BytesRead = 0
      BY <1>4 DEF StopFilling
    <3> QED
      BY <3>1, <3>2, <3>3
  <2> QED
    BY <1>0, <1>4, <1>i, <1>s, <2>1 DEF StopFilling, Grows, ClientOK, channels
<1>5. CASE AckTimeout
  BY <1>0, <1>5, <1>i, <1>s DEF AckTimeout, Grows, ClientOK, channels
<1>6. CASE SlotNotDue
  BY <1>0, <1>6, <1>i, <1>s DEF SlotNotDue, Grows, ClientOK, channels
<1>7. CASE Retransmit
  <2>1. RetxSlot \in Slots
    BY <1>0, <1>7, SlotLemma DEF RetxSlot, RetxSeq, TypeOK
  <2>2. PICK pkt \in Packet : pkt = window[RetxSlot].packet
    BY <1>0, <2>1 DEF SlotEntry
  <2>3. Grows /\ ClientOK'
    BY <1>0, <1>7, <1>i, <1>s DEF Retransmit, Grows, ClientOK
  <2>4. \A s \in Slots : window'[s].packet = window[s].packet
    <3>1. window' = [window EXCEPT ![RetxSlot] =
                        [window[RetxSlot] EXCEPT !.retries = @ + 1]]
      BY <1>7 DEF Retransmit
    <3>2. window[RetxSlot] \in [packet : Packet, retries : Nat]
      BY <1>0, <2>1 DEF SlotEntry
    <3>3. [window[RetxSlot] EXCEPT !.retries = @ + 1].packet
             = window[RetxSlot].packet
      BY <3>2
    <3> QED
      BY <1>0, <2>1, <3>1, <3>3, Zenon
  <2>5. \A x \in Range(toServer') : x = pkt \/ x \in Range(toServer)
    BY <1>0, <1>7, <2>2, PutLemma DEF Retransmit
  <2>6. ToServerOK(pkt)'
    <3>1. Genuine(pkt) /\ pkt.flags = {}
      BY <1>i, <2>1, <2>2 DEF PacketsOK, SlotOK
    <3> QED
      BY <2>3, <3>1, StillOK DEF ToServerOK
  <2> QED
    BY <1>7, <2>3, <2>4, <2>5, <2>6 DEF Retransmit
<1>8. CASE GiveUp
  BY <1>0, <1>8, <1>i, <1>s DEF GiveUp, Grows, ClientOK, channels
<1>9. CASE EndOfRound
  BY <1>0, <1>9, <1>i, <1>s DEF EndOfRound, Grows, ClientOK, ServerOK,
     WrittenIsReceived, channels
<1>10. CASE SendFin
  <2>2. PICK pkt \in Packet : pkt = Header({FIN}, next_seq_num, 0)
    BY <1>0, PacketLemma
  <2>1. ToServerOK(pkt)'
    BY <1>10, <2>2 DEF ToServerOK, Genuine, Header, SYN, FIN, ACK, SendFin
  <2>3. \A x \in Range(toServer') : x = pkt \/ x \in Range(toServer)
    BY <1>0, <1>10, <2>2, PutLemma DEF SendFin
  <2>4. Grows /\ ClientOK'
    BY <1>0, <1>10, <1>i, <1>s DEF SendFin, Grows, ClientOK
  <2> QED
    BY <1>10, <2>1, <2>3, <2>4 DEF SendFin
<1>11. CASE WaitFinAck
  <2>1. \A x \in Range(toClient') : x \in Range(toClient)
    BY <1>0, <1>11, RecvLemma DEF WaitFinAck, WaitAny
  <2> QED
    BY <1>0, <1>11, <1>i, <1>s, <2>1 DEF WaitFinAck, Grows, ClientOK
<1>12. CASE WaitPeerFin
  <2>1. \A x \in Range(toClient') : x \in Range(toClient)
    BY <1>0, <1>12, RecvLemma DEF WaitPeerFin, WaitAny
  <2>2. ToServerOK(FinalAck)'
    BY <1>12 DEF ToServerOK, Genuine, FinalAck, Header, SYN, FIN, ACK, WaitPeerFin
  <2>3. FinalAck \in Packet
    BY PacketLemma DEF FinalAck
  <2>4. \A x \in Range(toServer') : x = FinalAck \/ x \in Range(toServer)
    BY <1>0, <1>12, <2>3, PutLemma DEF WaitPeerFin
  <2>5. Grows /\ ClientOK'
    BY <1>0, <1>12, <1>i, <1>s DEF WaitPeerFin, Grows, ClientOK
  <2> QED
    BY <1>12, <2>1, <2>2, <2>4, <2>5 DEF WaitPeerFin
<1>13. ASSUME NEW k \in Deliverable(toClient), RecvSynAck(k)
       PROVE  <1>c!1
  <2>1. /\ toClient[k] \in Packet
        /\ \A x \in Range(toClient') : x \in Range(toClient)
    BY <1>0, <1>13, RecvLemma DEF RecvSynAck
  <2>2. toClient[k].seq_num + 1 \in Nat
    BY <2>1, FieldLemma
  <2>3. PICK pkt \in Packet :
            pkt = Header({ACK}, initial_seq + 1, toClient[k].seq_num + 1)
    BY <2>2, PacketLemma
  <2>4. \A x \in Range(toServer') : x = pkt \/ x \in Range(toServer)
    BY <1>0, <1>13, <2>3, PutLemma DEF RecvSynAck
  <2>5. ToServerOK(pkt)'
    BY <2>3 DEF ToServerOK, Genuine, Header, SYN, FIN, ACK
  <2>6. Grows /\ ClientOK'
    BY <1>0, <1>13, <1>i, <1>s DEF RecvSynAck, Grows, ClientOK
  <2> QED
    BY <1>13, <2>1, <2>4, <2>5, <2>6 DEF RecvSynAck
<1>14. ASSUME NEW k \in Deliverable(toClient), RecvAck(k)
       PROVE  <1>c!1
  <2>1. /\ toClient[k] \in Packet /\ toClient[k] \in Range(toClient)
        /\ \A x \in Range(toClient') : x \in Range(toClient)
    BY <1>0, <1>14, RecvLemma DEF RecvAck
  <2>2. toClient[k].ack_num \in Nat
    BY <2>1, FieldLemma
  <2>3. window_base' <= FirstSeq + recv_buffer_size
    BY <1>0, <1>14, <1>i, <2>1, <2>2 DEF RecvAck, PacketsOK, ToClientOK, ClientOK
  <2>4. Grows /\ ClientOK'
    BY <1>0, <1>14, <1>i, <1>s, <2>3 DEF RecvAck, Grows, ClientOK
  <2> QED
    BY <1>14, <2>1, <2>4 DEF RecvAck
<1> QED
  BY <1>1, <1>2, <1>3, <1>4, <1>5, <1>6, <1>7, <1>8, <1>9, <1>10, <1>11,
     <1>12, <1>13, <1>14 DEF Client, ClientNext

\* What the server writes at the end is its buffer.
LEMMA WriteOutLemma ==
    ASSUME TypeOK, ServerOK, WriteOut, received_file = <<>>,
           recv_buffer_size' = recv_buffer_size,
           \/ spc' = "done" /\ recv_buffer_size = FileSize
           \/ spc' = "broken"
    PROVE  WrittenIsReceived'
<1>1. recv_buffer_size \in Nat
  BY DEF TypeOK
<1>2. \A p \in 1 .. recv_buffer_size : recv_buffer[p - 1] = p - 1
  BY <1>1 DEF ServerOK
<1>3. received_file' # <<>> =>
        received_file' = [p \in 1 .. recv_buffer_size |-> recv_buffer[p - 1]]
  BY DEF WriteOut
<1>4. received_file' # <<>> => received_file' = [p \in 1 .. recv_buffer_size |-> p - 1]
  BY <1>2, <1>3
<1> QED
  BY <1>4 DEF WrittenIsReceived

LEMMA ServerCoherent ==
    ASSUME TypeOK, TypeOK', Coherent, Server
    PROVE  Coherent'
<1> USE DEF ServerGoto, FirstSeq, initial_seq
<1>0. /\ toServer \in Seq(Packet) /\ toClient \in Seq(Packet)
      /\ spc \in ServerPC
      /\ window_base \in Nat /\ file_pos \in Nat
      /\ next_expected_seq \in Nat
      /\ recv_buffer_size \in Nat
  BY DEF TypeOK
<1>s. /\ cpc' = cpc /\ window_base' = window_base /\ window' = window
      /\ next_seq_num' = next_seq_num /\ file_pos' = file_pos
      /\ done_sending' = done_sending
  BY DEF Server, clientVars
<1>u. Succeeded' = Succeeded /\ Sending' = Sending
  BY <1>s DEF Succeeded, Sending
<1>i. PacketsOK /\ ClientOK /\ ServerOK
  BY DEF Coherent
<1>z. FileSize \in Nat
  BY ShamAssumption
<1>a. \A b, r, r2 \in Nat :
          r2 >= r /\ b <= FirstSeq + r => b <= FirstSeq + r2
  OBVIOUS
<1>c. SUFFICES /\ recv_buffer_size' >= recv_buffer_size
               /\ ServerOK'
               /\ \A x \in Range(toServer') : x \in Range(toServer)
               /\ \A x \in Range(toClient') : x \in Range(toClient) \/ ToClientOK(x)'
  <2>1. Grows
    BY <1>0, <1>s, <1>u, <1>c DEF Grows
  <2>2. PacketsOK'
    BY <1>i, <1>s, <1>c, <2>1, PacketsKept
  <2>3. recv_buffer_size' \in Nat
    BY DEF TypeOK
  <2>4. recv_buffer_size' <= file_pos'
    BY <1>c DEF ServerOK
  <2>5. Succeeded => recv_buffer_size' = FileSize
    BY <1>0, <1>c, <1>i, <1>s, <1>z, <2>3, <2>4 DEF ClientOK
  <2>6. ClientOK'
    <3>1. window_base \in Nat /\ recv_buffer_size \in Nat
      BY <1>0
    <3>2. window_base <= FirstSeq + recv_buffer_size =>
            window_base' <= FirstSeq + recv_buffer_size'
      <4>1. recv_buffer_size' >= recv_buffer_size /\ window_base' = window_base
        BY <1>c, <1>s
      <4> HIDE DEF FirstSeq, Succeeded, Sending
      <4> QED
        BY <1>a, <2>3, <3>1, <4>1, Zenon
    <3> HIDE DEF Succeeded, Sending, FirstSeq
    <3> QED
      BY <1>i, <1>s, <1>u, <2>5, <3>2 DEF ClientOK
  <2> QED
    BY <1>c, <2>2, <2>6 DEF Coherent
<1> HIDE DEF Succeeded, Sending
<1>1. CASE Finish
  <2>1. \A x \in Range(toServer') : x \in Range(toServer)
    BY <1>0, <1>1, RecvLemma DEF Finish
  <2>2. /\ spc = "last_ack" /\ spc' = "done"
        /\ recv_buffer' = recv_buffer /\ recv_buffer_size' = recv_buffer_size
        /\ toClient' = toClient
    BY <1>1 DEF Finish
  <2>3. Succeeded /\ recv_buffer_size = FileSize /\ received_file = <<>>
    BY <1>i, <2>2 DEF ServerOK, WrittenIsReceived, ClientOK
  <2>4. WrittenIsReceived'
    BY <1>1, <1>i, <2>2, <2>3, WriteOutLemma DEF Finish
  <2>5. ServerOK'
    BY <1>0, <1>i, <1>s, <1>u, <2>2, <2>3, <2>4 DEF ServerOK
  <2> QED
    BY <1>0, <2>1, <2>2, <2>5
<1>9. CASE HandshakeError
  BY <1>0, <1>9, <1>i, <1>s, <1>u DEF HandshakeError, channels, ServerOK,
     WrittenIsReceived
<1>10. CASE DataError
  <2>1. /\ spc = "data" /\ spc' = "broken"
        /\ recv_buffer' = recv_buffer /\ recv_buffer_size' = recv_buffer_size
        /\ UNCHANGED channels
    BY <1>10 DEF DataError
  <2>2. received_file = <<>>
    BY <1>i, <2>1 DEF ServerOK, WrittenIsReceived
  <2>3. WrittenIsReceived'
    BY <1>10, <1>i, <2>1, <2>2, WriteOutLemma DEF DataError
  <2>4. ServerOK'
    BY <1>0, <1>i, <1>s, <1>u, <2>1, <2>3 DEF ServerOK
  <2> QED
    BY <1>0, <2>1, <2>4 DEF channels
<1>2. ASSUME NEW k \in Deliverable(toServer),
             toServer' \in AfterRecv(toServer, k)
      PROVE  /\ toServer[k] \in Packet
             /\ ToServerOK(toServer[k])
             /\ \A x \in Range(toServer') : x \in Range(toServer)
  BY <1>0, <1>2, <1>i, RecvLemma DEF PacketsOK
<1>3. ASSUME NEW k \in Deliverable(toServer), RecvSyn(k)
      PROVE  <1>c!1
  <2>1. /\ toServer[k] \in Packet /\ ToServerOK(toServer[k])
        /\ \A x \in Range(toServer') : x \in Range(toServer)
    BY <1>2, <1>3 DEF RecvSyn
  <2>2. CASE SYN \in toServer[k].flags
    <3>1. toServer[k].seq_num = initial_seq
      BY <2>1, <2>2 DEF ToServerOK
    <3>2. PICK pkt \in Packet : pkt = Header({SYN, ACK}, server_seq, FirstSeq)
      BY PacketLemma DEF server_seq
    <3>3. toClient' = Put(toClient, pkt)
      BY <1>3, <2>2, <3>1, <3>2 DEF RecvSyn
    <3>4. recv_buffer_size' = recv_buffer_size
      BY <1>3 DEF RecvSyn
    <3>5. ToClientOK(pkt)'
      BY <1>0, <3>2, <3>4 DEF ToClientOK, Header
    <3>6. \A x \in Range(toClient') : x = pkt \/ x \in Range(toClient)
      BY <1>0, <3>3, PutLemma
    <3>7. ServerOK'
      BY <1>0, <1>3, <1>i, <1>s, <1>u, <2>2 DEF RecvSyn, ServerOK, WrittenIsReceived
    <3> QED
      BY <1>0, <2>1, <3>4, <3>5, <3>6, <3>7
  <2>3. CASE SYN \notin toServer[k].flags
    BY <1>0, <1>3, <1>i, <1>s, <1>u, <2>1, <2>3 DEF RecvSyn, ServerOK, WrittenIsReceived
  <2> QED
    BY <2>2, <2>3
<1>4. ASSUME NEW k \in Deliverable(toServer), RecvHandshakeAck(k)
      PROVE  <1>c!1
  <2>1. /\ toServer[k] \in Packet /\ ToServerOK(toServer[k])
        /\ \A x \in Range(toServer') : x \in Range(toServer)
    BY <1>2, <1>4 DEF RecvHandshakeAck
  <2>2. recv_buffer_size = 0
    BY <1>4, <1>i DEF RecvHandshakeAck, ServerOK
  <2>3. ACK \in toServer[k].flags => toServer[k].seq_num = FirstSeq \/ FileSize = 0
    BY <1>i, <2>1, <2>2 DEF ToServerOK, ClientOK
  <2>4. ServerOK'
    BY <1>0, <1>4, <1>i, <1>s, <1>u, <2>2, <2>3 DEF RecvHandshakeAck, ServerOK,
       WrittenIsReceived
  <2> QED
    BY <1>0, <1>4, <2>1, <2>4 DEF RecvHandshakeAck
<1>5. ASSUME NEW k \in Deliverable(toServer), RecvFin(k)
      PROVE  <1>c!1
  <2>1. /\ toServer[k] \in Packet /\ ToServerOK(toServer[k])
        /\ \A x \in Range(toServer') : x \in Range(toServer)
    BY <1>2, <1>5 DEF RecvFin
  <2>2. Succeeded
    BY <1>5, <2>1 DEF RecvFin, ToServerOK
  <2>3. \A x : ToClientOK(x)'
    BY <1>u, <2>2 DEF ToClientOK
  <2>4. ServerOK'
    BY <1>0, <1>5, <1>i, <1>s, <1>u, <2>2 DEF RecvFin, ServerOK, WrittenIsReceived
  <2> QED
    BY <1>0, <1>5, <2>1, <2>3, <2>4 DEF RecvFin
<1>6. ASSUME NEW k \in Deliverable(toServer), DropData(k)
      PROVE  <1>c!1
  BY <1>0, <1>2, <1>6, <1>i, <1>s, <1>u DEF DropData, serverVars, ServerOK,
     WrittenIsReceived
<1>7. ASSUME NEW k \in Deliverable(toServer), RecvInOrder(k)
      PROVE  <1>c!1
  <2>1. /\ toServer[k] \in Packet /\ ToServerOK(toServer[k])
        /\ \A x \in Range(toServer') : x \in Range(toServer)
    BY <1>2, <1>7 DEF RecvInOrder
  <2>2. PICK n \in Nat, o \in Nat, q \in Nat :
            /\ n = toServer[k].data_len /\ o = toServer[k].off
            /\ q = toServer[k].seq_num
    BY <2>1, FieldLemma
  <2>3. /\ n > 0 /\ q = next_expected_seq
        /\ q = FirstSeq + o /\ o + n <= file_pos
    BY <1>7, <2>1, <2>2 DEF RecvInOrder, InOrder, ToServerOK, Genuine
  <2>4. file_pos <= FileSize /\ FileSize # 0
    BY <1>0, <1>i, <1>z, <2>3 DEF ClientOK
  <2>5. /\ spc = "data" /\ spc' = spc /\ received_file' = received_file
        /\ recv_buffer' = Stored(toServer[k])
        /\ recv_buffer_size' = recv_buffer_size + toServer[k].data_len
        /\ next_expected_seq' = next_expected_seq + toServer[k].data_len
        /\ toClient' = Put(toClient, Header({ACK}, 0, next_expected_seq'))
    BY <1>7 DEF RecvInOrder
  <2>6. next_expected_seq = FirstSeq + recv_buffer_size
    BY <1>i, <2>4, <2>5 DEF ServerOK
  <2>7. o = recv_buffer_size
    <3>1. recv_buffer_size \in Nat
      BY <1>0
    <3>2. FirstSeq + o = FirstSeq + recv_buffer_size
      BY <2>3, <2>6
    <3> QED
      BY <3>1, <3>2
  <2>8. /\ recv_buffer_size' = recv_buffer_size + n
        /\ next_expected_seq' = next_expected_seq + n
    BY <2>2, <2>5
  <2>9. \A p \in 0 .. recv_buffer_size + n - 1 : recv_buffer'[p] = p
    <3> TAKE p \in 0 .. recv_buffer_size + n - 1
    <3>1. recv_buffer'[p] = IF p < recv_buffer_size THEN recv_buffer[p]
                            ELSE o + (p - recv_buffer_size)
      <4>1. recv_buffer' = [i \in 0 .. recv_buffer_size + n - 1 |->
                              IF i < recv_buffer_size THEN recv_buffer[i]
                              ELSE o + (i - recv_buffer_size)]
        BY <2>2, <2>5 DEF Stored
      <4> QED
        BY <4>1
    <3>2. p < recv_buffer_size => recv_buffer[p] = p
      BY <1>0, <1>i DEF ServerOK
    <3> QED
      BY <1>0, <2>7, <3>1, <3>2
  <2>10. \A p \in 0 .. recv_buffer_size' - 1 : recv_buffer'[p] = p
    <3>1. recv_buffer_size' - 1 = recv_buffer_size + n - 1
      BY <1>0, <2>8
    <3> QED
      BY <2>9, <3>1, Zenon
  <2>11. recv_buffer_size' <= file_pos'
    BY <1>0, <1>s, <2>3, <2>7, <2>8
  <2>12. next_expected_seq' = FirstSeq + recv_buffer_size'
    BY <1>0, <2>6, <2>8
  <2>13. received_file' = <<>>
    BY <1>i, <2>5 DEF ServerOK, WrittenIsReceived
  <2>14. ServerOK'
    BY <2>5, <2>10, <2>11, <2>12, <2>13 DEF ServerOK, WrittenIsReceived
  <2>15. PICK pkt \in Packet : pkt = Header({ACK}, 0, next_expected_seq')
    <3>1. next_expected_seq' \in Nat
      BY DEF TypeOK
    <3> QED
      BY <3>1, PacketLemma
  <2>16. ToClientOK(pkt)'
    <3>1. pkt.ack_num = next_expected_seq'
      BY <2>15 DEF Header
    <3>2. next_expected_seq' \in Nat
      BY DEF TypeOK
    <3> QED
      BY <2>12, <3>1, <3>2 DEF ToClientOK
  <2>17. \A x \in Range(toClient') : x = pkt \/ x \in Range(toClient)
    BY <1>0, <2>5, <2>15, PutLemma
  <2>18. recv_buffer_size' >= recv_buffer_size
    BY <1>0, <2>8
  <2> QED
    BY <2>1, <2>14, <2>16, <2>17, <2>18
<1>8. ASSUME NEW k \in Deliverable(toServer), RecvOther(k)
      PROVE  <1>c!1
  BY <1>0, <1>2, <1>8, <1>i, <1>s, <1>u DEF RecvOther, serverVars, ServerOK,
     WrittenIsReceived
<1> QED
  BY <1>1, <1>3, <1>4, <1>5, <1>6, <1>7, <1>8, <1>9, <1>10 DEF Server, ServerNext

LEMMA NetworkCoherent ==
    ASSUME TypeOK, TypeOK', Coherent, Network
    PROVE  Coherent'
<1>1. UNCHANGED <<clientVars, serverVars>>
  BY DEF Network
<1>2. Grows
  BY <1>1 DEF Grows, clientVars, serverVars, Succeeded, TypeOK
<1>3. PacketsOK'
  BY <1>1, <1>2, NetworkStep, PacketsKept DEF Coherent, clientVars
<1>4. ClientOK' /\ ServerOK'
  BY <1>1 DEF Coherent, ClientOK, ServerOK,
     WrittenIsReceived, clientVars, serverVars, Sending,
              Succeeded
<1> QED
  BY <1>3, <1>4 DEF Coherent

LEMMA CoherentInit == Init => Coherent
<1> SUFFICES ASSUME Init PROVE Coherent
  OBVIOUS
<1>1. PacketsOK
  BY DEF Init, ChannelInit, ClientInit, PacketsOK, Range, SlotOK, Genuine, Data
<1>2. ClientOK
  BY ShamAssumption DEF Init, ClientInit, ServerInit, ClientOK, Sending, Succeeded
<1>3. ServerOK
  BY DEF Init, ClientInit, ServerInit, ServerOK, WrittenIsReceived
<1> QED
  BY <1>1, <1>2, <1>3 DEF Coherent

LEMMA CoherentStep ==
    TypeOK /\ TypeOK' /\ Coherent /\ [Next]_vars => Coherent'
<1> SUFFICES ASSUME TypeOK, TypeOK', Coherent, [Next]_vars PROVE Coherent'
  OBVIOUS
<1>1. CASE UNCHANGED vars
  BY <1>1 DEF vars, channels, clientVars, serverVars, Coherent, PacketsOK,
      ClientOK, ServerOK,
         WrittenIsReceived, ToServerOK, ToClientOK, SlotOK, Genuine, Sending,
      Succeeded, Slots
<1> QED
  BY <1>1, ClientCoherent, ServerCoherent, NetworkCoherent DEF Next

\* The packets on the way and the cursors of both programs fit together at
\* every moment, whatever the network loses, repeats or reorders.
THEOREM AlwaysCoherent == Spec => []Coherent
<1> QED
  BY TypeCorrect, CoherentInit, CoherentStep, PTL DEF Spec

\* The server's buffer is a prefix of the file.
THEOREM IntegrityHolds == Spec => []Integrity
<1>1. TypeOK /\ Coherent => Integrity
  BY ShamAssumption DEF TypeOK, Coherent, ClientOK, ServerOK, Integrity
<1> QED
  BY <1>1, TypeCorrect, AlwaysCoherent, PTL

\* An acknowledgement is never ahead of the server, nor the server ahead of
\* what was sent.
THEOREM AckSoundHolds == Spec => []AckSound
<1>1. TypeOK /\ Coherent => AckSound
  BY DEF TypeOK, Coherent, ClientOK, ServerOK, AckSound, FirstSeq, initial_seq
<1> QED
  BY <1>1, TypeCorrect, AlwaysCoherent, PTL

\* When send_file() returns 0, the server holds the whole file.
THEOREM SuccessHolds == Spec => []SuccessMeansDelivered
<1>1. Coherent => SuccessMeansDelivered
  BY DEF Coherent, ClientOK, SuccessMeansDelivered
<1> QED
  BY <1>1, AlwaysCoherent, PTL

\* A received_file holds the first bytes of the file the client read, as many as
\* the server had received, and all of them unless a receive of the server failed.
THEOREM WrittenHolds == Spec => []WrittenIsReceived
<1>1. Coherent => WrittenIsReceived
  BY DEF Coherent, ServerOK
<1> QED
  BY <1>1, AlwaysCoherent, PTL
-----------------------------------------------------------------------------
(* What no step takes back                                                 *)

\* window_base, the server's buffer and received_file only ever grow.
LEMMA NothingTaken ==
    ASSUME TypeOK, TypeOK', Coherent, Coherent', [Next]_vars
    PROVE  /\ window_base' >= window_base
           /\ recv_buffer_size' >= recv_buffer_size
           /\ \A p \in 0 .. recv_buffer_size - 1 : recv_buffer'[p] = recv_buffer[p]
           /\ received_file # <<>> => received_file' = received_file
<1>1. /\ window_base \in Nat /\ window_base' \in Nat
      /\ recv_buffer_size \in Nat /\ recv_buffer_size' \in Nat
  BY DEF TypeOK
<1>2. window_base' >= window_base
  <2>1. CASE Client
    <3>1. CASE \E k \in Deliverable(toClient) : RecvSynAck(k)
      BY <1>1, <3>1 DEF RecvSynAck, Coherent, ClientOK
    <3>2. CASE \E k \in Deliverable(toClient) : RecvAck(k)
      <4>1. PICK k \in Deliverable(toClient) : RecvAck(k)
        BY <3>2
      <4>2. CASE ACK \in toClient[k].flags /\ toClient[k].ack_num > window_base
        <5>1. window_base' = toClient[k].ack_num
          BY <4>1, <4>2 DEF RecvAck
        <5> QED
          BY <1>1, <4>2, <5>1
      <4>3. CASE ~ (ACK \in toClient[k].flags /\ toClient[k].ack_num > window_base)
        <5>1. window_base' = window_base
          BY <4>1, <4>3 DEF RecvAck
        <5> QED
          BY <1>1, <5>1
      <4> QED
        BY <4>2, <4>3
    <3>3. CASE \/ SendSyn \/ SynAckTimeout
               \/ SendNew \/ StopFilling \/ AckTimeout
               \/ SlotNotDue \/ Retransmit \/ GiveUp \/ EndOfRound
               \/ SendFin \/ WaitFinAck \/ WaitPeerFin
      <4>1. window_base' = window_base
        BY <3>3 DEF SendSyn, SynAckTimeout, SendNew, StopFilling, AckTimeout, SlotNotDue,
           Retransmit, GiveUp, EndOfRound, SendFin, WaitFinAck, WaitPeerFin
      <4> QED
        BY <1>1, <4>1
    <3> QED
      BY <2>1, <3>1, <3>2, <3>3 DEF Client, ClientNext
  <2>2. CASE Server \/ Network \/ UNCHANGED vars
    BY <1>1, <2>2 DEF Server, Network, vars, clientVars
  <2> QED
    BY <2>1, <2>2 DEF Next
<1>3. recv_buffer_size' >= recv_buffer_size
  <2>1. CASE Server
    <3>1. CASE Finish \/ HandshakeError \/ DataError
      BY <1>1, <3>1 DEF Finish, HandshakeError, DataError
    <3>2. ASSUME NEW k \in Deliverable(toServer), RecvInOrder(k)
          PROVE  recv_buffer_size' >= recv_buffer_size
      <4>1. toServer[k] \in Packet
        BY <3>2, RecvLemma DEF RecvInOrder, TypeOK
      <4>2. PICK n \in Nat : n = toServer[k].data_len
        BY <4>1, FieldLemma
      <4> QED
        BY <1>1, <3>2, <4>2 DEF RecvInOrder
    <3>3. ASSUME NEW k \in Deliverable(toServer),
                 RecvSyn(k) \/ RecvHandshakeAck(k) \/ RecvFin(k) \/ DropData(k)
                     \/ RecvOther(k)
          PROVE  recv_buffer_size' >= recv_buffer_size
      <4>1. recv_buffer_size' = recv_buffer_size
        BY <3>3 DEF RecvSyn, RecvHandshakeAck, RecvFin, DropData, RecvOther, serverVars
      <4> QED
        BY <1>1, <4>1
    <3> QED
      BY <2>1, <3>1, <3>2, <3>3 DEF Server, ServerNext
  <2>2. CASE Client \/ Network \/ UNCHANGED vars
    BY <1>1, <2>2 DEF Client, Network, vars, serverVars
  <2> QED
    BY <2>1, <2>2 DEF Next
<1>4. ASSUME NEW p \in 0 .. recv_buffer_size - 1 PROVE recv_buffer'[p] = recv_buffer[p]
  <2>1. p \in 0 .. recv_buffer_size' - 1
    <3>1. \A m, n \in Int : n >= m /\ p \in 0 .. m - 1 => p \in 0 .. n - 1
      OBVIOUS
    <3>2. recv_buffer_size \in Int /\ recv_buffer_size' \in Int
      BY <1>1
    <3> QED
      BY <1>3, <1>4, <3>1, <3>2, Zenon
  <2>2. recv_buffer[p] = p
    BY DEF Coherent, ServerOK
  <2>3. recv_buffer'[p] = p
    BY <2>1 DEF Coherent, ServerOK
  <2> QED
    BY <2>2, <2>3
<1>5. ASSUME received_file # <<>> PROVE received_file' = received_file
  <2>1. spc \in {"done", "broken"}
    BY <1>5 DEF Coherent, ServerOK, WrittenIsReceived
  <2>2. ~ Server
    BY <2>1 DEF Server, ServerNext, RecvSyn, RecvHandshakeAck, RecvFin, DropData,
       RecvInOrder, RecvOther, Finish, HandshakeError, DataError
  <2> QED
    BY <2>2 DEF Next, Client, Network, vars, serverVars
<1> QED
  BY <1>2, <1>3, <1>4, <1>5

\* No step takes back an acknowledgement, a stored byte or the written file.
THEOREM NothingIsTakenBack == Spec => NeverTakenBack
<1>1. TypeOK /\ TypeOK' /\ Coherent /\ Coherent' /\ [Next]_vars =>
        [ /\ window_base' >= window_base
          /\ recv_buffer_size' >= recv_buffer_size
          /\ \A p \in 0 .. recv_buffer_size - 1 : recv_buffer'[p] = recv_buffer[p]
          /\ received_file # <<>> => received_file' = received_file ]_vars
  BY NothingTaken
<1> QED
  BY <1>1, TypeCorrect, AlwaysCoherent, PTL DEF Spec, NeverTakenBack
-----------------------------------------------------------------------------
(* The protocol provides the service FileDelivery.                         *)

LEMMA ServiceInit == Init => Service!Init
BY DEF Init, ClientInit, ServerInit, Service!Init, Succeeded

\* The server's end is the receiver's.
LEMMA ServiceEnd ==
    ASSUME TypeOK, TypeOK', Coherent, Coherent', Server, Finish \/ DataError
    PROVE  Service!Next
<1> DEFINE rep == IF Succeeded THEN "ok"
                  ELSE IF cpc = "failed" THEN "failed" ELSE "none"
<1>1. UNCHANGED rep
  BY DEF Server, clientVars, Succeeded
<1>2. recv_buffer_size \in Nat /\ recv_buffer_size' = recv_buffer_size
  BY DEF TypeOK, Finish, DataError
<1>3. Len(received_file') \in {0, recv_buffer_size}
  <2>1. CASE received_file' = <<>>
    BY <2>1
  <2>2. CASE received_file' # <<>>
    <3>1. received_file' = [p \in 1 .. recv_buffer_size |-> p - 1]
      BY <1>2, <2>2 DEF Coherent, ServerOK, WrittenIsReceived
    <3> QED
      BY <1>2, <3>1
  <2> QED
    BY <2>1, <2>2
<1>4. CASE Finish
  <2>1. spc = "last_ack" /\ spc' = "done"
    BY <1>4 DEF Finish, ServerGoto
  <2>2. rep = "ok"
    BY <2>1 DEF Coherent, ServerOK
  <2> QED
    BY <1>1, <1>2, <1>3, <2>1, <2>2 DEF Service!Next, Service!Finish, Service!Write
<1>5. CASE DataError
  <2>1. spc = "data" /\ spc' = "broken"
    BY <1>5 DEF DataError, ServerGoto
  <2> QED
    BY <1>1, <1>2, <1>3, <2>1 DEF Service!Next, Service!BreakOff, Service!Write
<1> QED
  BY <1>4, <1>5

\* What the server receives before its end arrives at the receiver, or ends it in the
\* handshake.
LEMMA ServiceReceive ==
    ASSUME TypeOK, TypeOK', Coherent, Coherent', Server, ~Finish, ~DataError
    PROVE  [Service!Next]_(Service!vars)
<1> DEFINE rep == IF Succeeded THEN "ok"
                  ELSE IF cpc = "failed" THEN "failed" ELSE "none"
           end == IF spc = "done" THEN "done"
                  ELSE IF spc \in {"broken", "failed"} THEN "broken" ELSE "open"
<1> USE DEF Service!vars, ServerGoto
<1>0. /\ recv_buffer_size \in Nat /\ recv_buffer_size' \in Nat
      /\ recv_buffer_size' <= FileSize
  BY ShamAssumption DEF TypeOK, Coherent, ServerOK, ClientOK
<1>1. UNCHANGED rep
  BY DEF Server, clientVars, Succeeded
<1>2. UNCHANGED received_file
  BY DEF Server, ServerNext, HandshakeError, RecvSyn, RecvHandshakeAck, RecvFin, DropData,
         RecvInOrder, RecvOther, serverVars
<1>3. ASSUME NEW k \in Deliverable(toServer), RecvInOrder(k)
      PROVE  [Service!Next]_(Service!vars)
  <2>1. toServer[k] \in Packet
    BY <1>3, RecvLemma DEF RecvInOrder, TypeOK
  <2>2. PICK n \in Nat : n = toServer[k].data_len
    BY <2>1, FieldLemma
  <2>3. n > 0 /\ recv_buffer_size' = recv_buffer_size + n /\ UNCHANGED spc
    BY <1>3, <2>2 DEF RecvInOrder, InOrder
  <2>4. recv_buffer_size' \in recv_buffer_size + 1 .. FileSize
    BY <1>0, <2>3, ShamAssumption
  <2>5. end = "open"
    BY <1>3 DEF RecvInOrder
  <2> QED
    BY <1>1, <1>2, <2>3, <2>4, <2>5 DEF Service!Next, Service!Deliver
<1>4. ASSUME \/ HandshakeError
             \/ \E k \in Deliverable(toServer) :
                    RecvSyn(k) \/ RecvHandshakeAck(k) \/ RecvFin(k) \/ DropData(k)
                        \/ RecvOther(k)
      PROVE  [Service!Next]_(Service!vars)
  <2>1. recv_buffer_size' = recv_buffer_size
    BY <1>4 DEF HandshakeError, RecvSyn, RecvHandshakeAck, RecvFin, DropData, RecvOther,
                serverVars
  <2>2. \/ UNCHANGED end
        \/ spc \in {"wait_syn", "wait_ack"} /\ end' = "broken"
    BY <1>4 DEF HandshakeError, RecvSyn, RecvHandshakeAck, RecvFin, DropData, RecvOther,
                serverVars
  <2>3. CASE UNCHANGED end
    BY <1>1, <1>2, <2>1, <2>3
  <2>4. CASE spc \in {"wait_syn", "wait_ack"} /\ end' = "broken"
    <3>1. end = "open" /\ Len(received_file) = 0
      BY <2>4 DEF Coherent, ServerOK, WrittenIsReceived
    <3> QED
      BY <1>1, <1>2, <2>1, <2>4, <3>1 DEF Service!Next, Service!BreakOff, Service!Write
  <2> QED
    BY <2>2, <2>3, <2>4
<1> QED
  BY <1>3, <1>4 DEF Server, ServerNext

LEMMA ServiceStep ==
    ASSUME TypeOK, TypeOK', Coherent, Coherent', [Next]_vars
    PROVE  [Service!Next]_(Service!vars)
<1> DEFINE rep == IF Succeeded THEN "ok"
                  ELSE IF cpc = "failed" THEN "failed" ELSE "none"
<1> USE DEF Service!vars
<1>1. CASE Client
  <2>1. UNCHANGED <<recv_buffer_size, received_file, spc>>
    BY <1>1 DEF Client, serverVars
  <2>2. \/ rep' = rep
        \/ rep = "none" /\ rep' = "failed"
        \/ rep = "none" /\ rep' = "ok"
    BY <1>1 DEF Client, ClientNext, ClientGoto, Succeeded, SendSyn, SynAckTimeout,
       SendNew, StopFilling, AckTimeout, SlotNotDue, Retransmit, GiveUp,
       EndOfRound, SendFin, WaitFinAck, WaitPeerFin, RecvSynAck, RecvAck
  <2>3. rep' = "ok" => recv_buffer_size = FileSize
    BY <2>1 DEF Coherent, ClientOK
  <2> QED
    BY <2>1, <2>2, <2>3 DEF Service!Next, Service!ReportOk, Service!ReportFailed
<1>2. CASE Server
  BY <1>2, ServiceEnd, ServiceReceive
<1>3. CASE Network
  BY <1>3 DEF Network, clientVars, serverVars, Succeeded
<1>4. CASE UNCHANGED vars
  BY <1>4 DEF vars, clientVars, serverVars, Succeeded
<1> QED
  BY <1>1, <1>2, <1>3, <1>4 DEF Next

\* Every behaviour of the protocol is a behaviour of the service: in-order delivery, a
\* true "ok", and one write, of the whole file after it or of a part when a receive fails.
THEOREM ServiceProvided == Spec => Implements
<1>1. TypeOK /\ TypeOK' /\ Coherent /\ Coherent' /\ [Next]_vars
        => [Service!Next]_(Service!vars)
  BY ServiceStep
<1> QED
  BY <1>1, ServiceInit, TypeCorrect, AlwaysCoherent, PTL
  DEF Spec, Implements, Service!Spec
-----------------------------------------------------------------------------
(* Chat mode: its invariant                                                *)

Lines   == Nat \ {0}
Packets == Lines \union {FinPacket, AckPacket}

\* Where a side reads the socket and prints, and where it has sent FIN.
LoopPlaces == {"select", "stdin", "both", "socket"}
FinSent    == {"fin1", "fin2", "quit"}
Places     == LoopPlaces \union FinSent \union {"ended"}

\* Types of all variables of chat mode.
ChatTypes ==
    /\ reliable \in BOOLEAN
    /\ at \in [Sides -> Places] /\ at["server"] \notin {"fin1", "fin2"}
    /\ typed \in [Sides -> Seq(Nat)] /\ unread \in [Sides -> Seq(Nat)]
    /\ count \in [Sides -> Nat]
    /\ onway \in [Sides -> Seq(Packets)]
    /\ said \in [Sides -> Seq(Lines)] /\ printed \in [Sides -> Seq(Lines)]

\* What a side sends after its lines, while it is at place b.
Trailer(s, b) ==
    CASE b \in {"fin1", "fin2"} -> <<FinPacket>>
      [] b = "quit" -> IF s = "client" THEN <<FinPacket, AckPacket>> ELSE <<FinPacket>>
      [] OTHER -> <<>>

\* What a side that printed p has got, while it is at place a.
HasGot(p, a) == IF a = "ended" THEN Append(p, FinPacket) ELSE p

Begins(p, q) == Len(p) <= Len(q) /\ \A i \in 1 .. Len(p) : p[i] = q[i]

\* Side t, at place b, said the lines in said1; its peer, at place a, printed those in p,
\* and the packets in o are on the way to it.  On any network these were sent by t; on a
\* reliable one what was sent has been got or is on the way, in order.
Flow(t, rel, a, b, p, o, said1) ==
    /\ Elements(p) \subseteq Elements(said1)
    /\ Elements(o) \subseteq Elements(said1) \union {FinPacket, AckPacket}
    /\ FinPacket \in Elements(o) => b \in FinSent
    /\ a = "ended" => b \in FinSent
    /\ rel /\ a \in LoopPlaces \union {"ended"} =>
         HasGot(p, a) \o o = said1 \o Trailer(t, b)
    /\ rel => Begins(p, said1)

FromPeer(s) ==
    Flow(Peer(s), reliable, at[s], at[Peer(s)], printed[s], onway[s], said[Peer(s)])

ChatInv == ChatTypes /\ \A s \in Sides : FromPeer(s)
-----------------------------------------------------------------------------
(* Sequences of packets                                                    *)

\* Lines and headers are numbers, and no line is a header.
LEMMA PacketFacts ==
    /\ FinPacket \in Int /\ AckPacket \in Int /\ FinPacket # AckPacket
    /\ FinPacket \notin Lines /\ AckPacket \notin Lines
    /\ Lines \subseteq Int /\ Packets \subseteq Int /\ Lines \subseteq Packets
    /\ \A q : (q \in Seq(Lines) => q \in Seq(Packets) /\ q \in Seq(Int))
    /\ \A q : q \in Seq(Packets) => q \in Seq(Int)
<1>1. /\ FinPacket \in Int /\ AckPacket \in Int /\ FinPacket # AckPacket
      /\ FinPacket \notin Lines /\ AckPacket \notin Lines
      /\ Lines \subseteq Int /\ Packets \subseteq Int /\ Lines \subseteq Packets
  BY DEF FinPacket, AckPacket, Lines, Packets
<1>2. ASSUME NEW q, q \in Seq(Lines) PROVE q \in Seq(Packets) /\ q \in Seq(Int)
  BY <1>1, <1>2, SeqMonotonic
<1>3. ASSUME NEW q, q \in Seq(Packets) PROVE q \in Seq(Int)
  BY <1>1, <1>3, SeqMonotonic
<1> QED
  BY <1>1, <1>2, <1>3

\* What is in a sequence that something was put behind.
LEMMA ElementsAppend ==
    ASSUME NEW q \in Seq(Int), NEW e \in Int
    PROVE  /\ Elements(Append(q, e)) = Elements(q) \union {e}
           /\ Append(q, e) = q \o <<e>>
<1>1. /\ Len(Append(q, e)) = Len(q) + 1 /\ Len(q) \in Nat
      /\ \A i \in 1 .. Len(q) : Append(q, e)[i] = q[i]
      /\ Append(q, e)[Len(q) + 1] = e
  BY AppendProperties
<1>2. ASSUME NEW x \in Elements(Append(q, e)) PROVE x \in Elements(q) \union {e}
  <2>1. PICK i \in 1 .. Len(q) + 1 : x = Append(q, e)[i]
    BY <1>1, <1>2 DEF Elements
  <2>2. CASE i \in 1 .. Len(q)
    BY <1>1, <2>1, <2>2 DEF Elements
  <2>3. CASE i = Len(q) + 1
    BY <1>1, <2>1, <2>3
  <2> QED
    BY <1>1, <2>2, <2>3
<1>3. e \in Elements(Append(q, e))
  <2>1. Len(q) + 1 \in 1 .. Len(Append(q, e))
    BY <1>1
  <2> QED
    BY <1>1, <2>1 DEF Elements
<1>4. ASSUME NEW x \in Elements(q) PROVE x \in Elements(Append(q, e))
  <2>1. PICK i \in 1 .. Len(q) : x = q[i]
    BY <1>4 DEF Elements
  <2>2. i \in 1 .. Len(Append(q, e)) /\ x = Append(q, e)[i]
    BY <1>1, <2>1
  <2> QED
    BY <2>2 DEF Elements
<1>5. Append(q, e) = q \o <<e>>
  BY AppendIsConcat
<1> QED
  BY <1>2, <1>3, <1>4, <1>5

\* A sequence is its first element before the others.
LEMMA HeadAndTail ==
    ASSUME NEW q \in Seq(Int), q # <<>>
    PROVE  /\ Head(q) \in Int /\ Tail(q) \in Seq(Int) /\ q = <<Head(q)>> \o Tail(q)
           /\ Head(q) \in Elements(q) /\ Elements(Tail(q)) \subseteq Elements(q)
<1>1. /\ Head(q) \in Int /\ Tail(q) \in Seq(Int) /\ Len(Tail(q)) = Len(q) - 1
      /\ \A i \in 1 .. Len(Tail(q)) : Tail(q)[i] = q[i + 1]
  BY HeadTailProperties
<1>2. Len(q) \in Nat /\ Len(q) # 0 /\ Head(q) = q[1]
  BY EmptySeq
<1>3. Head(q) \in Elements(q)
  BY <1>2 DEF Elements
<1>4. ASSUME NEW x \in Elements(Tail(q)) PROVE x \in Elements(q)
  <2>1. PICK i \in 1 .. Len(Tail(q)) : x = Tail(q)[i]
    BY <1>4 DEF Elements
  <2>2. i + 1 \in 1 .. Len(q) /\ x = q[i + 1]
    BY <1>1, <1>2, <2>1
  <2> QED
    BY <2>2 DEF Elements
<1>5. q = <<Head(q)>> \o Tail(q)
  <2>1. <<Head(q)>> \in Seq(Int) /\ Len(<<Head(q)>>) = 1 /\ <<Head(q)>>[1] = q[1]
    BY <1>1, <1>2
  <2> DEFINE h == <<Head(q)>>
  <2> DEFINE t == Tail(q)
  <2>2. h \in Seq(Int) /\ t \in Seq(Int) /\ Len(h) = 1 /\ h[1] = q[1]
    BY <1>1, <2>1
  <2> HIDE DEF h, t
  <2>3. /\ h \o t \in Seq(Int) /\ Len(h \o t) = Len(h) + Len(t)
        /\ \A i \in 1 .. Len(h) + Len(t) :
              (h \o t)[i] = IF i <= Len(h) THEN h[i] ELSE t[i - Len(h)]
    BY <2>2, ConcatProperties
  <2>4. Len(h \o t) = Len(q)
    BY <1>1, <1>2, <2>2, <2>3 DEF t
  <2>5. ASSUME NEW i \in 1 .. Len(h \o t) PROVE (h \o t)[i] = q[i]
    <3>1. CASE i = 1
      BY <1>1, <1>2, <2>2, <2>3, <2>4, <3>1 DEF t
    <3>2. CASE i # 1
      <4>1. i - 1 \in 1 .. Len(t) /\ (i - 1) + 1 = i /\ ~ (i <= 1)
        BY <1>1, <1>2, <2>4, <3>2 DEF t
      <4>2. t[i - 1] = q[i]
        BY <1>1, <4>1 DEF t
      <4> QED
        BY <2>2, <2>3, <2>4, <4>1, <4>2
    <3> QED
      BY <3>1, <3>2
  <2>6. h \o t = q
    BY <2>3, <2>4, <2>5, SeqEqual
  <2> QED
    BY <2>6 DEF h, t
<1> QED
  BY <1>1, <1>3, <1>4, <1>5

\* Three sequences in a row.
LEMMA InARow ==
    ASSUME NEW p \in Seq(Int), NEW f \in Seq(Int), NEW o \in Seq(Int)
    PROVE  (p \o f) \o o = p \o (f \o o)
BY ConcatAssociative

\* Something is put behind what is on the way.
LEMMA SendBehind ==
    ASSUME NEW g \in Seq(Int), NEW o \in Seq(Int), NEW e \in Int
    PROVE  g \o Append(o, e) = (g \o o) \o <<e>>
<1>1. Append(o, e) = o \o <<e>> /\ <<e>> \in Seq(Int)
  BY ElementsAppend
<1> QED
  BY <1>1, ConcatAssociative

\* The first packet on the way is taken.
LEMMA TakeFirst ==
    ASSUME NEW g \in Seq(Int), NEW o \in Seq(Int), o # <<>>
    PROVE  Append(g, Head(o)) \o Tail(o) = g \o o
<1>1. Head(o) \in Int /\ Tail(o) \in Seq(Int) /\ o = <<Head(o)>> \o Tail(o)
  BY HeadAndTail
<1>2. Append(g, Head(o)) = g \o <<Head(o)>> /\ <<Head(o)>> \in Seq(Int)
  BY <1>1, ElementsAppend
<1>3. (g \o <<Head(o)>>) \o Tail(o) = g \o (<<Head(o)>> \o Tail(o))
  BY <1>1, <1>2, ConcatAssociative
<1> QED
  BY <1>1, <1>2, <1>3

\* Lines that come first are among the lines that were said.
LEMMA LinesFirst ==
    ASSUME NEW p \in Seq(Lines), NEW o \in Seq(Int), NEW l \in Seq(Lines), NEW t \in Seq(Int),
           \A i \in 1 .. Len(t) : t[i] \notin Lines, p \o o = l \o t
    PROVE  Begins(p, l)
<1>1. p \in Seq(Int) /\ l \in Seq(Int)
  BY PacketFacts
<1>2. Len(p) \in Nat /\ Len(o) \in Nat /\ Len(l) \in Nat /\ Len(t) \in Nat
  BY <1>1
<1>3. /\ Len(p) + Len(o) = Len(l) + Len(t)
      /\ \A i \in 1 .. Len(p) + Len(o) : (p \o o)[i] = IF i <= Len(p) THEN p[i] ELSE o[i - Len(p)]
      /\ \A i \in 1 .. Len(l) + Len(t) : (p \o o)[i] = IF i <= Len(l) THEN l[i] ELSE t[i - Len(l)]
  <2>1. /\ Len(p \o o) = Len(p) + Len(o)
        /\ \A i \in 1 .. Len(p) + Len(o) :
              (p \o o)[i] = IF i <= Len(p) THEN p[i] ELSE o[i - Len(p)]
    BY <1>1, ConcatProperties
  <2>2. /\ Len(l \o t) = Len(l) + Len(t)
        /\ \A i \in 1 .. Len(l) + Len(t) :
              (l \o t)[i] = IF i <= Len(l) THEN l[i] ELSE t[i - Len(l)]
    BY <1>1, ConcatProperties
  <2> QED
    BY <2>1, <2>2, Zenon
<1>4. Len(p) <= Len(l)
  <2> SUFFICES ASSUME Len(p) > Len(l) PROVE FALSE
    BY <1>2
  <2>1. /\ Len(l) + 1 \in 1 .. Len(p) /\ Len(l) + 1 \in 1 .. Len(l) + Len(t)
        /\ (Len(l) + 1) - Len(l) = 1 /\ 1 \in 1 .. Len(t) /\ ~ (Len(l) + 1 <= Len(l))
        /\ Len(l) + 1 \in 1 .. Len(p) + Len(o) /\ Len(l) + 1 <= Len(p)
    BY <1>2, <1>3
  <2>2. p[Len(l) + 1] = t[1]
    BY <1>3, <2>1
  <2>3. p[Len(l) + 1] \in Lines
    BY <2>1, ElementOfSeq
  <2> QED
    BY <2>1, <2>2, <2>3
<1>5. ASSUME NEW i \in 1 .. Len(p) PROVE p[i] = l[i]
  <2>1. i \in 1 .. Len(p) + Len(o) /\ i \in 1 .. Len(l) + Len(t) /\ i <= Len(p) /\ i <= Len(l)
    BY <1>2, <1>4
  <2> QED
    BY <1>3, <2>1
<1> QED
  BY <1>4, <1>5 DEF Begins

\* What comes after them: the next line, or the trailer.
LEMMA NextPacket ==
    ASSUME NEW p \in Seq(Int), NEW o \in Seq(Int), NEW l \in Seq(Int), NEW t \in Seq(Int),
           Begins(p, l), p \o o = l \o t
    PROVE  /\ o # <<>> => \/ Len(p) < Len(l) /\ Head(o) = l[Len(p) + 1]
                          \/ Len(p) = Len(l) /\ Len(t) > 0 /\ Head(o) = t[1]
           /\ Len(t) > 0 => t[1] \in Elements(o)
<1>1. Len(p) \in Nat /\ Len(o) \in Nat /\ Len(l) \in Nat /\ Len(t) \in Nat /\ Len(p) <= Len(l)
  BY DEF Begins
<1>2. /\ Len(p) + Len(o) = Len(l) + Len(t)
      /\ \A i \in 1 .. Len(p) + Len(o) : (p \o o)[i] = IF i <= Len(p) THEN p[i] ELSE o[i - Len(p)]
      /\ \A i \in 1 .. Len(l) + Len(t) : (p \o o)[i] = IF i <= Len(l) THEN l[i] ELSE t[i - Len(l)]
  <2>1. /\ Len(p \o o) = Len(p) + Len(o)
        /\ \A i \in 1 .. Len(p) + Len(o) :
              (p \o o)[i] = IF i <= Len(p) THEN p[i] ELSE o[i - Len(p)]
    BY ConcatProperties
  <2>2. /\ Len(l \o t) = Len(l) + Len(t)
        /\ \A i \in 1 .. Len(l) + Len(t) :
              (l \o t)[i] = IF i <= Len(l) THEN l[i] ELSE t[i - Len(l)]
    BY ConcatProperties
  <2> QED
    BY <2>1, <2>2, Zenon
<1>3. ASSUME o # <<>>
      PROVE  \/ Len(p) < Len(l) /\ Head(o) = l[Len(p) + 1]
             \/ Len(p) = Len(l) /\ Len(t) > 0 /\ Head(o) = t[1]
  <2>1. Len(o) > 0 /\ Head(o) = o[1]
    BY <1>1, <1>3, EmptySeq
  <2>2. /\ Len(p) + 1 \in 1 .. Len(p) + Len(o) /\ Len(p) + 1 \in 1 .. Len(l) + Len(t)
        /\ ~ (Len(p) + 1 <= Len(p)) /\ (Len(p) + 1) - Len(p) = 1
    BY <1>1, <1>2, <2>1
  <2>3. (p \o o)[Len(p) + 1] = Head(o)
    BY <1>2, <2>1, <2>2
  <2>4. CASE Len(p) < Len(l)
    <3>1. Len(p) + 1 <= Len(l)
      BY <1>1, <2>4
    <3> QED
      BY <1>2, <2>2, <2>3, <2>4, <3>1
  <2>5. CASE Len(p) = Len(l)
    <3>1. ~ (Len(p) + 1 <= Len(l)) /\ (Len(p) + 1) - Len(l) = 1 /\ Len(t) > 0
      BY <1>1, <1>2, <2>1, <2>5
    <3> QED
      BY <1>2, <2>2, <2>3, <2>5, <3>1
  <2> QED
    BY <1>1, <2>4, <2>5
<1>4. ASSUME Len(t) > 0 PROVE t[1] \in Elements(o)
  <2>1. /\ Len(l) + 1 \in 1 .. Len(p) + Len(o) /\ Len(l) + 1 \in 1 .. Len(l) + Len(t)
        /\ ~ (Len(l) + 1 <= Len(l)) /\ (Len(l) + 1) - Len(l) = 1
        /\ ~ (Len(l) + 1 <= Len(p)) /\ (Len(l) + 1) - Len(p) \in 1 .. Len(o)
    BY <1>1, <1>2, <1>4
  <2>2. t[1] = o[(Len(l) + 1) - Len(p)]
    BY <1>2, <2>1
  <2> QED
    BY <2>1, <2>2 DEF Elements
<1> QED
  BY <1>3, <1>4
-----------------------------------------------------------------------------
(* What a step does to the flow of packets                                 *)

\* The trailer at each place.
LEMMA TrailerFacts ==
    ASSUME NEW t, NEW b
    PROVE  /\ Trailer(t, b) \in Seq(Int)
           /\ \A i \in 1 .. Len(Trailer(t, b)) : Trailer(t, b)[i] \notin Lines
           /\ b \notin FinSent => Trailer(t, b) = <<>>
           /\ b \in FinSent => Len(Trailer(t, b)) > 0 /\ Trailer(t, b)[1] = FinPacket
           /\ b \in {"fin1", "fin2"} => Trailer(t, b) = <<FinPacket>>
           /\ b = "quit" /\ t # "client" => Trailer(t, b) = <<FinPacket>>
           /\ b = "quit" /\ t = "client" => Trailer(t, b) = <<FinPacket, AckPacket>>
<1>1. FinPacket \in Int /\ AckPacket \in Int /\ FinPacket \notin Lines /\ AckPacket \notin Lines
  BY PacketFacts
<1>2. /\ <<>> \in Seq(Int) /\ Len(<<>>) = 0
      /\ <<FinPacket>> \in Seq(Int) /\ Len(<<FinPacket>>) = 1 /\ <<FinPacket>>[1] = FinPacket
      /\ <<FinPacket, AckPacket>> \in Seq(Int) /\ Len(<<FinPacket, AckPacket>>) = 2
      /\ <<FinPacket, AckPacket>>[1] = FinPacket /\ <<FinPacket, AckPacket>>[2] = AckPacket
  BY <1>1
<1>3. CASE b \in {"fin1", "fin2"}
  <2>1. Trailer(t, b) = <<FinPacket>> /\ b \in FinSent /\ b # "quit"
    BY <1>3 DEF Trailer, FinSent
  <2> QED
    BY <1>1, <1>2, <1>3, <2>1
<1>4. CASE b = "quit" /\ t = "client"
  <2>1. Trailer(t, b) = <<FinPacket, AckPacket>> /\ b \in FinSent /\ b \notin {"fin1", "fin2"}
    BY <1>4 DEF Trailer, FinSent
  <2>2. \A i \in 1 .. Len(Trailer(t, b)) : Trailer(t, b)[i] \notin Lines
    <3> SUFFICES ASSUME NEW i \in 1 .. Len(Trailer(t, b)) PROVE Trailer(t, b)[i] \notin Lines
      OBVIOUS
    <3>1. i = 1 \/ i = 2
      BY <1>2, <2>1
    <3> QED
      BY <1>1, <1>2, <2>1, <3>1
  <2>3. Trailer(t, b) \in Seq(Int) /\ Len(Trailer(t, b)) > 0 /\ Trailer(t, b)[1] = FinPacket
    BY <1>2, <2>1
  <2> QED
    BY <1>4, <2>1, <2>2, <2>3
<1>5. CASE b = "quit" /\ t # "client"
  <2>1. Trailer(t, b) = <<FinPacket>> /\ b \in FinSent /\ b \notin {"fin1", "fin2"}
    BY <1>5 DEF Trailer, FinSent
  <2>2. \A i \in 1 .. Len(Trailer(t, b)) : Trailer(t, b)[i] \notin Lines
    <3> SUFFICES ASSUME NEW i \in 1 .. Len(Trailer(t, b)) PROVE Trailer(t, b)[i] \notin Lines
      OBVIOUS
    <3>1. i = 1 \/ i = 2
      BY <1>2, <2>1
    <3> QED
      BY <1>1, <1>2, <2>1, <3>1
  <2>3. Trailer(t, b) \in Seq(Int) /\ Len(Trailer(t, b)) > 0 /\ Trailer(t, b)[1] = FinPacket
    BY <1>2, <2>1
  <2> QED
    BY <1>5, <2>1, <2>2, <2>3
<1>6. CASE b \notin FinSent
  <2>1. Trailer(t, b) = <<>> /\ b # "quit" /\ b \notin {"fin1", "fin2"}
    BY <1>6 DEF Trailer, FinSent
  <2> QED
    BY <1>2, <1>6, <2>1
<1> QED
  BY <1>3, <1>4, <1>5, <1>6 DEF FinSent

\* The ACK that the client sends behind its FIN.
LEMMA FinThenAck == Append(<<FinPacket>>, AckPacket) = <<FinPacket, AckPacket>>
<1>1. /\ <<FinPacket>> \in Seq(Int) /\ AckPacket \in Int
      /\ Len(<<FinPacket>>) = 1 /\ <<FinPacket>>[1] = FinPacket
      /\ <<FinPacket, AckPacket>> \in Seq(Int) /\ Len(<<FinPacket, AckPacket>>) = 2
      /\ <<FinPacket, AckPacket>>[1] = FinPacket
      /\ <<FinPacket, AckPacket>>[2] = AckPacket
  BY PacketFacts
<1> DEFINE f == <<FinPacket>>
<1> DEFINE g == Append(f, AckPacket)
<1>2. f \in Seq(Int) /\ Len(f) = 1 /\ f[1] = FinPacket
  BY <1>1
<1> HIDE DEF f
<1>3. g \in Seq(Int) /\ Len(g) = Len(f) + 1 /\ g[Len(f) + 1] = AckPacket
      /\ \A i \in 1 .. Len(f) : g[i] = f[i]
  <2>1. AckPacket \in Int
    BY PacketFacts
  <2>2. f \in Seq(Int)
    BY <1>2
  <2> QED
    BY <2>1, <2>2, AppendProperties
<1> HIDE DEF g
<1>4. Len(g) = 2 /\ g[1] = FinPacket /\ g[2] = AckPacket
  BY <1>2, <1>3
<1>5. \A i \in 1 .. Len(g) : g[i] = <<FinPacket, AckPacket>>[i]
  <2> SUFFICES ASSUME NEW i \in 1 .. Len(g) PROVE g[i] = <<FinPacket, AckPacket>>[i]
    OBVIOUS
  <2>1. i = 1 \/ i = 2
    BY <1>4
  <2> QED
    BY <1>1, <1>4, <2>1
<1>6. g = <<FinPacket, AckPacket>>
  BY <1>1, <1>3, <1>4, <1>5, SeqEqual
<1> QED
  BY <1>6 DEF f, g

\* The packets a side has got.
LEMMA GotFacts ==
    ASSUME NEW p \in Seq(Lines), NEW a
    PROVE  HasGot(p, a) \in Seq(Int)
<1>1. p \in Seq(Int) /\ FinPacket \in Int
  BY PacketFacts
<1> QED
  BY <1>1 DEF HasGot

\* The peer types a line and sends it.
LEMMA FlowLine ==
    ASSUME NEW t, NEW rel, NEW a, NEW b, NEW b2, NEW p \in Seq(Lines), NEW o \in Seq(Packets),
           NEW l \in Seq(Lines), NEW x \in Lines,
           Flow(t, rel, a, b, p, o, l), b \notin FinSent, b2 \notin FinSent
    PROVE  Flow(t, rel, a, b2, p, Append(o, x), Append(l, x))
<1>1. p \in Seq(Int) /\ o \in Seq(Int) /\ l \in Seq(Int) /\ x \in Int
      /\ x # FinPacket /\ Append(l, x) \in Seq(Lines)
  BY PacketFacts
<1>2. /\ Elements(Append(o, x)) = Elements(o) \union {x}
      /\ Elements(Append(l, x)) = Elements(l) \union {x} /\ Append(l, x) = l \o <<x>>
  BY <1>1, ElementsAppend
<1>3. /\ Elements(p) \subseteq Elements(Append(l, x))
      /\ Elements(Append(o, x)) \subseteq Elements(Append(l, x)) \union {FinPacket, AckPacket}
      /\ FinPacket \notin Elements(Append(o, x)) /\ a # "ended"
  BY <1>1, <1>2 DEF Flow
<1>4. ASSUME rel, a \in LoopPlaces \union {"ended"}
      PROVE  HasGot(p, a) \o Append(o, x) = Append(l, x) \o Trailer(t, b2)
  <2>1. HasGot(p, a) \in Seq(Int)
    BY GotFacts
  <2>2. HasGot(p, a) \o o = l \o Trailer(t, b)
    BY <1>4 DEF Flow
  <2>3. Trailer(t, b) = <<>> /\ Trailer(t, b2) = <<>>
    BY TrailerFacts
  <2>4. HasGot(p, a) \o o = l
    BY <1>1, <2>2, <2>3, ConcatEmptySeq
  <2>5. HasGot(p, a) \o Append(o, x) = l \o <<x>>
    BY <1>1, <2>1, <2>4, SendBehind
  <2>6. Append(l, x) \o <<>> = Append(l, x)
    BY <1>1, ConcatEmptySeq
  <2> QED
    BY <1>2, <2>3, <2>5, <2>6
<1>5. ASSUME rel PROVE Begins(p, Append(l, x))
  <2>1. Begins(p, l)
    BY <1>5 DEF Flow
  <2>2. /\ Len(Append(l, x)) = Len(l) + 1 /\ Len(l) \in Nat /\ Len(p) \in Nat
        /\ \A i \in 1 .. Len(l) : Append(l, x)[i] = l[i]
    BY <1>1, AppendProperties
  <2> QED
    BY <2>1, <2>2 DEF Begins
<1> QED
  BY <1>3, <1>4, <1>5 DEF Flow

\* The peer sends FIN, or the ACK after it.
LEMMA FlowTrailer ==
    ASSUME NEW t, NEW rel, NEW a, NEW b, NEW b2, NEW p \in Seq(Lines), NEW o \in Seq(Packets),
           NEW l \in Seq(Lines), NEW x \in {FinPacket, AckPacket},
           Flow(t, rel, a, b, p, o, l), b2 \in FinSent,
           Trailer(t, b2) = Append(Trailer(t, b), x)
    PROVE  Flow(t, rel, a, b2, p, Append(o, x), l)
<1>1. p \in Seq(Int) /\ o \in Seq(Int) /\ l \in Seq(Int) /\ x \in Int
  BY PacketFacts
<1>2. /\ Elements(Append(o, x)) = Elements(o) \union {x}
  BY <1>1, ElementsAppend
<1>3. /\ Elements(p) \subseteq Elements(l)
      /\ Elements(Append(o, x)) \subseteq Elements(l) \union {FinPacket, AckPacket}
  BY <1>2 DEF Flow
<1>4. ASSUME rel, a \in LoopPlaces \union {"ended"}
      PROVE  HasGot(p, a) \o Append(o, x) = l \o Trailer(t, b2)
  <2>1. HasGot(p, a) \in Seq(Int) /\ Trailer(t, b) \in Seq(Int)
    BY GotFacts, TrailerFacts
  <2>2. HasGot(p, a) \o o = l \o Trailer(t, b)
    BY <1>4 DEF Flow
  <2>3. HasGot(p, a) \o Append(o, x) = (HasGot(p, a) \o o) \o <<x>>
    BY <1>1, <2>1, SendBehind
  <2>4. l \o Append(Trailer(t, b), x) = (l \o Trailer(t, b)) \o <<x>>
    BY <1>1, <2>1, SendBehind
  <2> QED
    BY <2>2, <2>3, <2>4
<1> QED
  BY <1>3, <1>4 DEF Flow

\* The peer goes on without sending.
LEMMA FlowSame ==
    ASSUME NEW t, NEW rel, NEW a, NEW b, NEW b2, NEW p, NEW o, NEW l,
           Flow(t, rel, a, b, p, o, l), b \in FinSent <=> b2 \in FinSent,
           Trailer(t, b2) = Trailer(t, b)
    PROVE  Flow(t, rel, a, b2, p, o, l)
BY DEF Flow

\* The side goes on within its loop, or leaves it, and packets may be dropped after that.
LEMMA FlowMoves ==
    ASSUME NEW t, NEW rel, NEW a, NEW a2, NEW b, NEW p, NEW o, NEW o2, NEW l,
           Flow(t, rel, a, b, p, o, l), Elements(o2) \subseteq Elements(o), a # "ended",
           \/ a \in LoopPlaces /\ a2 \in LoopPlaces /\ o2 = o
           \/ a2 \in FinSent
    PROVE  Flow(t, rel, a2, b, p, o2, l)
<1>1. a2 # "ended" /\ (a2 \in FinSent => a2 \notin LoopPlaces \union {"ended"})
  BY DEF LoopPlaces, FinSent
<1>2. HasGot(p, a) = p /\ HasGot(p, a2) = p
  BY <1>1 DEF HasGot
<1> QED
  BY <1>1, <1>2 DEF Flow

\* A network that is not reliable loses and reorders packets.
LEMMA FlowDisturbed ==
    ASSUME NEW t, NEW a, NEW b, NEW p, NEW o, NEW o2, NEW l,
           Flow(t, FALSE, a, b, p, o, l), Elements(o2) \subseteq Elements(o)
    PROVE  Flow(t, FALSE, a, b, p, o2, l)
BY DEF Flow

\* The side reads the socket.
LEMMA FlowReceives ==
    ASSUME NEW t, NEW rel, NEW b, NEW p \in Seq(Lines), NEW o \in Seq(Packets),
           NEW l \in Seq(Lines), o # <<>>, Flow(t, rel, "socket", b, p, o, l)
    PROVE  /\ Head(o) = FinPacket => Flow(t, rel, "ended", b, p, Tail(o), l)
           /\ Head(o) \in Lines => Flow(t, rel, "select", b, Append(p, Head(o)), Tail(o), l)
           /\ Head(o) = AckPacket => ~ rel
<1>1. p \in Seq(Int) /\ o \in Seq(Int) /\ l \in Seq(Int)
  BY PacketFacts
<1>2. /\ Head(o) \in Int /\ Tail(o) \in Seq(Int) /\ Head(o) \in Elements(o)
      /\ Elements(Tail(o)) \subseteq Elements(o)
  BY <1>1, HeadAndTail
<1>3. Append(p, Head(o)) \o Tail(o) = p \o o
  BY <1>1, TakeFirst
<1>4. rel => p \o o = l \o Trailer(t, b)
  BY DEF Flow, HasGot, LoopPlaces
<1>5. Trailer(t, b) \in Seq(Int) /\ \A i \in 1 .. Len(Trailer(t, b)) : Trailer(t, b)[i] \notin Lines
  BY TrailerFacts
<1>6. ASSUME Head(o) = FinPacket PROVE Flow(t, rel, "ended", b, p, Tail(o), l)
  <2>1. HasGot(p, "ended") = Append(p, Head(o))
    BY <1>6 DEF HasGot
  <2>2. b \in FinSent
    BY <1>2, <1>6 DEF Flow
  <2>3. rel => HasGot(p, "ended") \o Tail(o) = l \o Trailer(t, b)
    BY <1>3, <1>4, <2>1
  <2> QED
    BY <1>2, <2>2, <2>3 DEF Flow
<1>7. ASSUME Head(o) \in Lines
      PROVE  Flow(t, rel, "select", b, Append(p, Head(o)), Tail(o), l)
  <2> DEFINE q == Append(p, Head(o))
  <2>1. q \in Seq(Lines) /\ Elements(q) = Elements(p) \union {Head(o)}
    BY <1>1, <1>2, <1>7, ElementsAppend, AppendProperties
  <2>2. Head(o) \in Elements(l)
    BY <1>2, <1>7, PacketFacts DEF Flow
  <2>3. rel => q \o Tail(o) = l \o Trailer(t, b)
    BY <1>3, <1>4
  <2> HIDE DEF q
  <2>4. rel => Begins(q, l)
    BY <1>2, <1>5, <2>1, <2>3, LinesFirst
  <2>5. HasGot(q, "select") = q
    BY DEF HasGot
  <2> QED
    BY <1>2, <2>1, <2>2, <2>3, <2>4, <2>5 DEF Flow, q
<1>8. ASSUME Head(o) = AckPacket, rel PROVE FALSE
  <2>1. Begins(p, l)
    BY <1>8 DEF Flow
  <2>2. \/ Len(p) < Len(l) /\ Head(o) = l[Len(p) + 1]
        \/ Len(Trailer(t, b)) > 0 /\ Head(o) = Trailer(t, b)[1]
    <3> DEFINE u == Trailer(t, b)
    <3>1. p \o o = l \o u /\ u \in Seq(Int)
      BY <1>4, <1>5, <1>8
    <3> HIDE DEF u
    <3>2. \/ Len(p) < Len(l) /\ Head(o) = l[Len(p) + 1]
          \/ Len(p) = Len(l) /\ Len(u) > 0 /\ Head(o) = u[1]
      BY <1>1, <2>1, <3>1, NextPacket
    <3> QED
      BY <3>2 DEF u
  <2>3. Len(p) < Len(l) => l[Len(p) + 1] \in Lines
    <3>1. Len(p) \in Nat /\ Len(l) \in Nat
      OBVIOUS
    <3> QED
      BY <3>1, ElementOfSeq
  <2>4. Len(Trailer(t, b)) > 0 => Trailer(t, b)[1] = FinPacket
    BY TrailerFacts, EmptySeq
  <2> QED
    BY <1>8, <2>2, <2>3, <2>4, PacketFacts
<1> QED
  BY <1>6, <1>7, <1>8
-----------------------------------------------------------------------------
(* The steps of chat mode                                                  *)

\* The two sides.
LEMMA TwoSides ==
    ASSUME NEW s \in Sides
    PROVE  /\ Peer(s) \in Sides /\ Peer(s) # s /\ Peer(Peer(s)) = s
           /\ \A r \in Sides : r = s \/ r = Peer(s)
           /\ s \in {"client", "server"}
           /\ "client" \in Sides /\ "server" \in Sides /\ Peer("client") = "server"
BY ShamChatAssumption DEF Peer

\* The parts of the invariant that the step of side s needs.
LEMMA BeforeChat ==
    ASSUME ChatInv, NEW s \in Sides
    PROVE  /\ ChatTypes
           /\ Flow(Peer(s), reliable, at[s], at[Peer(s)], printed[s], onway[s], said[Peer(s)])
           /\ Flow(s, reliable, at[Peer(s)], at[s], printed[Peer(s)], onway[Peer(s)], said[s])
           /\ \A r \in Sides :
                /\ at[r] \in Places /\ typed[r] \in Seq(Nat) /\ unread[r] \in Seq(Nat)
                /\ count[r] \in Nat /\ onway[r] \in Seq(Packets)
                /\ said[r] \in Seq(Lines) /\ printed[r] \in Seq(Lines)
<1>1. ChatTypes /\ FromPeer(s) /\ FromPeer(Peer(s)) /\ Peer(Peer(s)) = s
  BY TwoSides DEF ChatInv
<1>2. \A r \in Sides :
        /\ at[r] \in Places /\ typed[r] \in Seq(Nat) /\ unread[r] \in Seq(Nat)
        /\ count[r] \in Nat /\ onway[r] \in Seq(Packets)
        /\ said[r] \in Seq(Lines) /\ printed[r] \in Seq(Lines)
  BY <1>1 DEF ChatTypes
<1> QED
  BY <1>1, <1>2 DEF FromPeer

\* The invariant after a step of side s.
LEMMA AfterChat ==
    ASSUME NEW s \in Sides, ChatTypes', reliable' = reliable,
           at'[Peer(s)] = at[Peer(s)], printed'[Peer(s)] = printed[Peer(s)],
           said'[Peer(s)] = said[Peer(s)],
           Flow(Peer(s), reliable, at'[s], at[Peer(s)], printed'[s], onway'[s], said[Peer(s)]),
           Flow(s, reliable, at[Peer(s)], at'[s], printed[Peer(s)], onway'[Peer(s)], said'[s])
    PROVE  ChatInv'
<1>1. FromPeer(s)'
  BY DEF FromPeer
<1>2. FromPeer(Peer(s))'
  BY TwoSides DEF FromPeer
<1>3. ASSUME NEW r \in Sides PROVE FromPeer(r)'
  BY <1>1, <1>2, TwoSides
<1> QED
  BY <1>3 DEF ChatInv

\* What a user types does not change what was sent.
LEMMA TypeKeeps ==
    ASSUME ChatInv, NEW s \in Sides, Type(s) \/ TypeEof(s)
    PROVE  ChatInv'
<1>1. UNCHANGED <<reliable, at, unread, onway, said, printed>>
  BY DEF Type, TypeEof
<1>2. typed' \in [Sides -> Seq(Nat)] /\ count' \in [Sides -> Nat]
  <2>1. ChatTypes /\ typed[s] \in Seq(Nat) /\ count[s] \in Nat
    BY BeforeChat
  <2>2. CASE TypeEof(s)
    BY <2>1, <2>2 DEF TypeEof, ChatTypes
  <2>3. CASE Type(s)
    <3>1. PICK l \in {count[s] + 1, Quit} : typed' = [typed EXCEPT ![s] = Append(@, l)]
      BY <2>3 DEF Type
    <3>2. l \in Nat
      BY <2>1 DEF Quit
    <3>3. Append(typed[s], l) \in Seq(Nat)
      BY <2>1, <3>2
    <3>4. count' = [count EXCEPT ![s] = @ + 1]
      BY <2>3 DEF Type
    <3> QED
      BY <2>1, <3>1, <3>3, <3>4 DEF ChatTypes
  <2> QED
    BY <2>2, <2>3
<1>3. ChatTypes'
  BY <1>1, <1>2 DEF ChatInv, ChatTypes
<1> QED
  BY <1>1, <1>3, BeforeChat, AfterChat

\* An element of a sequence without one of its elements is one of the sequence.
LEMMA WithoutOne ==
    ASSUME NEW q \in Seq(Packets), NEW k \in 1 .. Len(q)
    PROVE  /\ Without1(q, k) \in Seq(Packets)
           /\ <<q[k]>> \o Without1(q, k) \in Seq(Packets)
           /\ Elements(Without1(q, k)) \subseteq Elements(q)
           /\ Elements(<<q[k]>> \o Without1(q, k)) \subseteq Elements(q)
<1> DEFINE a == SubSeq(q, 1, k - 1)
<1> DEFINE b == SubSeq(q, k + 1, Len(q))
<1> DEFINE E == Elements(q)
<1>1. Len(q) \in Nat /\ k \in Nat /\ k >= 1 /\ k <= Len(q)
  OBVIOUS
<1>2. ASSUME NEW i \in 1 .. Len(q) PROVE q[i] \in E /\ q[i] \in Packets
  BY DEF Elements
<1> HIDE DEF E
<1>3. a \in Seq(E) /\ a \in Seq(Packets)
  <2>1. \A i \in 1 .. k - 1 : q[i] \in E /\ q[i] \in Packets
    BY <1>1, <1>2
  <2> QED
    BY <1>1, <2>1, SubSeqProperties
<1>4. b \in Seq(E) /\ b \in Seq(Packets)
  <2>1. \A i \in k + 1 .. Len(q) : q[i] \in E /\ q[i] \in Packets
    BY <1>1, <1>2
  <2>2. k + 1 \in Int /\ Len(q) \in Int
    BY <1>1
  <2> QED
    BY <2>1, <2>2, SubSeqProperties
<1> HIDE DEF a, b
<1>5. a \o b \in Seq(E) /\ a \o b \in Seq(Packets)
  BY <1>3, <1>4, ConcatProperties
<1>6. <<q[k]>> \in Seq(E) /\ <<q[k]>> \in Seq(Packets)
  BY <1>2
<1>7. <<q[k]>> \o (a \o b) \in Seq(E) /\ <<q[k]>> \o (a \o b) \in Seq(Packets)
  BY <1>5, <1>6, ConcatProperties
<1>8. \A r \in Seq(E) : Elements(r) \subseteq E
  BY ElementOfSeq DEF Elements
<1>9. Without1(q, k) = a \o b
  BY DEF Without1, a, b
<1> QED
  BY <1>5, <1>7, <1>8, <1>9 DEF E

\* The network disturbs the packets on the way to s.
LEMMA DisturbKeeps ==
    ASSUME ChatInv, NEW s \in Sides, Disturb(s)
    PROVE  ChatInv'
<1>1. UNCHANGED <<reliable, at, typed, count, unread, said, printed>> /\ ~ reliable
  BY DEF Disturb
<1>2. PICK k \in 1 .. Len(onway[s]) : \E q \in {Without1(onway[s], k),
                                                <<onway[s][k]>> \o Without1(onway[s], k)} :
        onway' = [onway EXCEPT ![s] = q]
  BY DEF Disturb
<1>3. PICK q \in {Without1(onway[s], k), <<onway[s][k]>> \o Without1(onway[s], k)} :
        onway' = [onway EXCEPT ![s] = q]
  BY <1>2
<1>4. ChatTypes /\ onway[s] \in Seq(Packets)
  BY BeforeChat
<1>5. q \in Seq(Packets) /\ Elements(q) \subseteq Elements(onway[s])
  BY <1>3, <1>4, WithoutOne
<1>6. onway' \in [Sides -> Seq(Packets)] /\ onway'[s] = q /\ onway'[Peer(s)] = onway[Peer(s)]
  BY <1>3, <1>4, <1>5, TwoSides DEF ChatTypes
<1>7. ChatTypes'
  BY <1>1, <1>4, <1>6 DEF ChatTypes
<1>8. reliable = FALSE
  BY <1>1, <1>4 DEF ChatTypes
<1>9. Flow(Peer(s), FALSE, at[s], at[Peer(s)], printed[s], q, said[Peer(s)])
  BY <1>5, <1>8, BeforeChat, FlowDisturbed
<1> QED
  BY <1>1, <1>6, <1>7, <1>8, <1>9, BeforeChat, AfterChat

\* A step of s within its loop.
LEMMA LoopKeeps ==
    ASSUME ChatInv, NEW s \in Sides, NEW a2 \in LoopPlaces, at[s] \in LoopPlaces,
           at' = [at EXCEPT ![s] = a2],
           UNCHANGED <<reliable, typed, count, unread, onway, said, printed>>
    PROVE  ChatInv'
<1>1. ChatTypes /\ at[s] # "ended" /\ at[s] \notin FinSent /\ a2 \notin FinSent
  BY BeforeChat DEF LoopPlaces, FinSent
<1>2. /\ at' \in [Sides -> Places] /\ at'["server"] \notin {"fin1", "fin2"}
      /\ at'[s] = a2 /\ at'[Peer(s)] = at[Peer(s)]
  BY <1>1, TwoSides DEF ChatTypes, Places, FinSent
<1>3. ChatTypes'
  BY <1>1, <1>2 DEF ChatTypes
<1>4. Flow(Peer(s), reliable, a2, at[Peer(s)], printed[s], onway[s], said[Peer(s)])
  BY <1>1, BeforeChat, FlowMoves
<1>5. Trailer(s, a2) = Trailer(s, at[s])
  BY <1>1, TrailerFacts
<1>6. Flow(s, reliable, at[Peer(s)], a2, printed[Peer(s)], onway[Peer(s)], said[s])
  BY <1>1, <1>5, BeforeChat, FlowSame
<1> QED
  BY <1>2, <1>3, <1>4, <1>6, AfterChat

\* select() and the end of standard input.
LEMMA WaitKeeps ==
    ASSUME ChatInv, NEW s \in Sides, Select(s) \/ ReadEof(s)
    PROVE  ChatInv'
<1>1. UNCHANGED <<reliable, typed, count, unread, onway, said, printed>>
      /\ at[s] \in LoopPlaces
  BY DEF Select, ReadEof, LoopPlaces
<1>2. PICK a2 \in LoopPlaces : at' = [at EXCEPT ![s] = a2]
  <2>1. CASE Select(s)
    <3> DEFINE c == CASE ~StdinReady(s) -> "socket" [] onway[s] = <<>> -> "stdin"
                      [] OTHER -> "both"
    <3>1. at' = [at EXCEPT ![s] = c]
      BY <2>1 DEF Select
    <3>2. c \in LoopPlaces
      BY DEF LoopPlaces
    <3> QED
      BY <3>1, <3>2
  <2>2. CASE ReadEof(s)
    BY <2>2 DEF ReadEof, AfterStdin, LoopPlaces
  <2> QED
    BY <2>1, <2>2
<1> QED
  BY <1>1, <1>2, LoopKeeps

\* fgets(): a line is sent, or /quit sends FIN.
LEMMA ReadKeeps ==
    ASSUME ChatInv, NEW s \in Sides, ReadLine(s)
    PROVE  ChatInv'
<1>1. /\ at[s] \in {"stdin", "both"} /\ (unread[s] # <<>> \/ typed[s] # <<>>)
      /\ UNCHANGED <<reliable, count, printed>>
  BY DEF ReadLine
<1>2. PICK n \in IF unread[s] = <<>> THEN 1 .. Len(typed[s]) \intersect 1 .. Burst ELSE {0} :
        LET lines == unread[s] \o SubSeq(typed[s], 1, n)
            line1 == lines[1]
        IN  /\ typed' = [typed EXCEPT ![s] = SubSeq(@, n + 1, Len(@))]
            /\ unread' = [unread EXCEPT ![s] = Tail(lines)]
            /\ IF line1 = Quit
                 THEN /\ onway' = [onway EXCEPT ![Peer(s)] = @ \o QuitPackets(s)]
                      /\ at' = [at EXCEPT ![s] = IF s = "client" THEN "fin1" ELSE "quit"]
                      /\ UNCHANGED said
                 ELSE /\ Sends(s, line1)
                      /\ said' = [said EXCEPT ![s] = Append(@, line1)]
                      /\ at' = [at EXCEPT ![s] = AfterStdin(s)]
  BY DEF ReadLine
<1> DEFINE lines == unread[s] \o SubSeq(typed[s], 1, n)
<1> DEFINE x == lines[1]
<1>3. /\ ChatTypes /\ typed[s] \in Seq(Nat) /\ unread[s] \in Seq(Nat)
      /\ onway[Peer(s)] \in Seq(Packets) /\ onway[s] \in Seq(Packets) /\ said[s] \in Seq(Lines)
      /\ printed[Peer(s)] \in Seq(Lines)
      /\ Flow(Peer(s), reliable, at[s], at[Peer(s)], printed[s], onway[s], said[Peer(s)])
      /\ Flow(s, reliable, at[Peer(s)], at[s], printed[Peer(s)], onway[Peer(s)], said[s])
  BY BeforeChat, TwoSides
<1>4. n \in 0 .. Len(typed[s]) /\ (unread[s] = <<>> => n >= 1)
  BY <1>2, <1>3
<1>5. /\ SubSeq(typed[s], 1, n) \in Seq(Nat) /\ Len(SubSeq(typed[s], 1, n)) = n
      /\ SubSeq(typed[s], n + 1, Len(typed[s])) \in Seq(Nat)
  <2>1. Len(typed[s]) \in Nat /\ n \in Int /\ n + 1 \in Int /\ 1 \in Int /\ n >= 0
    BY <1>3, <1>4
  <2> DEFINE ty == typed[s]
  <2>2. ty \in Seq(Nat) /\ n \in 0 .. Len(ty) /\ Len(ty) \in Nat
    BY <1>3, <1>4
  <2> HIDE DEF ty
  <2>3. \A i \in 1 .. Len(ty) : ty[i] \in Nat
    BY <2>2, ElementOfSeq
  <2>4. (\A i \in 1 .. n : ty[i] \in Nat) /\ (\A i \in n + 1 .. Len(ty) : ty[i] \in Nat)
    BY <2>2, <2>3
  <2>5. SubSeq(ty, 1, n) \in Seq(Nat)
        /\ Len(SubSeq(ty, 1, n)) = IF 1 <= n THEN n - 1 + 1 ELSE 0
    BY <2>1, <2>4, SubSeqProperties
  <2>6. SubSeq(ty, n + 1, Len(ty)) \in Seq(Nat)
    <3>1. n + 1 \in Int /\ Len(ty) \in Int
      BY <2>2
    <3> QED
      BY <2>4, <3>1, SubSeqProperties
  <2>7. Len(SubSeq(ty, 1, n)) = n
    BY <2>1, <2>5
  <2> QED
    BY <2>5, <2>6, <2>7 DEF ty
<1>6. /\ lines \in Seq(Nat) /\ lines # <<>> /\ x \in Nat /\ Tail(lines) \in Seq(Nat)
  <2> DEFINE old == unread[s]
  <2> DEFINE new == SubSeq(typed[s], 1, n)
  <2>0. old \in Seq(Nat) /\ new \in Seq(Nat) /\ Len(new) = n /\ n \in Nat
        /\ (old = <<>> => n >= 1) /\ lines = old \o new
    BY <1>3, <1>4, <1>5
  <2> HIDE DEF old, new, lines
  <2>1. lines \in Seq(Nat) /\ Len(lines) = Len(old) + n
    BY <2>0, ConcatProperties
  <2>2. Len(lines) > 0
    <3>1. Len(old) \in Nat /\ (old # <<>> => Len(old) # 0)
      BY <2>0, EmptySeq
    <3> QED
      BY <2>0, <2>1, <3>1
  <2>3. lines # <<>> /\ 1 \in 1 .. Len(lines)
    BY <2>1, <2>2
  <2> QED
    BY <2>1, <2>3, HeadTailProperties, ElementOfSeq
<1>7. /\ typed' = [typed EXCEPT ![s] = SubSeq(@, n + 1, Len(@))]
      /\ unread' = [unread EXCEPT ![s] = Tail(lines)]
      /\ x = Quit => /\ onway' = [onway EXCEPT ![Peer(s)] = @ \o QuitPackets(s)]
                     /\ at' = [at EXCEPT ![s] = IF s = "client" THEN "fin1" ELSE "quit"]
                     /\ said' = said
      /\ x # Quit => /\ Sends(s, x)
                     /\ said' = [said EXCEPT ![s] = Append(@, x)]
                     /\ at' = [at EXCEPT ![s] = AfterStdin(s)]
  BY <1>2
<1> HIDE DEF lines, x
<1>8. typed' \in [Sides -> Seq(Nat)] /\ unread' \in [Sides -> Seq(Nat)]
  BY <1>3, <1>5, <1>6, <1>7 DEF ChatTypes
<1>9. at[s] # "ended" /\ at[s] \notin FinSent /\ at[s] \in LoopPlaces
  BY <1>1 DEF FinSent, LoopPlaces
<1>10. CASE x = Quit
  <2> DEFINE b2 == IF s = "client" THEN "fin1" ELSE "quit"
  <2>1. /\ onway' = [onway EXCEPT ![Peer(s)] = Append(@, FinPacket)]
        /\ at' = [at EXCEPT ![s] = b2] /\ said' = said
    <3>1. Append(onway[Peer(s)], FinPacket) = onway[Peer(s)] \o <<FinPacket>>
      BY <1>3, ElementsAppend, PacketFacts
    <3> QED
      BY <1>7, <1>10, <3>1 DEF QuitPackets
  <2>2. b2 \in FinSent /\ b2 \in Places /\ (s = "server" => b2 = "quit")
        /\ Trailer(s, b2) = <<FinPacket>>
    BY TrailerFacts, TwoSides DEF FinSent, Places
  <2> HIDE DEF b2
  <2>3. Append(onway[Peer(s)], FinPacket) \in Seq(Packets)
    BY <1>3 DEF Packets
  <2>4. /\ at' \in [Sides -> Places] /\ at'["server"] \notin {"fin1", "fin2"}
        /\ at'[s] = b2 /\ at'[Peer(s)] = at[Peer(s)]
    BY <1>3, <2>1, <2>2, TwoSides DEF ChatTypes
  <2>5. /\ onway' \in [Sides -> Seq(Packets)] /\ onway'[s] = onway[s]
        /\ onway'[Peer(s)] = Append(onway[Peer(s)], FinPacket)
    BY <1>3, <2>1, <2>3, TwoSides DEF ChatTypes
  <2>6. ChatTypes'
    BY <1>1, <1>3, <1>8, <2>1, <2>4, <2>5 DEF ChatTypes
  <2>7. Flow(Peer(s), reliable, b2, at[Peer(s)], printed[s], onway[s], said[Peer(s)])
    BY <1>3, <1>9, <2>2, FlowMoves
  <2>8. Trailer(s, b2) = Append(Trailer(s, at[s]), FinPacket)
    <3>1. Trailer(s, at[s]) = <<>> /\ Append(<<>>, FinPacket) = <<FinPacket>>
      BY <1>9, TrailerFacts
    <3> QED
      BY <2>2, <3>1
  <2>9. Flow(s, reliable, at[Peer(s)], b2, printed[Peer(s)],
             Append(onway[Peer(s)], FinPacket), said[s])
    BY <1>3, <2>2, <2>8, FlowTrailer
  <2> QED
    BY <1>1, <2>1, <2>4, <2>5, <2>6, <2>7, <2>9, AfterChat
<1>11. CASE x # Quit
  <2> DEFINE b2 == AfterStdin(s)
  <2>1. /\ onway' = [onway EXCEPT ![Peer(s)] = Append(@, x)]
        /\ at' = [at EXCEPT ![s] = b2] /\ said' = [said EXCEPT ![s] = Append(@, x)]
    BY <1>7, <1>11 DEF Sends
  <2>2. b2 \in LoopPlaces /\ b2 \in Places /\ b2 \notin FinSent
    BY DEF LoopPlaces, FinSent, Places, AfterStdin
  <2> HIDE DEF b2
  <2>3. x \in Lines
    BY <1>6, <1>11 DEF Lines, Quit
  <2>4. Append(onway[Peer(s)], x) \in Seq(Packets) /\ Append(said[s], x) \in Seq(Lines)
    BY <1>3, <2>3, PacketFacts
  <2>5. /\ at' \in [Sides -> Places] /\ at'["server"] \notin {"fin1", "fin2"}
        /\ at'[s] = b2 /\ at'[Peer(s)] = at[Peer(s)]
    BY <1>3, <2>1, <2>2, TwoSides DEF ChatTypes, FinSent
  <2>6. /\ onway' \in [Sides -> Seq(Packets)] /\ onway'[s] = onway[s]
        /\ onway'[Peer(s)] = Append(onway[Peer(s)], x)
    BY <1>3, <2>1, <2>4, TwoSides DEF ChatTypes
  <2>7. /\ said' \in [Sides -> Seq(Lines)] /\ said'[s] = Append(said[s], x)
        /\ said'[Peer(s)] = said[Peer(s)]
    BY <1>3, <2>1, <2>4, TwoSides DEF ChatTypes
  <2>8. ChatTypes'
    BY <1>1, <1>3, <1>8, <2>5, <2>6, <2>7 DEF ChatTypes
  <2>9. Flow(Peer(s), reliable, b2, at[Peer(s)], printed[s], onway[s], said[Peer(s)])
    BY <1>3, <1>9, <2>2, FlowMoves
  <2>10. Flow(s, reliable, at[Peer(s)], b2, printed[Peer(s)],
              Append(onway[Peer(s)], x), Append(said[s], x))
    BY <1>3, <1>9, <2>2, <2>3, FlowLine
  <2> QED
    BY <1>1, <2>5, <2>6, <2>7, <2>8, <2>9, <2>10, AfterChat
<1> QED
  BY <1>10, <1>11

\* recvfrom(): a line is printed, or FIN ends the chat.
LEMMA ReceiveKeeps ==
    ASSUME ChatInv, NEW s \in Sides, Receive(s)
    PROVE  ChatInv'
<1>1. at[s] = "socket" /\ UNCHANGED <<reliable, typed, count, unread, said>>
  BY DEF Receive
<1>2. CASE onway[s] = <<>>
  <2>1. at' = [at EXCEPT ![s] = "select"] /\ UNCHANGED <<onway, printed>>
    BY <1>2 DEF Receive
  <2>2. at[s] \in LoopPlaces /\ "select" \in LoopPlaces
    BY <1>1 DEF LoopPlaces
  <2> QED
    BY <1>1, <2>1, <2>2, LoopKeeps
<1>3. CASE onway[s] # <<>>
  <2> DEFINE x == Head(onway[s])
  <2>1. /\ onway' = [onway EXCEPT ![s] = Tail(@)]
        /\ at' = [at EXCEPT ![s] = IF x = FinPacket THEN "ended" ELSE "select"]
        /\ printed' = IF x \in {FinPacket, AckPacket} THEN printed
                      ELSE [printed EXCEPT ![s] = Append(@, x)]
    BY <1>3 DEF Receive
  <2>2. /\ ChatTypes /\ onway[s] \in Seq(Packets) /\ said[s] \in Seq(Lines)
        /\ printed[s] \in Seq(Lines) /\ said[Peer(s)] \in Seq(Lines) /\ reliable \in BOOLEAN
        /\ Flow(Peer(s), reliable, at[s], at[Peer(s)], printed[s], onway[s], said[Peer(s)])
        /\ Flow(s, reliable, at[Peer(s)], at[s], printed[Peer(s)], onway[Peer(s)], said[s])
    BY BeforeChat, TwoSides DEF ChatTypes
  <2>3. /\ x \in Packets /\ Tail(onway[s]) \in Seq(Packets)
        /\ Elements(Tail(onway[s])) \subseteq Elements(onway[s])
    <3>1. onway[s] \in Seq(Int)
      BY <2>2, PacketFacts
    <3> QED
      BY <1>3, <2>2, <3>1, HeadTailProperties, HeadAndTail
  <2> DEFINE a2 == IF x = FinPacket THEN "ended" ELSE "select"
  <2>4. a2 \in Places /\ a2 \notin FinSent
    BY DEF Places, FinSent, LoopPlaces
  <2> DEFINE p2 == IF x \in Lines THEN Append(printed[s], x) ELSE printed[s]
  <2>5. p2 \in Seq(Lines)
    BY <2>2
  <2>6. Flow(Peer(s), reliable, a2, at[Peer(s)], p2, Tail(onway[s]), said[Peer(s)])
    <3>1. Flow(Peer(s), reliable, "socket", at[Peer(s)], printed[s], onway[s], said[Peer(s)])
      BY <1>1, <2>2
    <3>2. /\ x = FinPacket =>
               Flow(Peer(s), reliable, "ended", at[Peer(s)], printed[s], Tail(onway[s]),
                    said[Peer(s)])
          /\ x \in Lines =>
               Flow(Peer(s), reliable, "select", at[Peer(s)], Append(printed[s], x),
                    Tail(onway[s]), said[Peer(s)])
          /\ x = AckPacket => ~ reliable
      BY <1>3, <2>2, <3>1, FlowReceives
    <3>3. CASE x = FinPacket
      BY <3>2, <3>3, PacketFacts
    <3>4. CASE x \in Lines
      BY <3>2, <3>4, PacketFacts
    <3>5. CASE x = AckPacket
      <4>1. reliable = FALSE
        BY <2>2, <3>2, <3>5
      <4>2. Flow(Peer(s), FALSE, "socket", at[Peer(s)], printed[s], Tail(onway[s]),
                 said[Peer(s)])
        BY <2>3, <3>1, <4>1, FlowDisturbed
      <4>3. Flow(Peer(s), FALSE, "select", at[Peer(s)], printed[s], Tail(onway[s]),
                 said[Peer(s)])
        BY <4>2, FlowMoves DEF LoopPlaces
      <4>4. a2 = "select" /\ p2 = printed[s]
        BY <3>5, PacketFacts
      <4> QED
        BY <4>1, <4>3, <4>4
    <3> QED
      BY <2>3, <3>3, <3>4, <3>5 DEF Packets
  <2>7. printed' = [printed EXCEPT ![s] = p2]
    <3>1. CASE x \in Lines
      <4>1. x \notin {FinPacket, AckPacket}
        BY <3>1, PacketFacts
      <4> QED
        BY <2>1, <3>1, <4>1
    <3>2. CASE x \notin Lines
      <4>1. x \in {FinPacket, AckPacket}
        BY <2>3, <3>2 DEF Packets
      <4>2. printed' = printed /\ p2 = printed[s]
        BY <2>1, <3>2, <4>1
      <4> QED
        BY <2>2, <4>2 DEF ChatTypes
    <3> QED
      BY <3>1, <3>2
  <2>8. at' = [at EXCEPT ![s] = a2]
    BY <2>1
  <2> HIDE DEF x, a2, p2
  <2>9. /\ at' \in [Sides -> Places] /\ at'["server"] \notin {"fin1", "fin2"}
        /\ at'[s] = a2 /\ at'[Peer(s)] = at[Peer(s)]
    BY <2>2, <2>4, <2>8, TwoSides DEF ChatTypes, FinSent
  <2>10. /\ onway' \in [Sides -> Seq(Packets)] /\ onway'[s] = Tail(onway[s])
         /\ onway'[Peer(s)] = onway[Peer(s)]
    BY <2>1, <2>2, <2>3, TwoSides DEF ChatTypes
  <2>11. /\ printed' \in [Sides -> Seq(Lines)] /\ printed'[s] = p2
         /\ printed'[Peer(s)] = printed[Peer(s)]
    BY <2>2, <2>5, <2>7, TwoSides DEF ChatTypes
  <2>12. ChatTypes'
    BY <1>1, <2>2, <2>9, <2>10, <2>11 DEF ChatTypes
  <2>13. Trailer(s, a2) = Trailer(s, at[s]) /\ at[s] \notin FinSent
    <3>1. at[s] \notin FinSent
      BY <1>1 DEF FinSent
    <3> QED
      BY <2>4, <3>1, TrailerFacts
  <2>14. Flow(s, reliable, at[Peer(s)], a2, printed[Peer(s)], onway[Peer(s)], said[s])
    BY <2>2, <2>4, <2>13, FlowSame
  <2> QED
    BY <1>1, <2>6, <2>9, <2>10, <2>11, <2>12, <2>14, AfterChat
<1> QED
  BY <1>2, <1>3

\* perform_termination(): the client takes any two packets, and sends the last ACK.
LEMMA TerminateKeeps == ChatInv /\ Terminate => ChatInv'
<1> SUFFICES ASSUME ChatInv, Terminate PROVE ChatInv'
  OBVIOUS
<1> DEFINE s == "client"
<1>0. s \in Sides
  BY ShamChatAssumption
<1>1. at[s] \in {"fin1", "fin2"} /\ UNCHANGED <<reliable, typed, count, unread, said, printed>>
      /\ at' = [at EXCEPT ![s] = IF @ = "fin1" THEN "fin2" ELSE "quit"]
  BY DEF Terminate
<1>2. PICK q \in {onway[s], IF onway[s] = <<>> THEN <<>> ELSE Tail(onway[s])} :
        onway' = IF at[s] = "fin1" THEN [onway EXCEPT ![s] = q]
                 ELSE [onway EXCEPT ![s] = q, ![Peer(s)] = Append(@, AckPacket)]
  BY DEF Terminate
<1>3. /\ ChatTypes /\ onway[s] \in Seq(Packets) /\ onway[Peer(s)] \in Seq(Packets)
      /\ said[s] \in Seq(Lines) /\ printed[Peer(s)] \in Seq(Lines)
      /\ Flow(Peer(s), reliable, at[s], at[Peer(s)], printed[s], onway[s], said[Peer(s)])
      /\ Flow(s, reliable, at[Peer(s)], at[s], printed[Peer(s)], onway[Peer(s)], said[s])
  BY <1>0, BeforeChat, TwoSides
<1>4. q \in Seq(Packets) /\ Elements(q) \subseteq Elements(onway[s])
  <2>1. onway[s] \in Seq(Int)
    BY <1>3, PacketFacts
  <2>2. CASE q = onway[s]
    BY <1>3, <2>2
  <2>3. CASE onway[s] # <<>> /\ q = Tail(onway[s])
    BY <1>3, <2>1, <2>3, HeadAndTail, HeadTailProperties
  <2> QED
    BY <1>2, <2>2, <2>3
<1> DEFINE b2 == IF at[s] = "fin1" THEN "fin2" ELSE "quit"
<1>5. at' = [at EXCEPT ![s] = b2] /\ b2 \in FinSent /\ b2 \in Places /\ at[s] \in FinSent
      /\ at[s] # "ended"
  BY <1>1 DEF FinSent, Places
<1>6. /\ at' \in [Sides -> Places] /\ at'["server"] \notin {"fin1", "fin2"}
      /\ at'[s] = b2 /\ at'[Peer(s)] = at[Peer(s)]
  <2> HIDE DEF b2
  <2> QED
    BY <1>0, <1>3, <1>5, TwoSides DEF ChatTypes
<1>7. Flow(Peer(s), reliable, b2, at[Peer(s)], printed[s], q, said[Peer(s)])
  BY <1>3, <1>4, <1>5, FlowMoves
<1>8. CASE at[s] = "fin1"
  <2>1. onway' = [onway EXCEPT ![s] = q] /\ b2 = "fin2"
    BY <1>2, <1>8
  <2>2. onway' \in [Sides -> Seq(Packets)] /\ onway'[s] = q /\ onway'[Peer(s)] = onway[Peer(s)]
    BY <1>0, <1>3, <1>4, <2>1, TwoSides DEF ChatTypes
  <2>3. Trailer(s, b2) = Trailer(s, at[s])
    BY <1>8, <2>1, TrailerFacts
  <2>4. Flow(s, reliable, at[Peer(s)], b2, printed[Peer(s)], onway[Peer(s)], said[s])
    BY <1>3, <1>5, <2>3, FlowSame
  <2>5. ChatTypes'
    BY <1>1, <1>3, <1>6, <2>2 DEF ChatTypes
  <2> QED
    BY <1>0, <1>1, <1>6, <1>7, <2>2, <2>4, <2>5, AfterChat
<1>9. CASE at[s] = "fin2"
  <2>1. onway' = [onway EXCEPT ![s] = q, ![Peer(s)] = Append(@, AckPacket)] /\ b2 = "quit"
    BY <1>2, <1>9
  <2>2. Append(onway[Peer(s)], AckPacket) \in Seq(Packets)
    BY <1>3 DEF Packets
  <2>3. /\ onway' \in [Sides -> Seq(Packets)] /\ onway'[s] = q
        /\ onway'[Peer(s)] = Append(onway[Peer(s)], AckPacket)
    BY <1>0, <1>3, <1>4, <2>1, <2>2, TwoSides DEF ChatTypes
  <2>4. Trailer(s, b2) = Append(Trailer(s, at[s]), AckPacket)
    <3>1. Trailer(s, b2) = <<FinPacket, AckPacket>> /\ Trailer(s, at[s]) = <<FinPacket>>
      BY <1>9, <2>1, TrailerFacts
    <3>2. Append(<<FinPacket>>, AckPacket) = <<FinPacket, AckPacket>>
      BY FinThenAck
    <3> QED
      BY <3>1, <3>2
  <2>5. Flow(s, reliable, at[Peer(s)], b2, printed[Peer(s)],
             Append(onway[Peer(s)], AckPacket), said[s])
    BY <1>3, <1>5, <2>4, FlowTrailer
  <2>6. ChatTypes'
    BY <1>1, <1>3, <1>6, <2>3 DEF ChatTypes
  <2> QED
    BY <1>0, <1>1, <1>6, <1>7, <2>3, <2>5, <2>6, AfterChat
<1> QED
  BY <1>1, <1>8, <1>9
-----------------------------------------------------------------------------
(* The theorems of chat mode                                               *)

\* ChatInv is an invariant of chat mode, whatever the network does: what is printed or on
\* the way was sent, and on a reliable network nothing of it is missing or out of order.
THEOREM ChatInvariant == ChatSpec => []ChatInv
<1>1. ChatInit => ChatInv
  <2> SUFFICES ASSUME ChatInit PROVE ChatInv
    OBVIOUS
  <2>1. <<>> \in Seq(Nat) /\ <<>> \in Seq(Packets) /\ <<>> \in Seq(Lines) /\ <<>> \in Seq(Int)
        /\ Len(<<>>) = 0
    OBVIOUS
  <2>2. ChatTypes
    <3>1. "select" \in Places /\ "select" \notin {"fin1", "fin2"} /\ "server" \in Sides
      BY ShamChatAssumption DEF Places, LoopPlaces
    <3> QED
      BY <2>1, <3>1 DEF ChatInit, ChatTypes
  <2>3. ASSUME NEW s \in Sides PROVE FromPeer(s)
    <3>1. /\ at[s] = "select" /\ at[Peer(s)] = "select" /\ printed[s] = <<>>
          /\ onway[s] = <<>> /\ said[Peer(s)] = <<>>
      BY TwoSides DEF ChatInit
    <3>2. Trailer(Peer(s), "select") = <<>> /\ HasGot(<<>>, "select") = <<>>
      BY TrailerFacts DEF FinSent, HasGot
    <3>3. Elements(<<>>) = {} /\ Begins(<<>>, <<>>)
      BY <2>1 DEF Elements, Begins
    <3> QED
      BY <3>1, <3>2, <3>3 DEF FromPeer, Flow
  <2> QED
    BY <2>2, <2>3 DEF ChatInv
<1>2. ChatInv /\ [ChatNext]_chatVars => ChatInv'
  <2> SUFFICES ASSUME ChatInv, [ChatNext]_chatVars PROVE ChatInv'
    OBVIOUS
  <2>1. "client" \in Sides /\ "server" \in Sides
    BY ShamChatAssumption
  <2>2. ASSUME NEW s \in Sides, Loop(s) PROVE ChatInv'
    BY <2>2, WaitKeeps, ReadKeeps, ReceiveKeeps DEF Loop
  <2>3. CASE ServerChat \/ ClientChat
    BY <2>1, <2>2, <2>3, TerminateKeeps DEF ServerChat, ClientChat
  <2>4. CASE \E s \in Sides : Type(s) \/ TypeEof(s) \/ Disturb(s)
    BY <2>4, TypeKeeps, DisturbKeeps
  <2>5. CASE UNCHANGED chatVars
    BY <2>5 DEF chatVars, ChatInv, ChatTypes, FromPeer
  <2> QED
    BY <2>3, <2>4, <2>5 DEF ChatNext
<1> QED
  BY <1>1, <1>2, PTL DEF ChatSpec

\* On a reliable network a side that was told to leave has printed all that was said.
LEMMA EndedHasAll ==
    ASSUME NEW p \in Seq(Lines), NEW o \in Seq(Packets), NEW l \in Seq(Lines),
           NEW u \in Seq(Int), Append(p, FinPacket) \o o = l \o u, Begins(p, l)
    PROVE  Len(p) = Len(l)
<1>1. p \in Seq(Int) /\ o \in Seq(Int) /\ l \in Seq(Int) /\ FinPacket \in Int
  BY PacketFacts
<1> DEFINE f == <<FinPacket>>
<1> DEFINE q == f \o o
<1>2. f \in Seq(Int) /\ Len(f) = 1 /\ f[1] = FinPacket /\ Append(p, FinPacket) = p \o f
  BY <1>1, ElementsAppend
<1> HIDE DEF f
<1>3. /\ q \in Seq(Int) /\ Len(q) = Len(f) + Len(o)
      /\ \A i \in 1 .. Len(f) + Len(o) : q[i] = IF i <= Len(f) THEN f[i] ELSE o[i - Len(f)]
  BY <1>1, <1>2, ConcatProperties
<1>4. (p \o f) \o o = p \o q
  <2>1. p \in Seq(Int) /\ f \in Seq(Int) /\ o \in Seq(Int)
    BY <1>1, <1>2
  <2> QED
    BY <2>1, InARow, Zenon
<1> HIDE DEF q
<1>5. q # <<>> /\ Head(q) = FinPacket
  <2>1. Len(o) \in Nat /\ q[1] = FinPacket /\ Len(q) # 0
    BY <1>1, <1>2, <1>3
  <2> QED
    BY <1>3, <2>1
<1>6. p \o q = l \o u
  BY <1>2, <1>4
<1>7. \/ Len(p) < Len(l) /\ Head(q) = l[Len(p) + 1]
      \/ Len(p) = Len(l) /\ Len(u) > 0 /\ Head(q) = u[1]
  <2>1. p \in Seq(Int) /\ q \in Seq(Int) /\ l \in Seq(Int) /\ q # <<>>
    BY <1>1, <1>3, <1>5
  <2> QED
    BY <1>6, <2>1, NextPacket
<1>8. Len(p) < Len(l) => l[Len(p) + 1] \in Lines
  <2>1. Len(p) \in Nat /\ Len(l) \in Nat
    OBVIOUS
  <2> QED
    BY <2>1, ElementOfSeq
<1> QED
  BY <1>5, <1>7, <1>8, PacketFacts

\* On a reliable network FIN is on the way to a side that is still in its loop after the
\* other has sent it.
LEMMA FinOnWay ==
    ASSUME NEW t, NEW a \in LoopPlaces, NEW b \in FinSent, NEW p \in Seq(Lines),
           NEW o \in Seq(Packets), NEW l \in Seq(Lines), Flow(t, TRUE, a, b, p, o, l)
    PROVE  FinPacket \in Elements(o)
<1>1. p \in Seq(Int) /\ o \in Seq(Int) /\ l \in Seq(Int) /\ Trailer(t, b) \in Seq(Int)
      /\ Len(Trailer(t, b)) > 0 /\ Trailer(t, b)[1] = FinPacket
  BY PacketFacts, TrailerFacts
<1>2. p \o o = l \o Trailer(t, b) /\ Begins(p, l)
  BY DEF Flow, HasGot, LoopPlaces
<1> QED
  BY <1>1, <1>2, NextPacket

\* Chat mode ends for both sides and shows what was said, for any number of lines, any
\* buffering of standard input and any number of packets on the way.
THEOREM ChatIsSound == ChatSpec => []ChatSound
<1>1. ChatInv => ChatSound
  <2> SUFFICES ASSUME ChatInv, NEW s \in Sides
               PROVE  /\ reliable /\ Left(s) =>
                           \/ Left(Peer(s)) \/ at[Peer(s)] \in {"fin1", "fin2"}
                           \/ FinPacket \in Elements(onway[Peer(s)])
                      /\ at[s] = "ended" => at[Peer(s)] \in {"fin1", "fin2", "quit"}
                      /\ Elements(printed[s]) \subseteq Elements(said[Peer(s)])
                      /\ reliable =>
                           /\ Len(printed[s]) <= Len(said[Peer(s)])
                           /\ printed[s] = SubSeq(said[Peer(s)], 1, Len(printed[s]))
                           /\ at[s] = "ended" => Len(printed[s]) = Len(said[Peer(s)])
    BY DEF ChatSound, NobodyLeftBehind, ChatShowsAll
  <2>1. /\ ChatTypes /\ Peer(s) \in Sides
        /\ Flow(Peer(s), reliable, at[s], at[Peer(s)], printed[s], onway[s], said[Peer(s)])
        /\ Flow(s, reliable, at[Peer(s)], at[s], printed[Peer(s)], onway[Peer(s)], said[s])
        /\ at[s] \in Places /\ at[Peer(s)] \in Places
        /\ onway[s] \in Seq(Packets) /\ onway[Peer(s)] \in Seq(Packets)
        /\ said[s] \in Seq(Lines) /\ said[Peer(s)] \in Seq(Lines)
        /\ printed[s] \in Seq(Lines) /\ printed[Peer(s)] \in Seq(Lines)
    BY BeforeChat, TwoSides
  <2>2. at[s] = "ended" => at[Peer(s)] \in {"fin1", "fin2", "quit"}
    BY <2>1 DEF Flow, FinSent
  <2>3. Elements(printed[s]) \subseteq Elements(said[Peer(s)])
    BY <2>1 DEF Flow
  <2>4. ASSUME reliable, Left(s)
        PROVE  \/ Left(Peer(s)) \/ at[Peer(s)] \in {"fin1", "fin2"}
               \/ FinPacket \in Elements(onway[Peer(s)])
    <3>1. reliable = TRUE
      BY <2>1, <2>4 DEF ChatTypes
    <3>2. CASE at[s] = "ended"
      BY <2>2, <3>2 DEF Left
    <3>3. CASE at[s] = "quit" /\ at[Peer(s)] \in LoopPlaces
      <4>1. at[s] \in FinSent
        BY <3>3 DEF FinSent
      <4> QED
        BY <2>1, <3>1, <3>3, <4>1, FinOnWay
    <3>4. CASE at[Peer(s)] \notin LoopPlaces
      BY <2>1, <3>4 DEF Left, Places, FinSent
    <3> QED
      BY <2>4, <3>2, <3>3, <3>4 DEF Left
  <2>5. ASSUME reliable
        PROVE  /\ Len(printed[s]) <= Len(said[Peer(s)])
               /\ printed[s] = SubSeq(said[Peer(s)], 1, Len(printed[s]))
               /\ at[s] = "ended" => Len(printed[s]) = Len(said[Peer(s)])
    <3>1. reliable = TRUE
      BY <2>1, <2>5 DEF ChatTypes
    <3>2. Begins(printed[s], said[Peer(s)])
      BY <2>1, <3>1 DEF Flow
    <3>3. at[s] = "ended" => Len(printed[s]) = Len(said[Peer(s)])
      <4> SUFFICES ASSUME at[s] = "ended" PROVE Len(printed[s]) = Len(said[Peer(s)])
        OBVIOUS
      <4>1. Append(printed[s], FinPacket) \o onway[s] = said[Peer(s)] \o Trailer(Peer(s), at[Peer(s)])
        BY <2>1, <3>1 DEF Flow, HasGot
      <4>2. Trailer(Peer(s), at[Peer(s)]) \in Seq(Int)
        BY TrailerFacts
      <4> QED
        BY <2>1, <3>2, <4>1, <4>2, EndedHasAll, Zenon
    <3> DEFINE p == printed[s]
    <3> DEFINE l == said[Peer(s)]
    <3>4. p \in Seq(Lines) /\ l \in Seq(Lines) /\ Len(p) \in Nat /\ Len(l) \in Nat
          /\ Len(p) <= Len(l) /\ \A i \in 1 .. Len(p) : p[i] = l[i]
      BY <2>1, <3>2 DEF Begins
    <3> HIDE DEF p, l
    <3>5. \A i \in 1 .. Len(p) : l[i] \in Lines
      BY <3>4
    <3>6. /\ SubSeq(l, 1, Len(p)) \in Seq(Lines)
          /\ Len(SubSeq(l, 1, Len(p))) = IF 1 <= Len(p) THEN Len(p) - 1 + 1 ELSE 0
          /\ \A i \in 1 .. Len(p) - 1 + 1 : SubSeq(l, 1, Len(p))[i] = l[1 + i - 1]
      <4>1. 1 \in Int /\ Len(p) \in Int
        BY <3>4
      <4> QED
        BY <3>5, <4>1, SubSeqProperties
    <3>7. Len(SubSeq(l, 1, Len(p))) = Len(p)
          /\ \A i \in 1 .. Len(p) : SubSeq(l, 1, Len(p))[i] = p[i]
      BY <3>4, <3>6
    <3>8. p = SubSeq(l, 1, Len(p))
      BY <3>4, <3>6, <3>7, SeqEqual
    <3> QED
      BY <3>3, <3>4, <3>8 DEF p, l
  <2> QED
    BY <2>2, <2>3, <2>4, <2>5
<1> QED
  BY <1>1, ChatInvariant, PTL
=============================================================================
