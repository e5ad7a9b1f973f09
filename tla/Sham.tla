-------------------------------- MODULE Sham --------------------------------
(***************************************************************************)
(* The S.H.A.M. packet format (networking/sham.h) and the datagram         *)
(* channels between the one client and the one server.                     *)
(*                                                                         *)
(* A packet is a record.  Its payload is abstracted to the place it was    *)
(* read from: off is the file offset of its first byte and data_len the    *)
(* number of bytes, so two payloads are equal exactly when they are the    *)
(* same bytes of the file.  window_size is left out: both sides always     *)
(* write a constant and no branch of either program reads it.              *)
(*                                                                         *)
(* UDP is external.  A channel is the sequence of datagrams that are on    *)
(* the way or wait in the receiver's socket buffer.  The socket buffer     *)
(* holds SockBuf datagrams; one more is dropped.                           *)
(***************************************************************************)
EXTENDS Integers, Sequences, Functions

CONSTANTS
    DataSize,     \* SHAM_DATA_SIZE: payload bytes of a full packet
    WindowSize,   \* SHAM_WINDOW_SIZE: slots of the client's window array
    MaxRetries,   \* SHAM_MAX_RETRIES
    FileSize,     \* bytes in the file the client sends
    SockBuf,      \* datagrams a channel holds before it drops
    Lossy,        \* the network may lose a datagram
    Duplicating,  \* the network may deliver a datagram again
    Reordering,   \* the network may deliver datagrams out of order
    Pace          \* how the timers compare to the network, see below

ASSUME ShamAssumption ==
    /\ DataSize   \in Nat \ {0}
    /\ WindowSize \in Nat \ {0}
    /\ MaxRetries \in Nat
    /\ FileSize   \in Nat
    /\ SockBuf    \in Nat \ {0}
    /\ Lossy \in BOOLEAN /\ Duplicating \in BOOLEAN
    /\ Reordering \in BOOLEAN
    /\ Pace \in {"any", "rtt", "transfer"}

VARIABLES
    toServer,     \* datagrams sent by the client
    toClient      \* datagrams sent by the server

channels == <<toServer, toClient>>
-----------------------------------------------------------------------------
SYN == "SYN"
ACK == "ACK"
FIN == "FIN"

Packet == [flags    : SUBSET {SYN, ACK, FIN},
           seq_num  : Nat,
           ack_num  : Nat,
           off      : Nat,
           data_len : Nat]

\* A packet without payload: memset to zero, then the header fields set.
Header(flags, seq, ack) ==
    [flags |-> flags, seq_num |-> seq, ack_num |-> ack, off |-> 0, data_len |-> 0]

Data(seq, off, len) ==
    [flags |-> {}, seq_num |-> seq, ack_num |-> 0, off |-> off, data_len |-> len]

\* The client's initial_seq and the server's server_seq.
initial_seq == 100
server_seq  == 5000

\* The sequence number of the first byte of the file.
FirstSeq == initial_seq + 1
-----------------------------------------------------------------------------
\* sendto() on a channel: the datagram is queued, or dropped when it is full.
Put(q, pkt) == IF Len(q) < SockBuf THEN Append(q, pkt) ELSE q

\* The channel without its k-th datagram.
Without(q, k) == [j \in 1 .. Len(q) - 1 |-> IF j < k THEN q[j] ELSE q[j + 1]]

\* The datagrams of a channel that recvfrom() may return next.
Deliverable(q) == IF Reordering THEN 1 .. Len(q) ELSE {k \in 1 .. Len(q) : k = 1}

\* What the channel may be after its k-th datagram was received.
AfterRecv(q, k) == {Without(q, k)} \union IF Duplicating THEN {q} ELSE {}

\* The network loses a datagram.
Lose ==
    /\ Lossy
    /\ \/ \E k \in 1 .. Len(toServer) :
             toServer' = Without(toServer, k) /\ UNCHANGED toClient
       \/ \E k \in 1 .. Len(toClient) :
             toClient' = Without(toClient, k) /\ UNCHANGED toServer

\* No datagram is on the way.
Idle == toServer = <<>> /\ toClient = <<>>

\* Clocks are abstracted to Pace: "any", a timer of 100 ms, 500 ms or 2 s may
\* run out at any time; "rtt", a round trip is shorter than every timer, so a
\* wait is in vain only if nothing is on the way; "transfer", even the whole
\* transfer is shorter than the retransmission timer.
MayTimeout == Pace = "any" \/ Idle

ChannelInit == toServer = <<>> /\ toClient = <<>>
=============================================================================
