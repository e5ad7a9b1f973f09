------------------------------ MODULE ShamChat ------------------------------
(***************************************************************************)
(* S.H.A.M. chat mode: handle_chat_mode() of networking/client.c and of    *)
(* networking/server.c, after the handshake.                               *)
(*                                                                         *)
(* Lines are numbered as they are typed; Quit is one that begins with      *)
(* "/quit".  Standard input is read through a buffer: a terminal returns a *)
(* line at a time, a pipe may return several, and select() does not see    *)
(* what is in the buffer.  Sequence numbers are left out: nobody reads     *)
(* them in chat mode.  select() does not fail.                             *)
(***************************************************************************)
EXTENDS Integers, Sequences

CONSTANTS
    Sides,        \* {"client", "server"}
    MaxTyped,     \* bound on the lines that are typed on each side
    Burst,        \* how many lines one read() of standard input may return
    MaxOnWay      \* bound on the packets on the way to a side

ASSUME ShamChatAssumption == Sides = {"client", "server"} /\ Burst > 0

VARIABLES
    reliable,     \* the network neither loses nor reorders packets
    at,           \* where each side is in its loop ("both" with the socket to be read
                  \* after standard input), or why it left it
    typed,        \* lines that wait in standard input
    count,        \* lines that were typed
    unread,       \* lines in the buffer of standard input
    eof,          \* nothing more will be typed
    onway,        \* packets on the way to each side
    said,         \* history variable: the lines a side sent
    printed       \* history variable: the lines a side printed

chatVars == <<reliable, at, typed, count, unread, eof, onway, said, printed>>

\* A packet is the line in it, or a header with a flag.
Quit == 0
FinPacket == -1
AckPacket == -2

Peer(s) == IF s = "client" THEN "server" ELSE "client"

ChatInit ==
    /\ reliable \in BOOLEAN
    /\ at = [s \in Sides |-> "select"]
    /\ typed = [s \in Sides |-> <<>>] /\ count = [s \in Sides |-> 0]
    /\ unread = [s \in Sides |-> <<>>]
    /\ eof = [s \in Sides |-> FALSE]
    /\ onway = [s \in Sides |-> <<>>]
    /\ said = [s \in Sides |-> <<>>] /\ printed = [s \in Sides |-> <<>>]

Without1(q, k) == SubSeq(q, 1, k - 1) \o SubSeq(q, k + 1, Len(q))
-----------------------------------------------------------------------------
(* The users and the network                                               *)

Left(s) == at[s] \in {"quit", "ended"}

Type(s) ==
    /\ ~Left(s)
    /\ count[s] < MaxTyped /\ ~eof[s]
    /\ count' = [count EXCEPT ![s] = @ + 1]
    /\ \E l \in {count[s] + 1, Quit} : typed' = [typed EXCEPT ![s] = Append(@, l)]
    /\ UNCHANGED <<reliable, at, unread, eof, onway, said, printed>>

TypeEof(s) ==
    /\ ~Left(s)
    /\ ~eof[s]
    /\ eof' = [eof EXCEPT ![s] = TRUE]
    /\ UNCHANGED <<reliable, at, typed, count, unread, onway, said, printed>>

\* An unreliable network loses a packet, or lets it overtake those before it.
Disturb(s) ==
    /\ ~reliable /\ ~Left(s)
    /\ \E k \in 1 .. Len(onway[s]) :
        LET rest == Without1(onway[s], k)
        IN  onway' \in {[onway EXCEPT ![s] = q] : q \in {rest, <<onway[s][k]>> \o rest}}
    /\ UNCHANGED <<reliable, at, typed, count, unread, eof, said, printed>>

Sends(s, pkt) == onway' = [onway EXCEPT ![Peer(s)] = Append(@, pkt)]
-----------------------------------------------------------------------------
(* The loop                                                                *)

\* Standard input is ready if read() would return, at its end too.
StdinReady(s) == typed[s] # <<>> \/ eof[s]

\* select() waits for input or the socket, or for a second, after which it begins again.
Select(s) ==
    /\ at[s] = "select"
    /\ StdinReady(s) \/ onway[s] # <<>>
    /\ at' = [at EXCEPT ![s] = CASE ~StdinReady(s) -> "socket"
                                 [] onway[s] = <<>> -> "stdin"
                                 [] OTHER -> "both"]
    /\ UNCHANGED <<reliable, typed, count, unread, eof, onway, said, printed>>

\* Mutant: the server leaves without FIN.
QuitPackets_ServerNone(s) == IF s = "client" THEN <<FinPacket>> ELSE <<>>

\* What /quit sends.
QuitPackets(s) == <<FinPacket>>

\* After a line was sent, the socket is read if select() reported it.
AfterStdin(s) == IF at[s] = "both" THEN "socket" ELSE "select"

\* fgets() takes a line from the buffer, which read() fills when it is empty.  After
\* /quit the server leaves at once and the client terminates the connection.
ReadLine(s) ==
    /\ at[s] \in {"stdin", "both"}
    /\ unread[s] # <<>> \/ typed[s] # <<>>
    /\ \E n \in IF unread[s] = <<>> THEN 1 .. Len(typed[s]) \intersect 1 .. Burst ELSE {0} :
        LET lines == unread[s] \o SubSeq(typed[s], 1, n)
            line1 == lines[1]
        IN  /\ typed' = [typed EXCEPT ![s] = SubSeq(@, n + 1, Len(@))]
            /\ unread' = [unread EXCEPT ![s] = Tail(lines)]
            /\ IF line1 = Quit
                 THEN /\ onway' = [onway EXCEPT ![Peer(s)] = @ \o QuitPackets(s)]
                      /\ at' = [at EXCEPT ![s] = IF s = "client" THEN "fin1" ELSE "quit"]
                      /\ UNCHANGED said
                 ELSE /\ Sends(s, line1)
                      /\ said' = [said EXCEPT ![s] = Append(@, line1)]
                      /\ at' = [at EXCEPT ![s] = AfterStdin(s)]
    /\ UNCHANGED <<reliable, count, eof, printed>>

\* fgets() at the end of standard input: nothing is sent and the loop goes on.
ReadEof(s) ==
    /\ at[s] \in {"stdin", "both"}
    /\ unread[s] = <<>> /\ typed[s] = <<>> /\ eof[s]
    /\ at' = [at EXCEPT ![s] = AfterStdin(s)]
    /\ UNCHANGED <<reliable, typed, count, unread, eof, onway, said, printed>>

\* The socket is read: FIN ends the loop, a line is printed.
Receive(s) ==
    /\ at[s] = "socket"
    /\ IF onway[s] = <<>>
         THEN at' = [at EXCEPT ![s] = "select"] /\ UNCHANGED <<onway, printed>>
         ELSE LET pkt == Head(onway[s])
              IN  /\ onway' = [onway EXCEPT ![s] = Tail(@)]
                  /\ at' = [at EXCEPT ![s] = IF pkt = FinPacket THEN "ended" ELSE "select"]
                  /\ printed' = IF pkt \in {FinPacket, AckPacket} THEN printed
                                ELSE [printed EXCEPT ![s] = Append(@, pkt)]
    /\ UNCHANGED <<reliable, typed, count, unread, eof, said>>

\* perform_termination(): the client waits twice, for any packet or for the time-out,
\* and sends the last ACK.
Terminate ==
    LET s == "client"
    IN  /\ at[s] \in {"fin1", "fin2"}
        /\ \E q \in {onway[s], IF onway[s] = <<>> THEN <<>> ELSE Tail(onway[s])} :
             onway' = IF at[s] = "fin1" THEN [onway EXCEPT ![s] = q]
                      ELSE [onway EXCEPT ![s] = q, ![Peer(s)] = Append(@, AckPacket)]
        /\ at' = [at EXCEPT ![s] = IF @ = "fin1" THEN "fin2" ELSE "quit"]
        /\ UNCHANGED <<reliable, typed, count, unread, eof, said, printed>>

Loop(s) == Select(s) \/ ReadLine(s) \/ ReadEof(s) \/ Receive(s)

\* handle_chat_mode() of the two programs.
ServerChat == Loop("server")
ClientChat == Loop("client") \/ Terminate

ChatNext ==
    /\ \/ ServerChat \/ ClientChat
       \/ \E s \in Sides : Type(s) \/ TypeEof(s) \/ Disturb(s)
    /\ \A s \in Sides : Len(onway'[s]) <= MaxOnWay

ChatSpec == ChatInit /\ [][ChatNext]_chatVars
-----------------------------------------------------------------------------
(* Properties                                                              *)

Elements(q) == {q[i] : i \in 1 .. Len(q)}

\* "Type /quit to exit" ends the chat on both sides: when a side has left, the other has
\* too, or is about to (it terminates the connection), or FIN is on the way to it; and a
\* side that was told to leave was told by a /quit.  FIN is sent once, so a network that
\* loses it leaves the other side behind.
NobodyLeftBehind ==
    \A s \in Sides :
        /\ reliable /\ Left(s) =>
             \/ Left(Peer(s)) \/ at[Peer(s)] \in {"fin1", "fin2"}
             \/ FinPacket \in Elements(onway[Peer(s)])
        /\ at[s] = "ended" => at[Peer(s)] \in {"fin1", "fin2", "quit"}

\* Messages are not acknowledged or numbered: on a reliable network a side prints what
\* the other sent, in order, and all of it before it leaves at the other's /quit; on
\* any network it prints only what the other sent.
ChatShowsAll ==
    \A s \in Sides :
        LET sent == said[Peer(s)]
        IN  /\ Elements(printed[s]) \subseteq Elements(sent)
            /\ reliable => /\ Len(printed[s]) <= Len(sent)
                           /\ printed[s] = SubSeq(sent, 1, Len(printed[s]))
                           /\ at[s] = "ended" => Len(printed[s]) = Len(sent)

\* Chat mode ends for both and shows what was said.
ChatSound == NobodyLeftBehind /\ ChatShowsAll
=============================================================================
