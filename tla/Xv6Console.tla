----------------------------- MODULE Xv6Console -----------------------------
(***************************************************************************)
(* The console of xv6 (kernel/console.c) and the serial port under it      *)
(* (uart.c): the ring of input characters with its line editing, a process *)
(* that reads lines, processes that write, and the interrupt handler.      *)
(*                                                                         *)
(* Everything under cons.lock is one step, with the echo, which            *)
(* uartputc_sync() sends without tx_lock and without tx_busy; so is what   *)
(* happens under tx_lock.  The read, write and edit indices wrap around,   *)
(* at IndexMod instead of 2^32.  Of the bytes sent only their number in    *)
(* the port matters, and one byte stands for the echo of a character.      *)
(***************************************************************************)
EXTENDS Integers, Sequences

CONSTANTS
    InputBuf,       \* INPUT_BUF_SIZE
    IndexMod,       \* 2^32
    UartFifo,       \* bytes that the port's FIFO holds
    Writers,        \* processes that write
    ReadSizes,      \* numbers of bytes read and
    WriteLengths    \* numbers of bytes written

Chars == {"x", "newline", "eof"}        \* eof is ^D
Keys  == Chars \union {"erase", "kill"} \* kill is ^U

ASSUME ConsoleAssumption ==
    /\ InputBuf \in Nat \ {0} /\ IndexMod \in Nat
    /\ IndexMod % InputBuf = 0 /\ IndexMod > InputBuf
    /\ UartFifo \in Nat /\ UartFifo >= 2
    /\ ReadSizes \subseteq Nat \ {0} /\ WriteLengths \subseteq Nat \ {0}

VARIABLES
    ring,           \* cons.buf
    rIdx, wIdx, eIdx,   \* cons.r, cons.w, cons.e
    want, copied,   \* n and the bytes copied of consoleread(), want = 0: no read
    asleep,         \* consoleread() sleeps
    result,         \* bytes the last read returned, and whether it took a ^D
    lines, editing, \* history: what was entered and not read, what can be edited
    txBusy,         \* tx_busy
    thr,            \* bytes in the port
    txIrq,          \* the port has become empty and raises its interrupt
    uartAt,         \* where uartintr() is
    toSend,         \* writer -> bytes to send
    txAsleep        \* writers that sleep on tx_chan

inputVars   == <<ring, rIdx, wIdx, eIdx, want, copied, asleep, result, lines, editing>>
outputVars  == <<txBusy, thr, txIrq, uartAt, toSend, txAsleep>>
consoleVars == <<inputVars, outputVars>>

ConsoleInit ==
    /\ ring = [i \in 0 .. InputBuf - 1 |-> "x"]
    /\ rIdx = 0 /\ wIdx = 0 /\ eIdx = 0
    /\ want = 0 /\ copied = 0 /\ asleep = FALSE
    /\ result = [bytes |-> 0, eof |-> FALSE]
    /\ lines = <<>> /\ editing = <<>>
    /\ txBusy = FALSE /\ thr = 0 /\ txIrq = FALSE /\ uartAt = "idle"
    /\ toSend = [p \in Writers |-> 0] /\ txAsleep = {}

Step(i, k)  == (i + k) % IndexMod
Between(i, j) == (j - i) % IndexMod
-----------------------------------------------------------------------------
(* Output                                                                  *)

\* External: the port sends a byte.
Transmit ==
    /\ thr > 0
    /\ thr' = thr - 1
    /\ txIrq' = (txIrq \/ thr = 1)
    /\ UNCHANGED <<inputVars, txBusy, uartAt, toSend, txAsleep>>

\* consolewrite() calls uartwrite().
WriteStart(p, n) ==
    /\ toSend[p] = 0
    /\ toSend' = [toSend EXCEPT ![p] = n]
    /\ UNCHANGED <<inputVars, txBusy, thr, txIrq, uartAt, txAsleep>>

\* The loop of uartwrite(): send, and sleep when there is more.
Uartwrite(p) ==
    /\ toSend[p] > 0 /\ p \notin txAsleep
    /\ IF txBusy
       THEN txAsleep' = txAsleep \union {p} /\ UNCHANGED <<txBusy, thr, toSend>>
       ELSE /\ thr' = thr + 1 /\ txBusy' = TRUE
            /\ toSend' = [toSend EXCEPT ![p] = @ - 1]
            /\ txAsleep' = IF toSend[p] > 1 THEN txAsleep \union {p} ELSE txAsleep
    /\ UNCHANGED <<inputVars, txIrq, uartAt>>

\* LSR_TX_IDLE
TxIdle == thr = 0

\* uartintr() under tx_lock.
TxCheck ==
    /\ txBusy' = (txBusy /\ ~TxIdle)
    /\ txAsleep' = IF TxIdle THEN {} ELSE txAsleep

\* Mutant: the interrupt is acknowledged after the look at the port.
UartStep_CheckFirst(n) ==
    \/ n = 1 /\ TxCheck /\ UNCHANGED txIrq
    \/ n = 2 /\ txIrq' = FALSE /\ UNCHANGED <<txBusy, txAsleep>>

\* uartintr() reads ISR, which acknowledges the interrupt, then looks at the port.
UartStep(n) ==
    \/ n = 1 /\ txIrq' = FALSE /\ UNCHANGED <<txBusy, txAsleep>>
    \/ n = 2 /\ TxCheck /\ UNCHANGED txIrq

\* An interrupt, because of txIrq or of input.
UartintrStart ==
    /\ uartAt = "idle" /\ uartAt' = "acked"
    /\ UartStep(1)
    /\ UNCHANGED <<inputVars, thr, toSend>>

UartintrTx ==
    /\ uartAt = "acked" /\ uartAt' = "input"
    /\ UartStep(2)
    /\ UNCHANGED <<inputVars, thr, toSend>>

\* No more input: uartgetc() returns -1.
UartintrEnd ==
    /\ uartAt = "input" /\ uartAt' = "idle"
    /\ UNCHANGED <<inputVars, txBusy, thr, txIrq, toSend, txAsleep>>

\* consputc(), which waits until the port is idle.
Echo(needed) ==
    /\ needed => TxIdle
    /\ thr' = IF needed THEN thr + 1 ELSE thr
    /\ UNCHANGED <<txBusy, txIrq, uartAt, toSend, txAsleep>>
-----------------------------------------------------------------------------
(* Input: consoleintr(), called by uartintr() for each character            *)

\* The number of characters that ^U erases.
EraseCount ==
    LET stops == {k \in 0 .. Between(wIdx, eIdx) :
                    Step(eIdx, -k) = wIdx
                    \/ ring[Step(eIdx, -k - 1) % InputBuf] = "newline"}
    IN  CHOOSE k \in stops : \A m \in stops : k <= m

Erase(n) ==
    /\ eIdx' = Step(eIdx, -n)
    /\ editing' = SubSeq(editing, 1, Len(editing) - n)
    /\ Echo(n > 0)
    /\ UNCHANGED <<ring, rIdx, wIdx, want, copied, asleep, result, lines>>

\* Mutant: the indices are compared as if they did not wrap around.
HasRoom_NoWrap == eIdx - rIdx < InputBuf

\* cons.e - cons.r < INPUT_BUF_SIZE
HasRoom == Between(rIdx, eIdx) < InputBuf

\* The character completes a line, or fills the buffer.
Entered(c) == c \in {"newline", "eof"} \/ Between(rIdx, eIdx) + 1 = InputBuf

Store(c) ==
    /\ HasRoom
    /\ Echo(TRUE)
    /\ ring' = [ring EXCEPT ![eIdx % InputBuf] = c]
    /\ eIdx' = Step(eIdx, 1)
    /\ IF Entered(c)
       THEN /\ wIdx' = Step(eIdx, 1) /\ asleep' = FALSE
            /\ lines' = lines \o Append(editing, c) /\ editing' = <<>>
       ELSE UNCHANGED <<wIdx, asleep, lines>> /\ editing' = Append(editing, c)
    /\ UNCHANGED <<rIdx, want, copied, result>>

Consoleintr(key) ==
    /\ uartAt = "input"
    /\ \/ key = "kill" /\ Erase(EraseCount)
       \/ key = "erase" /\ eIdx # wIdx /\ Erase(1)
       \/ key \in Chars /\ Store(key)
-----------------------------------------------------------------------------
(* consoleread()                                                           *)

ReadStart(n) ==
    /\ want = 0
    /\ want' = n /\ copied' = 0
    /\ UNCHANGED <<ring, rIdx, wIdx, eIdx, asleep, result, lines, editing, outputVars>>

Returns(eof) ==
    /\ result' = [bytes |-> copied', eof |-> eof]
    /\ want' = 0

\* Nothing to read: sleep(), or return when the process is killed.
ReadWait ==
    /\ want > 0 /\ rIdx = wIdx
    /\ \/ ~asleep /\ asleep' = TRUE /\ UNCHANGED want
       \/ asleep' = FALSE /\ want' = 0
    /\ UNCHANGED <<ring, rIdx, wIdx, eIdx, copied, result, lines, editing, outputVars>>

\* ^D stays for the next read when this one has bytes already.
KeepsEof == copied > 0

\* One character: the end of the file, of the line, or of the bytes wanted.  It is
\* lost when either_copyout() fails, which ends the read, too.
ReadChar ==
    /\ want > 0 /\ ~asleep /\ rIdx # wIdx
    /\ \E out \in BOOLEAN :
        LET c    == ring[rIdx % InputBuf]
            kept == c = "eof" /\ KeepsEof
        IN  /\ rIdx' = IF kept THEN rIdx ELSE Step(rIdx, 1)
            /\ lines' = IF kept THEN lines ELSE Tail(lines)
            /\ copied' = IF c = "eof" \/ ~out THEN copied ELSE copied + 1
            /\ IF c \in {"eof", "newline"} \/ ~out \/ copied' = want
               THEN Returns(c = "eof" /\ ~kept)
               ELSE UNCHANGED <<want, result>>
    /\ UNCHANGED <<ring, wIdx, eIdx, asleep, editing, outputVars>>

ConsoleNext ==
    \/ Transmit \/ UartintrStart \/ UartintrTx \/ UartintrEnd
    \/ \E p \in Writers : Uartwrite(p) \/ \E n \in WriteLengths : WriteStart(p, n)
    \/ \E key \in Keys : Consoleintr(key)
    \/ ReadWait \/ ReadChar \/ \E n \in ReadSizes : ReadStart(n)

ConsoleSpec == ConsoleInit /\ [][ConsoleNext]_consoleVars
-----------------------------------------------------------------------------
(* Properties                                                              *)

Held(i, j) == [k \in 1 .. Between(i, j) |-> ring[Step(i, k - 1) % InputBuf]]

\* The ring holds what was entered and not read, and then what can still be edited:
\* erasing never reaches into a line that was entered, and no character that it took in is lost or
\* changed, also when the indices wrap around or the ring is full.
RingHoldsInput == Held(rIdx, wIdx) = lines /\ Held(wIdx, eIdx) = editing

\* A reader that sleeps has nothing to read and will get something: the ring has room.
ReaderSleepsForInput == asleep => rIdx = wIdx /\ HasRoom

\* A ^D that was typed makes a read return 0 bytes, whatever is typed before it.
EofReadsZero == result.eof => result.bytes = 0

\* A writer that sleeps is woken: bytes are in the port, or its interrupt is to come,
\* or the handler has yet to look, echo and output interleaving as they may.
TxSleeperWakes ==
    txAsleep # {} => txBusy /\ (thr > 0 \/ txIrq \/ uartAt = "acked")

\* The port's FIFO takes what uartwrite() and the echo send without asking each other.
NoOverrun == thr <= UartFifo

\* Typing and reading: nothing is lost, readers sleep only for input, ^D reads as 0 bytes.
ConsoleInput == RingHoldsInput /\ ReaderSleepsForInput /\ EofReadsZero

\* Writing: sleepers are woken and the port is not overrun.
SerialOutput == TxSleeperWakes /\ NoOverrun
=============================================================================
