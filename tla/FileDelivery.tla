---------------------------- MODULE FileDelivery ----------------------------
(***************************************************************************)
(* What a file transfer promises, whatever happens in between.  The        *)
(* receiver obtains longer and longer prefixes of the file.  The sender    *)
(* reports success or failure once, and success only when every byte has   *)
(* arrived.  The receiver ends once, after the sender's success or because *)
(* it broke off, and then writes all that it has, or cannot.               *)
(***************************************************************************)
EXTENDS Naturals

CONSTANT FileSize

VARIABLES
    delivered,   \* bytes the receiver holds, a prefix of the file
    reported,    \* "none" until the sender reports "ok" or "failed"
    receiver,    \* "open" until the receiver is "done" or "broken"
    written      \* bytes the receiver has written to its file

vars == <<delivered, reported, receiver, written>>

Init == delivered = 0 /\ reported = "none" /\ receiver = "open" /\ written = 0

Deliver ==
    /\ receiver = "open"
    /\ delivered' \in delivered + 1 .. FileSize
    /\ UNCHANGED <<reported, receiver, written>>

ReportOk ==
    /\ reported = "none"
    /\ delivered = FileSize
    /\ reported' = "ok"
    /\ UNCHANGED <<delivered, receiver, written>>

ReportFailed ==
    /\ reported = "none"
    /\ reported' = "failed"
    /\ UNCHANGED <<delivered, receiver, written>>

\* The receiver writes its file.
Write == written' \in {0, delivered} /\ UNCHANGED <<delivered, reported>>

Finish == receiver = "open" /\ reported = "ok" /\ receiver' = "done" /\ Write

BreakOff == receiver = "open" /\ receiver' = "broken" /\ Write

Next == Deliver \/ ReportOk \/ ReportFailed \/ Finish \/ BreakOff

Spec == Init /\ [][Next]_vars
=============================================================================
