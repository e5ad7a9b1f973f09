--------------------------- MODULE MCXv6Schedulers --------------------------
(* Constants of the model-checked instances of Xv6Schedulers.              *)
EXTENDS Xv6Schedulers

\* Two queues with slices of one and two ticks.
MCQueueSlices == [q \in 0 .. 1 |-> q + 1]

\* Two processes under MLFQ, which has the most states, three otherwise.
MCMaxProcs == [p \in Policies |-> IF p = "MLFQ" THEN 2 ELSE 3]

\* A table full of processes.
MCFullTable == [p \in Policies |-> NProc]
=============================================================================
