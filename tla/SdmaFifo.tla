----------------------------- MODULE SdmaFifo -----------------------------
(***************************************************************************)
(* What an SDMA queue promises its users: operations enter one queue, each *)
(* as an uninterrupted run of its packets, a thread's operations in the    *)
(* order it issued them, and the engine performs every packet exactly once *)
(* in queue order.                                                         *)
(***************************************************************************)
EXTENDS SdmaPackets, Sequences

CONSTANTS Producers, Ops, MaxOps

VARIABLES queue, performed, issued

fifoVars == <<queue, performed, issued>>

Entry(p, n, pkt) == [by |-> p, n |-> n, eff |-> pkt]

\* The packets of one operation, in the order put_signal_counter_impl places
\* them: at most three.
PacketsOf(p, n, o) ==
    LET first  == NextPacket(o)
        rest   == o \ first
        second == NextPacket(rest)
        last   == rest \ second
    IN  <<Entry(p, n, first)>>
          \o (IF rest = {} THEN <<>> ELSE <<Entry(p, n, second)>>)
          \o (IF rest = {} \/ last = {} THEN <<>> ELSE <<Entry(p, n, last)>>)

Init ==
    /\ queue = <<>>
    /\ performed = <<>>
    /\ issued = [p \in Producers |-> 0]

Publish(p, o) ==
    /\ issued[p] < MaxOps
    /\ queue' = queue \o PacketsOf(p, issued[p], o)
    /\ issued' = [issued EXCEPT ![p] = @ + 1]
    /\ UNCHANGED performed

Perform ==
    /\ queue # <<>>
    /\ performed' = Append(performed, Head(queue))
    /\ queue' = Tail(queue)
    /\ UNCHANGED issued

Next == Perform \/ \E p \in Producers, o \in Ops : Publish(p, o)

Spec == Init /\ [][Next]_fifoVars /\ WF_fifoVars(Perform)
=============================================================================
