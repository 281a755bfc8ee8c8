---------------------------- MODULE MCSdmaRing ----------------------------
(***************************************************************************)
(* Small instances of SdmaRing, and the mapping under which it implements  *)
(* SdmaFifo.  The packet encoding of SdmaWire is evaluated over fields of  *)
(* a few bits.                                                             *)
(***************************************************************************)
EXTENDS SdmaRing, SdmaWire, SequencesExt, TLC

Aligned == {a \in Address : a % Align = 0}

\* The sizes CreateCopyWaitSignalPacketMI4 asserts, and aligned addresses.
ASSUME FusedIsPair ==
    \A src, dst \in Aligned, size \in 1 .. CountMod, signal \in Aligned \ {Nullptr} :
        LET p == CreateCopyWaitSignalPacketMI4(src, dst, size, signal, 1)
        IN  /\ EngineFusedCopy(p) = EngineCopy(CopyLinearPacket(src, dst, size))
            /\ EngineFusedAdd(p) = EngineAdd(CreateAtomicIncPacket(signal))

\* A copy alone, and a copy with its signal and its counter: one packet or two.
MixedOps == { {"put"}, {"put", "signal", "counter"} }

\* The packets between rptr and the doorbell, in index order, without padding.
Visible ==
    LET pkts == {ring[WrapIntoRing(i)] : i \in rptr .. doorbell - 1}
        real == {k \in pkts : k.eff # {}}
    IN  SetToSortSeq(real, LAMBDA a, b : a.start < b.start)

Plain(k) == [by |-> k.by, n |-> k.n, eff |-> k.eff]

Fifo == INSTANCE SdmaFifo WITH
    queue     <- [i \in DOMAIN Visible |-> Plain(Visible[i])],
    performed <- [i \in DOMAIN executed |-> Plain(executed[i])],
    issued    <- [p \in Producers |-> done[p] + (IF pc[p] = "commit" THEN 1 ELSE 0)]

\* The ring is a FIFO of operations: RingDoorbell publishes one operation as an
\* uninterrupted run of packets, the engine performs each packet once, in order.
ImplementsFifo == Fifo!Spec
=============================================================================
