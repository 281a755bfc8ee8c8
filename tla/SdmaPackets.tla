---------------------------- MODULE SdmaPackets ----------------------------
(***************************************************************************)
(* What one device-side SDMA operation puts into the queue: the packets of *)
(* put_signal_counter_impl<PUT_EN, SIGNAL_EN, COUNTER_EN> and of putTile   *)
(* (sdma_device.hpp).  An operation is the set of its enabled template     *)
(* flags; a packet is the set of effects the engine performs for it.       *)
(* Lengths are counted in dwords, the unit in which placePacket stores.    *)
(***************************************************************************)
EXTENDS Naturals

CONSTANTS
    CopyLen,      \* sizeof(SDMA_PKT_COPY_LINEAR) / 4
    AtomicLen,    \* sizeof(SDMA_PKT_ATOMIC) / 4
    FusedLen,     \* sizeof(SDMA_PKT_COPY_LINEAR_WAIT_SIGNAL_MI4) / 4
    TileLen,      \* sizeof(SDMA_PKT_LINEAR_LARGE_SUB_WINDOW_COPY) / 4
    Oss7          \* compiled with XIO_SDMA_OSS7

ASSUME PacketAssumption ==
    /\ CopyLen \in Nat \ {0}
    /\ AtomicLen \in Nat \ {0}
    /\ FusedLen \in Nat \ {0}
    /\ TileLen \in Nat \ {0}
    /\ Oss7 \in BOOLEAN

\* put, signal, putSignal, putSignalCounter, putCounter, signalCounter, putTile
Op == { {"put"}, {"signal"}, {"put", "signal"}, {"put", "signal", "counter"},
        {"put", "counter"}, {"signal", "counter"}, {"tile"} }

\* The OSS7 fast path: a copy that comes with a signal or a counter is fused
\* with it into one packet.
Fusable(flags) == Oss7 /\ "put" \in flags /\ flags # {"put"}

\* The packet that is placed first when the flags in "flags" are still to be
\* placed.  The fused packet has one signal slot: the signal takes it, and the
\* counter only when there is no signal.
NextPacket(flags) ==
    IF Fusable(flags)
    THEN IF "signal" \in flags THEN {"put", "signal"} ELSE {"put", "counter"}
    ELSE IF "tile" \in flags THEN {"tile"}
    ELSE IF "put" \in flags THEN {"put"}
    ELSE IF "signal" \in flags THEN {"signal"} ELSE {"counter"}

PacketLen(pkt) ==
    IF pkt = {"tile"} THEN TileLen
    ELSE IF pkt = {"put"} THEN CopyLen
    ELSE IF "put" \in pkt THEN FusedLen
    ELSE AtomicLen

\* space_required: what ReserveQueueSpace is asked for.
SpaceRequired(flags) ==
    IF Fusable(flags)
    THEN FusedLen + (IF {"signal", "counter"} \subseteq flags THEN AtomicLen ELSE 0)
    ELSE (IF "tile" \in flags THEN TileLen ELSE 0)
       + (IF "put" \in flags THEN CopyLen ELSE 0)
       + (IF "signal" \in flags THEN AtomicLen ELSE 0)
       + (IF "counter" \in flags THEN AtomicLen ELSE 0)
=============================================================================
