----------------------------- MODULE SdmaRing -----------------------------
(***************************************************************************)
(* SdmaQueueHandle (sdma_device.hpp): GPU threads that share one SDMA ring *)
(* reserve space with a CAS on cachedWptr, fill it, and publish in         *)
(* reservation order by waiting for committedWptr.  The SDMA engine (not   *)
(* in this repository) reads packets between rptr and the doorbell value.  *)
(* Indices are absolute, in dwords; WrapIntoRing maps them to a slot.      *)
(***************************************************************************)
EXTENDS SdmaPackets, Sequences

CONSTANTS
    Producers,    \* threads that hold the handle
    Stateful,     \* those that pass an SdmaQueueState to every operation
    QueueSize,    \* SDMA_QUEUE_SIZE / 4
    Ops,          \* the operations the kernels issue
    MaxOps        \* bound: operations issued by one thread

ASSUME RingAssumption ==
    /\ "none" \notin Producers
    /\ Stateful \subseteq Producers
    /\ QueueSize \in Nat \ {0}
    /\ Ops \subseteq Op
    /\ MaxOps \in Nat

\* A batch with its wrap padding must be able to fit an empty ring.
ASSUME BatchFits == \A o \in Ops : 2 * SpaceRequired(o) <= QueueSize

VARIABLES
    cachedWptr, committedWptr,   \* shared device memory
    wptr, doorbell, rptr,        \* queue registers
    ring,                        \* queueBuf: the packet each slot belongs to
    pc,                          \* where each thread is
    op,                          \* the operation it performs
    left,                        \* the flags whose packets it has yet to place
    base, offset, pending,       \* cur_index / base, offset, pendingWptr
    cachedHwReadIndex, maxWritePtr,   \* its SdmaQueueState
    target,                      \* what quietAll waits for
    done,                        \* operations it has completed
    executed                     \* history: packets the engine has performed

vars == <<cachedWptr, committedWptr, wptr, doorbell, rptr, ring, pc, op, left,
          base, offset, pending, cachedHwReadIndex, maxWritePtr, target, done,
          executed>>

Slots == 0 .. QueueSize - 1

Packet == [by : Producers, n : Nat, eff : SUBSET {"put", "signal", "counter", "tile"},
           start : Nat, len : Nat]

\* Zeroed memory: a one-dword NOP that nobody placed.
Unwritten == [by |-> "none", n |-> 0, eff |-> {}, start |-> 0, len |-> 1]

PC == {"idle", "reserve", "check", "cas", "place", "wait", "wptr", "doorbell",
       "commit", "quiet"}

TypeOK ==
    /\ cachedWptr \in Nat /\ committedWptr \in Nat
    /\ wptr \in Nat /\ doorbell \in Nat /\ rptr \in Nat
    /\ ring \in [Slots -> Packet \union {Unwritten}]
    /\ pc \in [Producers -> PC]
    /\ op \in [Producers -> Ops \union {{}}]
    /\ left \in [Producers -> SUBSET {"put", "signal", "counter", "tile"}]
    /\ base \in [Producers -> Nat]
    /\ offset \in [Producers -> Nat]
    /\ pending \in [Producers -> Nat]
    /\ cachedHwReadIndex \in [Producers -> Nat]
    /\ maxWritePtr \in [Producers -> Nat]
    /\ target \in [Producers -> Nat]
    /\ done \in [Producers -> Nat]
    /\ executed \in Seq(Packet)

\* The queue is created empty: every pointer starts from the same write pointer.
Init ==
    /\ cachedWptr = 0 /\ committedWptr = 0 /\ wptr = 0 /\ doorbell = 0 /\ rptr = 0
    /\ ring = [s \in Slots |-> Unwritten]
    /\ pc = [p \in Producers |-> "idle"]
    /\ op = [p \in Producers |-> {}]
    /\ left = [p \in Producers |-> {}]
    /\ base = [p \in Producers |-> 0]
    /\ offset = [p \in Producers |-> 0]
    /\ pending = [p \in Producers |-> 0]
    /\ cachedHwReadIndex = [p \in Producers |-> 0]
    /\ maxWritePtr = [p \in Producers |-> 0]
    /\ target = [p \in Producers |-> 0]
    /\ done = [p \in Producers |-> 0]
    /\ executed = <<>>
-----------------------------------------------------------------------------
WrapIntoRing(i) == i % QueueSize

\* Mutant: the ring may be filled completely.
HasSpaceFull(upto, hwRead) == hwRead <= upto /\ upto - hwRead <= QueueSize

\* Mutant: the operands of the comparison are swapped.
HasSpaceSwapped(upto, hwRead) == upto < hwRead

\* (upto - hwRead) < SDMA_QUEUE_SIZE on unsigned 64-bit values: an index behind
\* the read pointer wraps to a huge difference.
HasSpace(upto, hwRead) == hwRead <= upto /\ upto - hwRead < QueueSize

\* NOP padding inserted when the batch would cross the end of the ring.
WrapOffset(cur, size) ==
    IF WrapIntoRing(cur) + size > QueueSize THEN QueueSize - WrapIntoRing(cur) ELSE 0

NewIndex(p) == base[p] + SpaceRequired(op[p]) + offset[p]

\* The thread's SdmaQueueState reaches CanWriteUpto only on this path: putTile
\* takes no state, and the OSS7 fast path does not hand it to ReserveQueueSpace.
UsesCache(p) == p \in Stateful /\ op[p] # {"tile"} /\ ~Fusable(op[p])

\* Mutant: submitPacket is never handed the state.
TracksWritesNever(p) == FALSE

\* submitPacket gets the state on every path except putTile's.
TracksWrites(p) == p \in Stateful /\ op[p] # {"tile"}

\* SdmaQueueState::init.
InitState(p) ==
    /\ pc[p] = "idle" /\ p \in Stateful
    /\ cachedHwReadIndex' = [cachedHwReadIndex EXCEPT ![p] = rptr]
    /\ UNCHANGED <<cachedWptr, committedWptr, wptr, doorbell, rptr, ring, pc, op, left,
                   base, offset, pending, maxWritePtr, target, done, executed>>

Begin(p, o) ==
    /\ pc[p] = "idle" /\ done[p] < MaxOps
    /\ pc' = [pc EXCEPT ![p] = "reserve"]
    /\ op' = [op EXCEPT ![p] = o]
    /\ left' = [left EXCEPT ![p] = o]
    /\ UNCHANGED <<cachedWptr, committedWptr, wptr, doorbell, rptr, ring, base,
                   offset, pending, cachedHwReadIndex, maxWritePtr, target, done,
                   executed>>

\* ReserveQueueSpace: load cachedWptr and compute the padding.
ReserveLoad(p) ==
    /\ pc[p] = "reserve"
    /\ base' = [base EXCEPT ![p] = cachedWptr]
    /\ offset' = [offset EXCEPT ![p] = WrapOffset(cachedWptr, SpaceRequired(op[p]))]
    /\ pc' = [pc EXCEPT ![p] = "check"]
    /\ UNCHANGED <<cachedWptr, committedWptr, wptr, doorbell, rptr, ring, op, left,
                   pending, cachedHwReadIndex, maxWritePtr, target, done, executed>>

\* CanWriteUpto, fast path: the cached read index already leaves room.
CanWriteCached(p) ==
    /\ pc[p] = "check"
    /\ UsesCache(p) /\ HasSpace(NewIndex(p), cachedHwReadIndex[p])
    /\ pc' = [pc EXCEPT ![p] = "cas"]
    /\ UNCHANGED <<cachedWptr, committedWptr, wptr, doorbell, rptr, ring, op, left,
                   base, offset, pending, cachedHwReadIndex, maxWritePtr, target,
                   done, executed>>

\* CanWriteUpto, slow path: read rptr, refresh the cache, retry when there is no
\* room.
CanWriteUpto(p) ==
    /\ pc[p] = "check"
    /\ ~(UsesCache(p) /\ HasSpace(NewIndex(p), cachedHwReadIndex[p]))
    /\ cachedHwReadIndex' =
          [cachedHwReadIndex EXCEPT ![p] = IF UsesCache(p) THEN rptr ELSE @]
    /\ pc' = [pc EXCEPT ![p] = IF HasSpace(NewIndex(p), rptr) THEN "cas" ELSE "reserve"]
    /\ UNCHANGED <<cachedWptr, committedWptr, wptr, doorbell, rptr, ring, op, left,
                   base, offset, pending, maxWritePtr, target, done, executed>>

\* Mutant: a plain store instead of the compare-exchange.
CasAlways(p) == TRUE

CasSucceeds(p) == cachedWptr = base[p]

\* The compare-exchange on cachedWptr; a failure starts over.
ReserveCas(p) ==
    /\ pc[p] = "cas"
    /\ IF CasSucceeds(p)
       THEN /\ cachedWptr' = NewIndex(p)
            /\ pending' = [pending EXCEPT ![p] = base[p]]
            /\ pc' = [pc EXCEPT ![p] = "place"]
       ELSE /\ pc' = [pc EXCEPT ![p] = "reserve"]
            /\ UNCHANGED <<cachedWptr, pending>>
    /\ UNCHANGED <<committedWptr, wptr, doorbell, rptr, ring, op, left, base, offset,
                   cachedHwReadIndex, maxWritePtr, target, done, executed>>

\* The slots placePacket stores to: consecutive from the wrapped index, without
\* wrapping again.
PlacedSlots(i, len) == WrapIntoRing(i) .. WrapIntoRing(i) + len - 1

\* placePacket: NOP padding before the first packet, then the packet.
PlacePacket(p) ==
    LET pkt  == NextPacket(left[p])
        len  == PacketLen(pkt)
        at   == pending[p] + offset[p]
        nop  == [by |-> p, n |-> done[p], eff |-> {}, start |-> pending[p],
                 len |-> offset[p]]
        body == [by |-> p, n |-> done[p], eff |-> pkt, start |-> at, len |-> len]
    IN  /\ pc[p] = "place"
        /\ ring' = [s \in Slots |->
                       IF s \in PlacedSlots(at, len) THEN body
                       ELSE IF s \in PlacedSlots(pending[p], offset[p]) THEN nop
                       ELSE ring[s]]
        /\ pending' = [pending EXCEPT ![p] = at + len]
        /\ offset' = [offset EXCEPT ![p] = 0]
        /\ left' = [left EXCEPT ![p] = @ \ pkt]
        /\ pc' = [pc EXCEPT ![p] = IF left[p] = pkt THEN "wait" ELSE "place"]
        /\ UNCHANGED <<cachedWptr, committedWptr, wptr, doorbell, rptr, op, base,
                       cachedHwReadIndex, maxWritePtr, target, done, executed>>

\* Mutant: nobody waits.
TurnAlways(p) == TRUE

Turn(p) == committedWptr = base[p]

\* submitPacket: spin until every earlier reservation has been published.
SubmitWait(p) ==
    /\ pc[p] = "wait"
    /\ Turn(p)
    /\ pc' = [pc EXCEPT ![p] = "wptr"]
    /\ UNCHANGED <<cachedWptr, committedWptr, wptr, doorbell, rptr, ring, op, left,
                   base, offset, pending, cachedHwReadIndex, maxWritePtr, target,
                   done, executed>>

StoreWptr(p) ==
    /\ pc[p] = "wptr"
    /\ wptr' = pending[p]
    /\ pc' = [pc EXCEPT ![p] = "doorbell"]
    /\ UNCHANGED <<cachedWptr, committedWptr, doorbell, rptr, ring, op, left, base,
                   offset, pending, cachedHwReadIndex, maxWritePtr, target, done,
                   executed>>

RingDoorbell(p) ==
    /\ pc[p] = "doorbell"
    /\ doorbell' = pending[p]
    /\ pc' = [pc EXCEPT ![p] = "commit"]
    /\ UNCHANGED <<cachedWptr, committedWptr, wptr, rptr, ring, op, left, base,
                   offset, pending, cachedHwReadIndex, maxWritePtr, target, done,
                   executed>>

\* The store to committedWptr, and the thread's own maxWritePtr.  The locals of
\* the call go out of scope.
StoreCommitted(p) ==
    /\ pc[p] = "commit"
    /\ committedWptr' = pending[p]
    /\ maxWritePtr' =
          [maxWritePtr EXCEPT ![p] = IF TracksWrites(p) THEN pending[p] ELSE @]
    /\ done' = [done EXCEPT ![p] = @ + 1]
    /\ pc' = [pc EXCEPT ![p] = "idle"]
    /\ op' = [op EXCEPT ![p] = {}]
    /\ base' = [base EXCEPT ![p] = 0]
    /\ pending' = [pending EXCEPT ![p] = 0]
    /\ UNCHANGED <<cachedWptr, wptr, doorbell, rptr, ring, left, offset,
                   cachedHwReadIndex, target, executed>>

\* quietAll: pick the index to wait for ...
QuietAll(p) ==
    /\ pc[p] = "idle"
    /\ target' = [target EXCEPT ![p] = IF p \in Stateful THEN maxWritePtr[p] ELSE wptr]
    /\ pc' = [pc EXCEPT ![p] = "quiet"]
    /\ UNCHANGED <<cachedWptr, committedWptr, wptr, doorbell, rptr, ring, op, left,
                   base, offset, pending, cachedHwReadIndex, maxWritePtr, done,
                   executed>>

\* ... and spin until the engine has read up to it.
QuietReturn(p) ==
    /\ pc[p] = "quiet"
    /\ rptr >= target[p]
    /\ pc' = [pc EXCEPT ![p] = "idle"]
    /\ target' = [target EXCEPT ![p] = 0]
    /\ UNCHANGED <<cachedWptr, committedWptr, wptr, doorbell, rptr, ring, op, left,
                   base, offset, pending, cachedHwReadIndex, maxWritePtr, done,
                   executed>>

\* The engine (external): performs the packet at rptr, up to the doorbell.
Fetched == ring[WrapIntoRing(rptr)]

Engine ==
    /\ rptr < doorbell
    /\ rptr' = rptr + Fetched.len
    /\ executed' = IF Fetched.eff = {} THEN executed ELSE Append(executed, Fetched)
    /\ UNCHANGED <<cachedWptr, committedWptr, wptr, doorbell, ring, pc, op, left,
                   base, offset, pending, cachedHwReadIndex, maxWritePtr, target,
                   done>>

Submit(p) ==
    \/ ReserveLoad(p)
    \/ CanWriteCached(p)
    \/ CanWriteUpto(p)
    \/ ReserveCas(p)
    \/ PlacePacket(p)
    \/ SubmitWait(p)
    \/ StoreWptr(p)
    \/ RingDoorbell(p)
    \/ StoreCommitted(p)

Next ==
    \/ \E p \in Producers :
          \/ InitState(p)
          \/ \E o \in Ops : Begin(p, o)
          \/ Submit(p)
          \/ QuietAll(p)
          \/ QuietReturn(p)
    \/ Engine

Spec == Init /\ [][Next]_vars

\* Every thread is its own wave, so a spinning thread never blocks another one;
\* the engine keeps reading while there is something to read.
Fairness ==
    /\ \A p \in Producers : WF_vars(Submit(p)) /\ WF_vars(QuietReturn(p))
    /\ WF_vars(Engine)

LiveSpec == Spec /\ Fairness
-----------------------------------------------------------------------------
\* Threads that own a reserved region, and those inside the publishing section
\* of submitPacket.
Reserved == {p \in Producers : pc[p] \in {"place", "wait", "wptr", "doorbell", "commit"}}
Publishing == {p \in Producers : pc[p] \in {"wptr", "doorbell", "commit"}}

\* One past the region a reserved thread owns.
RegionEnd(p) == pending[p] + offset[p] + SpaceRequired(left[p])

\* ReserveQueueSpace never hands out a slot the engine has still to read, also
\* when the decision was taken on a stale cached read index.
NoOverwrite == rptr <= cachedWptr /\ cachedWptr - rptr < QueueSize

\* Two threads that have won their CAS own disjoint regions of the ring.
RegionsDisjoint ==
    \A p, q \in Reserved : p # q => RegionEnd(p) <= base[q] \/ RegionEnd(q) <= base[p]

\* placePacket stores from a wrapped index without wrapping again: padding and
\* packet both end at or before the end of queueBuf.
PlacedInBounds ==
    \A p \in Producers : pc[p] = "place" =>
        /\ WrapIntoRing(pending[p]) + offset[p] <= QueueSize
        /\ WrapIntoRing(pending[p] + offset[p]) + SpaceRequired(left[p]) <= QueueSize

\* The wait for committedWptr serialises the stores to wptr, doorbell and
\* committedWptr: one thread at a time, the one with the oldest reservation.
PublishExclusive ==
    \A p \in Publishing :
        /\ \A q \in Publishing : q = p
        /\ \A q \in Reserved : base[p] <= base[q]

\* Whatever the engine fetches below the doorbell is a whole packet that was
\* placed for exactly that index: nothing half written, stale or overwritten.
EngineReadsPlaced ==
    rptr < doorbell =>
        /\ Fetched # Unwritten
        /\ Fetched.start = rptr
        /\ rptr + Fetched.len <= doorbell
        /\ \A s \in PlacedSlots(rptr, Fetched.len) : s \in Slots /\ ring[s] = Fetched

\* The engine never sees its write pointer or doorbell move backwards, and
\* committedWptr, on which the other threads wait, only grows.
PointersMonotone ==
    [][/\ wptr' >= wptr /\ doorbell' >= doorbell /\ committedWptr' >= committedWptr]_vars

\* quietAll returns only after the engine has performed every packet of every
\* operation its thread completed before ("Wait for all submitted operations").
QuietCompletes ==
    [][\A p \in Producers : QuietReturn(p) =>
          \A n \in 0 .. done[p] - 1 :
              /\ \E i \in 1 .. Len(executed) : executed[i].by = p /\ executed[i].n = n
              /\ \A s \in Slots : ring[s].by = p /\ ring[s].n = n => ring[s].start < rptr
      ]_vars

\* A started operation is eventually published: neither the ring-full spin nor
\* the committedWptr spin waits for ever.
SubmitTerminates == \A p \in Producers : (pc[p] = "reserve") ~> (pc[p] = "idle")
=============================================================================
