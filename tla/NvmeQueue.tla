----------------------------- MODULE NvmeQueue -----------------------------
(***************************************************************************)
(* One NVMe queue pair: the two rings in memory, their doorbells, and the  *)
(* controller, which is not part of this code and is modelled by what the  *)
(* kernels rely on.  It fetches submission entries in ring order up to the *)
(* tail it was told, executes the commands it holds in any order, and      *)
(* posts each completion at the next place of the completion ring with a   *)
(* phase that flips at every wrap, if the head it was told leaves room.    *)
(*                                                                         *)
(* The modules that extend this one are the GPU kernels that drive the     *)
(* pair.  ringDoorbell fences before the MMIO store, so the controller     *)
(* never sees a tail before the entries it covers.                         *)
(***************************************************************************)
EXTENDS Naturals, Sequences

CONSTANTS
    QueueSize,  \* ioParams.queueSize: places in each ring
    Commands,   \* what a submission entry can hold
    NoCommand,  \* a place of a ring that was never written
    MayFail     \* whether the controller may complete a command in error

ASSUME QueueAssumption ==
    /\ QueueSize \in Nat \ {0, 1}
    /\ NoCommand \notin Commands
    /\ MayFail \in BOOLEAN

Slots == 0 .. QueueSize - 1
Phases == {0, 1}

VARIABLES
    sq,         \* the submission ring
    cq,         \* the completion ring
    sqTailDb,   \* the submission tail doorbell
    cqHeadDb,   \* the completion head doorbell
    fetchHead,  \* the next submission entry the controller fetches
    postTail,   \* the next place of the completion ring it writes
    postPhase,  \* the phase it writes there
    inflight,   \* the commands it fetched and did not complete, in order
    log         \* the completions it posted, in order

queueVars == <<sq, cq, sqTailDb, cqHeadDb, fetchHead, postTail, postPhase, inflight, log>>
controllerVars == <<fetchHead, postTail, postPhase, inflight, log>>

\* createQueue hands out zeroed rings; the first pass of the controller
\* writes phase 1.
QueueInit ==
    /\ sq = [s \in Slots |-> NoCommand]
    /\ cq = [s \in Slots |-> [cmd |-> NoCommand, ok |-> TRUE, phase |-> 0]]
    /\ sqTailDb = 0 /\ cqHeadDb = 0 /\ fetchHead = 0 /\ postTail = 0
    /\ postPhase = 1
    /\ inflight = <<>>
    /\ log = <<>>

-----------------------------------------------------------------------------
(* What the kernels do to the pair.                                        *)

Advance(i, n) == (i + n) % QueueSize

\* The phase a kernel expects after it consumed the completion at head.
NextPhase(head, phase) == IF Advance(head, 1) = 0 THEN 1 - phase ELSE phase

\* Entries from i up to, not including, j.
Distance(i, j) == (j + QueueSize - i) % QueueSize

\* An entry is stored in words of eight bytes, without a fence.  The controller
\* looks at it only behind the doorbell, so the words may count as one store.
XioComEnqueue(ring, slot, entry) == [ring EXCEPT ![slot] = entry]

\* A completion is loaded in two words, the first one first.  Command, status
\* and phase are in the second, the only one the kernels use.
XioComDequeue(ring, slot) == ring[slot]

\* Everything stored before is visible before the register has the value.
XioComDoorbell(register, value) == register' = value

SqeWrite(slot, cmd) ==
    /\ sq' = XioComEnqueue(sq, slot, cmd)
    /\ UNCHANGED <<cq, sqTailDb, cqHeadDb, controllerVars>>

RingSqDoorbell(tail) ==
    /\ XioComDoorbell(sqTailDb, tail)
    /\ UNCHANGED <<sq, cq, cqHeadDb, controllerVars>>

RingCqDoorbell(head) ==
    /\ XioComDoorbell(cqHeadDb, head)
    /\ UNCHANGED <<sq, cq, sqTailDb, controllerVars>>

\* cqeRead and the phase test of every poll loop.
CqeReady(head, phase) == XioComDequeue(cq, head).phase = phase

-----------------------------------------------------------------------------
(* The controller.                                                         *)

Fetch ==
    /\ fetchHead # sqTailDb
    /\ inflight' = Append(inflight, sq[fetchHead])
    /\ fetchHead' = Advance(fetchHead, 1)
    /\ UNCHANGED <<sq, cq, sqTailDb, cqHeadDb, postTail, postPhase, log>>

CqRoom == Advance(postTail, 1) # cqHeadDb

Complete(i, ok) ==
    /\ CqRoom
    /\ ok \/ MayFail
    /\ cq' = [cq EXCEPT ![postTail] = [cmd |-> inflight[i], ok |-> ok, phase |-> postPhase]]
    /\ log' = Append(log, [cmd |-> inflight[i], ok |-> ok])
    /\ inflight' = SubSeq(inflight, 1, i - 1) \o SubSeq(inflight, i + 1, Len(inflight))
    /\ postTail' = Advance(postTail, 1)
    /\ postPhase' = IF Advance(postTail, 1) = 0 THEN 1 - postPhase ELSE postPhase
    /\ UNCHANGED <<sq, sqTailDb, cqHeadDb, fetchHead>>

Controller == Fetch \/ \E i \in DOMAIN inflight, ok \in BOOLEAN : Complete(i, ok)

\* A live controller fetches what it was told of, and completes what it holds.
ControllerFairness ==
    /\ WF_queueVars(Fetch)
    /\ WF_queueVars(\E i \in DOMAIN inflight : Complete(i, TRUE))

\* The commands behind the doorbell that the controller has not fetched.
Pending == [k \in 1 .. Distance(fetchHead, sqTailDb) |-> sq[Advance(fetchHead, k - 1)]]

\* Every command the controller was told of and has not completed.
Outstanding == inflight \o Pending
============================================================================
