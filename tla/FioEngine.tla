----------------------------- MODULE FioEngine -----------------------------
(***************************************************************************)
(* The fio engine (docker/rocm-xio-engine) over one queue pair: a fio      *)
(* thread posts io_us into a work ring in pinned memory, the persistent    *)
(* GPU kernel of nvme-ep.hip takes them one by one, drives each through    *)
(* the queue pair and marks it done, and the thread reaps them in order.   *)
(*                                                                         *)
(* Each io_u has a number here, op, for the properties; what the code      *)
(* carries is the place in the data buffer.  Counters have WordSize values *)
(* and wrap, like the code's uint32_t.                                     *)
(***************************************************************************)
EXTENDS NvmeQueue

CONSTANTS
    IoUs,      \* fio's io_us
    NoIo,      \* a place of the io_u ring that was never used
    RingSize,  \* RXIO_RING
    IoDepth,   \* iodepth: depth of the work ring, slots of the data buffer
    WordSize,  \* values of a counter, 2^32 in the code
    MaxPosts,  \* bound: io_us queued in a behaviour
    MayClose   \* whether the file may be closed

ASSUME FioAssumption ==
    /\ NoIo \notin IoUs
    /\ RingSize \in Nat \ {0} /\ IoDepth \in 1 .. RingSize
    /\ WordSize \in Nat /\ WordSize > 2 * IoDepth
    /\ MaxPosts \in Nat
    /\ Commands = [op : 0 .. MaxPosts - 1, slot : 0 .. RingSize - 1]
    /\ MayClose \in BOOLEAN

Ops == 0 .. MaxPosts - 1
RingPlaces == 0 .. RingSize - 1
WorkPlaces == 0 .. IoDepth - 1

VARIABLES
    ring, ring_head, ring_tail, ring_count,  \* the io_us posted, in order
    prod_idx, cons_idx,                      \* the thread's work ring counters
    cpu,                                     \* the step of the fio thread
    opOf,                                    \* the number of each io_u's last posting
    posted,                                  \* postings so far
    reaped,                                  \* the numbers reported complete to fio
    work,                                    \* the work ring: seq and request
    stop_flag,
    gpu,                                     \* the step of the kernel
    index, sq_tail, cq_head, expected_phase  \* its variables

cpuVars == <<ring, ring_head, ring_tail, ring_count, prod_idx, cons_idx, cpu, opOf, posted, reaped>>
gpuVars == <<gpu, index, sq_tail, cq_head, expected_phase>>
vars == <<queueVars, cpuVars, gpuVars, work, stop_flag>>

\* open_file: rxio_setup and rxio_start_persistent succeeded.
Init ==
    /\ QueueInit
    /\ ring = [p \in RingPlaces |-> NoIo]
    /\ ring_head = 0 /\ ring_tail = 0 /\ ring_count = 0
    /\ prod_idx = 0 /\ cons_idx = 0
    /\ cpu = "run"
    /\ opOf = [u \in IoUs |-> MaxPosts]
    /\ posted = 0 /\ reaped = {}
    /\ work = [p \in WorkPlaces |-> [seq |-> 0, cmd |-> NoCommand]]
    /\ stop_flag = FALSE
    /\ gpu = "top" /\ index = 0
    /\ sq_tail = 0 /\ cq_head = 0 /\ expected_phase = 1

-----------------------------------------------------------------------------
(* The fio thread.                                                         *)

Word(n) == n % WordSize
PlaceOf(idx) == idx % IoDepth

\* The sequence numbers of a request: odd when posted, even when done.
PostedSeq(idx) == Word(idx * 2 + 1)
DoneSeq(idx) == Word(idx * 2 + 2)

NextPlace(p) == (p + 1) % RingSize

\* Whether fio waits for u.
InFlight(u) == \E k \in 0 .. ring_count - 1 : ring[(ring_tail + k) % RingSize] = u

\* The place of a new request in the data buffer.
DataSlot == ring_head

\* rxio_post_work refuses a place that is not free, and queue() then undoes
\* its ring insert and reports busy.
PlaceFree(pos) == work[pos].seq = 0

\* fio_rocm_xio_queue up to the request's fields; a busy return changes nothing.
QueueIo(u) ==
    /\ cpu = "run" /\ ~InFlight(u)
    /\ posted < MaxPosts
    /\ ring_count < IoDepth
    /\ PlaceFree(PlaceOf(prod_idx))
    /\ ring' = [ring EXCEPT ![ring_head] = u]
    /\ ring_head' = NextPlace(ring_head)
    /\ ring_count' = ring_count + 1
    /\ work' = [work EXCEPT ![PlaceOf(prod_idx)].cmd = [op |-> posted, slot |-> DataSlot]]
    /\ opOf' = [opOf EXCEPT ![u] = posted]
    /\ posted' = posted + 1
    /\ cpu' = "publish"
    /\ UNCHANGED <<queueVars, gpuVars, stop_flag, ring_tail, prod_idx, cons_idx, reaped>>

\* The store of seq that hands the request to the kernel.
Publish ==
    /\ cpu = "publish"
    /\ work' = [work EXCEPT ![PlaceOf(prod_idx)].seq = PostedSeq(prod_idx)]
    /\ prod_idx' = Word(prod_idx + 1)
    /\ cpu' = "run"
    /\ UNCHANGED <<queueVars, gpuVars, stop_flag, ring, ring_head, ring_tail, ring_count,
                   cons_idx, opOf, posted, reaped>>

\* The two tests of rxio_reap.
RequestDoneBelow(idx) == idx + 1 < prod_idx /\ work[PlaceOf(idx)].seq = DoneSeq(idx)
RequestPosted(idx) == idx < prod_idx /\ work[PlaceOf(idx)].seq # 0
RequestDone(idx) == idx < prod_idx /\ work[PlaceOf(idx)].seq = DoneSeq(idx)

\* One turn of the loop of fio_rocm_xio_getevents.
Reap ==
    /\ cpu = "run" /\ ring_count > 0
    /\ RequestDone(cons_idx)
    /\ work' = [work EXCEPT ![PlaceOf(cons_idx)].seq = 0]
    /\ cons_idx' = Word(cons_idx + 1)
    /\ reaped' = reaped \union {opOf[ring[ring_tail]]}
    /\ ring_tail' = NextPlace(ring_tail)
    /\ ring_count' = ring_count - 1
    /\ UNCHANGED <<queueVars, gpuVars, stop_flag, ring, ring_head, prod_idx, cpu, opOf, posted>>

\* close_file: rxio_stop_persistent raises the flag and waits for the kernel.
CloseFile ==
    /\ MayClose
    /\ cpu = "run"
    /\ stop_flag' = TRUE
    /\ cpu' = "closing"
    /\ UNCHANGED <<queueVars, gpuVars, work, ring, ring_head, ring_tail, ring_count, prod_idx,
                   cons_idx, opOf, posted, reaped>>

Closed ==
    /\ cpu = "closing" /\ gpu = "exit"
    /\ cpu' = "closed"
    /\ UNCHANGED <<queueVars, gpuVars, work, stop_flag, ring, ring_head, ring_tail, ring_count,
                   prod_idx, cons_idx, opOf, posted, reaped>>

-----------------------------------------------------------------------------
(* gpuKernelPersistent.                                                    *)

Goto(step) ==
    /\ gpu' = step
    /\ UNCHANGED <<cpuVars, queueVars, work, stop_flag, index, sq_tail, cq_head, expected_phase>>

CheckStop == gpu = "top" /\ Goto(IF stop_flag THEN "exit" ELSE "wait")

HasWorkNonzero == work[PlaceOf(index)].seq # 0
HasWork == work[PlaceOf(index)].seq = PostedSeq(index)

TakeItem ==
    /\ gpu = "wait" /\ HasWork
    /\ SqeWrite(sq_tail, work[PlaceOf(index)].cmd)
    /\ sq_tail' = Advance(sq_tail, 1)
    /\ gpu' = "ring"
    /\ UNCHANGED <<cpuVars, work, stop_flag, index, cq_head, expected_phase>>

WaitStop == gpu = "wait" /\ ~HasWork /\ stop_flag /\ Goto("exit")

RingSq ==
    /\ gpu = "ring"
    /\ RingSqDoorbell(sq_tail)
    /\ gpu' = "first"
    /\ UNCHANGED <<cpuVars, work, stop_flag, index, sq_tail, cq_head, expected_phase>>

\* The kernel looks at the phase only, not at the status.
TakeCqe ==
    /\ cq_head' = Advance(cq_head, 1)
    /\ expected_phase' = NextPhase(cq_head, expected_phase)
    /\ gpu' = "cqring"
    /\ UNCHANGED <<cpuVars, queueVars, work, stop_flag, index, sq_tail>>

PollFirst ==
    /\ gpu = "first"
    /\ \/ stop_flag /\ Goto("exit")
       \/ ~stop_flag /\ CqeReady(cq_head, expected_phase) /\ TakeCqe
       \/ ~stop_flag /\ ~CqeReady(cq_head, expected_phase) /\ Goto("spin")

PollSpin == gpu = "spin" /\ CqeReady(cq_head, expected_phase) /\ TakeCqe

\* Every 4096 polls.
SpinStopsNever == FALSE
SpinStops == stop_flag

PollStop == gpu = "spin" /\ SpinStops /\ Goto("exit")

RingCq ==
    /\ gpu = "cqring"
    /\ RingCqDoorbell(cq_head)
    /\ gpu' = "signal"
    /\ UNCHANGED <<cpuVars, work, stop_flag, index, sq_tail, cq_head, expected_phase>>

Signal ==
    /\ gpu = "signal"
    /\ work' = [work EXCEPT ![PlaceOf(index)].seq = DoneSeq(index)]
    /\ index' = Word(index + 1)
    /\ gpu' = "top"
    /\ UNCHANGED <<cpuVars, queueVars, stop_flag, sq_tail, cq_head, expected_phase>>

Kernel ==
    \/ CheckStop \/ TakeItem \/ WaitStop \/ RingSq \/ PollFirst \/ PollSpin \/ PollStop
    \/ RingCq \/ Signal

FioThread == Publish \/ Reap \/ Closed

Next ==
    \/ \E u \in IoUs : QueueIo(u)
    \/ CloseFile
    \/ FioThread
    \/ Kernel
    \/ Controller /\ UNCHANGED <<cpuVars, gpuVars, work, stop_flag>>

Spec == Init /\ [][Next]_vars

\* fio keeps calling getevents while io_us are out; the kernel is resident.
FairSpec == Spec /\ WF_vars(FioThread) /\ WF_vars(Kernel)

-----------------------------------------------------------------------------
(* Properties.                                                             *)

Executed == {log[i].cmd.op : i \in DOMAIN log}

\* An io_u is reported complete to fio only after the controller completed
\* its command: neither a recycled place of the work ring, nor a stale
\* completion entry, nor the two rings running apart lets one through
\* (rxio_reap, gpuKernelPersistent, fio_rocm_xio_getevents).
ReapedExecuted == reaped \subseteq Executed

\* The controller executes each io_u once, in the order fio queued them
\* (the sequence numbers of the work ring).
InOrderOnce == \A i \in DOMAIN log : log[i].cmd.op = i - 1

\* With a controller that serves its queues, every io_u fio queued is reported
\* complete unless the file is closed (getevents "spins until min completions
\* are ready").
IoCompletes ==
    ControllerFairness =>
        \A op \in Ops : posted > op ~> op \in reaped \/ cpu \in {"closing", "closed"}

\* Closing the file ends, whatever the controller does ("Checks stop_flag
\* periodically so teardown never deadlocks").
CloseEnds == cpu = "closing" ~> cpu = "closed"
============================================================================
