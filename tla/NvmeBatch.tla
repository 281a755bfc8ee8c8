----------------------------- MODULE NvmeBatch -----------------------------
(***************************************************************************)
(* The NVMe I/O kernel of nvme-ep.hip: driveEndpointSingle and             *)
(* driveEndpointWavefront, over one queue pair.  A batch is prepared, its  *)
(* doorbell rung, its completions polled, and the completion doorbell      *)
(* rung; then the next batch follows, until all operations are done, a     *)
(* stop is requested, a poll times out or a completion reports an error.   *)
(*                                                                         *)
(* On the cooperative path the threads of a block write the entries of a   *)
(* batch in any order and thread 0 does the rest.  On the single path each *)
(* wavefront of the launch runs the whole loop, with variables of its own. *)
(*                                                                         *)
(* gpuKernelStateful, which rxio_submit of the fio engine launches, is one *)
(* batch per launch: it takes the tail, the head and the phase from two    *)
(* words in memory and leaves them there for the next launch.  Launches on *)
(* one stream run one after the other.  It neither tests for a stop nor    *)
(* looks at the status of a completion.                                    *)
(***************************************************************************)
EXTENDS NvmeQueue, FiniteSets, FiniteSetsExt

CONSTANTS
    Configs,     \* the runs: their kernel, --batch-size, --write-io and --read-io;
                 \* batchSize is the most a launch of the stateful kernel is asked for
    Drivers,     \* the wavefronts that run the loop
    MayStop,     \* whether the user may request a stop
    MayTimeout   \* whether a poll may give up after NVME_EP_MAX_POLLS

\* Neither rxio_submit nor the stateful kernel clamps the operations of a
\* launch to the ring, as the drive loop clamps its batch: their caller must.
ASSUME BatchAssumption ==
    /\ IsFiniteSet(Configs)
    /\ Configs \subseteq [kernel : {"drive", "stateful"}, batchSize : Nat, writeIo : Nat, readIo : Nat]
    /\ \A c \in Configs : c.writeIo + c.readIo > 0
    /\ \A c \in Configs : [op : 0 .. c.writeIo + c.readIo - 1, slot : Slots] \subseteq Commands
    /\ IsFiniteSet(Drivers) /\ Drivers # {}
    /\ \A c \in Configs : c.batchSize > 1 => Cardinality(Drivers) = 1
    /\ \A c \in Configs : c.kernel = "stateful" => c.batchSize < QueueSize
    /\ MayStop \in BOOLEAN /\ MayTimeout \in BOOLEAN

VARIABLES
    config,         \* the ioParams of this run
    stopRequested,  \* *config.stopRequested
    pc,             \* where a driver is in its loop
    sq_tail,        \* the submission tail
    cq_head,        \* the completion head
    expected_phase, \* the phase of the completion it waits for
    ops_done,       \* the operations of the finished batches
    prepared,       \* the entries of this batch that are written
    polled,         \* the completions of this batch that are consumed
    n_ops,          \* the commands of the launch of the stateful kernel
    state           \* the two words it leaves for the next launch

driverVars == <<pc, sq_tail, cq_head, expected_phase, ops_done, prepared, polled>>
launchVars == <<n_ops, state>>
runVars == <<config, stopRequested>>
vars == <<queueVars, runVars, driverVars, launchVars>>

\* driveEndpoint.
Stateful == config.kernel = "stateful"
Cooperative == ~Stateful /\ config.batchSize > 1

Total == config.writeIo + config.readIo

Init ==
    /\ QueueInit
    /\ config \in Configs /\ stopRequested = FALSE
    /\ pc = [w \in Drivers |->
                 IF Stateful THEN "idle" ELSE IF Cooperative THEN "prepare" ELSE "head"]
    /\ sq_tail = [w \in Drivers |-> 0]
    /\ cq_head = [w \in Drivers |-> 0]
    /\ expected_phase = [w \in Drivers |-> 1]
    /\ ops_done = [w \in Drivers |-> 0]
    /\ prepared = [w \in Drivers |-> {}]
    /\ polled = [w \in Drivers |-> 0]
    /\ n_ops = 0
    /\ state = [tail |-> 0, head |-> 0, phase |-> 1]

\* validateConfig accepts --verify; the stateful kernel verifies nothing.
VerifyAllowed ==
    /\ ~Stateful
    /\ config.writeIo > 0 /\ config.readIo > 0 /\ config.readIo <= config.writeIo
    /\ config.batchSize <= 1

-----------------------------------------------------------------------------
(* The batch.                                                              *)

\* A ring of QueueSize places holds QueueSize - 1 entries.
ClampToQueueFull(n) == Min({n, QueueSize})
ClampToQueue(n) == Min({n, QueueSize - 1})

batch_sizeIgnored == Min({ClampToQueue(Total), Total})
batch_size == Min({ClampToQueue(IF config.batchSize = 0 THEN Total ELSE config.batchSize), Total})

batch_count(w) == IF Stateful THEN n_ops ELSE Min({batch_size, Total - ops_done[w]})

ToPrepare(w) == (0 .. batch_count(w) - 1) \ prepared[w]

\* Writes come first when a run has both, and read what was written.
IsRead(op) == IF config.writeIo > 0 /\ config.readIo > 0 THEN op >= config.writeIo ELSE config.readIo > 0

\* lba_idx: operations with one index have one LBA.
LbaIdx(op) == IF IsRead(op) /\ config.writeIo > 0 THEN op - config.writeIo ELSE op

\* The entry of the batch's b-th operation, with its place in the buffers.
SqeOf(w, b) == [op |-> ops_done[w] + b, slot |-> b]

SqeSlotUnbased(w, b) == b
SqeSlot(w, b) == Advance(sq_tail[w], b)

-----------------------------------------------------------------------------
(* The loop.                                                               *)

\* rxio_submit, and the first lines of the stateful kernel.
Launch(w, n) ==
    /\ pc[w] = "idle"
    /\ ops_done[w] + n <= Total
    /\ n_ops' = n
    /\ sq_tail' = [sq_tail EXCEPT ![w] = state.tail]
    /\ cq_head' = [cq_head EXCEPT ![w] = state.head]
    /\ expected_phase' = [expected_phase EXCEPT ![w] = state.phase]
    /\ pc' = [pc EXCEPT ![w] = "prepare"]
    /\ UNCHANGED <<queueVars, runVars, state, ops_done, prepared, polled>>

\* The loop condition; the cooperative path tests it at the end of a batch.
StartBatch(w) ==
    /\ pc[w] = "head"
    /\ pc' = [pc EXCEPT ![w] =
                 IF ops_done[w] < Total /\ ~stopRequested THEN "prepare" ELSE "done"]
    /\ UNCHANGED <<queueVars, runVars, launchVars, sq_tail, cq_head, expected_phase, ops_done,
                   prepared, polled>>

\* The kernel also traps, or ends the run, when an operation's place is past
\* the end of the data buffer or its direction has none.  run() allocates a
\* buffer for every direction used and refuses a batch that does not fit, so
\* no run takes those branches.
PrepareSqe(w, b) ==
    /\ pc[w] = "prepare"
    /\ b \in ToPrepare(w)
    /\ Cooperative \/ \A c \in ToPrepare(w) : b <= c
    /\ SqeWrite(SqeSlot(w, b), SqeOf(w, b))
    /\ prepared' = [prepared EXCEPT ![w] = @ \union {b}]
    /\ UNCHANGED <<runVars, launchVars, pc, sq_tail, cq_head, expected_phase, ops_done, polled>>

RingSq(w) ==
    /\ pc[w] = "prepare"
    /\ ToPrepare(w) = {}
    /\ sq_tail' = [sq_tail EXCEPT ![w] = Advance(@, batch_count(w))]
    /\ RingSqDoorbell(sq_tail'[w])
    /\ pc' = [pc EXCEPT ![w] = "first"]
    /\ prepared' = [prepared EXCEPT ![w] = {}]
    /\ UNCHANGED <<runVars, launchVars, cq_head, expected_phase, ops_done, polled>>

LastPolledEarly(w) == polled[w] + 2 >= batch_count(w)
LastPolled(w) == polled[w] + 1 = batch_count(w)

\* An error or a timeout: the single path traps, the cooperative one sets
\* sh_error, on which its threads leave the loop.
Failed == IF Cooperative THEN "error" ELSE "trap"

ConsumeCqe(w) ==
    IF cq[cq_head[w]].ok \/ Stateful
    THEN /\ cq_head' = [cq_head EXCEPT ![w] = Advance(@, 1)]
         /\ expected_phase' = [expected_phase EXCEPT ![w] = NextPhase(cq_head[w], @)]
         /\ polled' = [polled EXCEPT ![w] = @ + 1]
         /\ pc' = [pc EXCEPT ![w] = IF LastPolled(w) THEN "polled" ELSE "first"]
    ELSE /\ pc' = [pc EXCEPT ![w] = Failed]
         /\ UNCHANGED <<cq_head, expected_phase, polled>>

\* The first look at a completion: only the single path tests for a stop.
PollFirst(w) ==
    /\ pc[w] = "first"
    /\ IF ~Cooperative /\ stopRequested
       THEN pc' = [pc EXCEPT ![w] = "done"] /\ UNCHANGED <<cq_head, expected_phase, polled>>
       ELSE IF CqeReady(cq_head[w], expected_phase[w])
            THEN ConsumeCqe(w)
            ELSE pc' = [pc EXCEPT ![w] = "spin"] /\ UNCHANGED <<cq_head, expected_phase, polled>>
    /\ UNCHANGED <<queueVars, runVars, launchVars, sq_tail, ops_done, prepared>>

PollSpin(w) ==
    /\ pc[w] = "spin"
    /\ CqeReady(cq_head[w], expected_phase[w])
    /\ ConsumeCqe(w)
    /\ UNCHANGED <<queueVars, runVars, launchVars, sq_tail, ops_done, prepared>>

\* The poll loop tests for a stop every 100 polls.
SpinStopsNever == FALSE
SpinStops == stopRequested

PollStop(w) ==
    /\ pc[w] = "spin"
    /\ SpinStops
    /\ pc' = [pc EXCEPT ![w] = "done"]
    /\ UNCHANGED <<queueVars, runVars, launchVars, sq_tail, cq_head, expected_phase, ops_done,
                   prepared, polled>>

PollTimeout(w) ==
    /\ MayTimeout
    /\ pc[w] = "spin"
    /\ ~CqeReady(cq_head[w], expected_phase[w])
    /\ pc' = [pc EXCEPT ![w] = Failed]
    /\ UNCHANGED <<queueVars, runVars, launchVars, sq_tail, cq_head, expected_phase, ops_done,
                   prepared, polled>>

\* The words the next launch reads.
SavedPhaseReset(w) == [tail |-> sq_tail[w], head |-> cq_head[w], phase |-> 1]
SavedState(w) == [tail |-> sq_tail[w], head |-> cq_head[w], phase |-> expected_phase[w]]

RingCq(w) ==
    /\ pc[w] = "polled"
    /\ RingCqDoorbell(cq_head[w])
    /\ ops_done' = [ops_done EXCEPT ![w] = @ + batch_count(w)]
    /\ polled' = [polled EXCEPT ![w] = 0]
    /\ pc' = [pc EXCEPT ![w] = IF Stateful THEN "idle" ELSE "head"]
    /\ state' = IF Stateful THEN SavedState(w) ELSE state
    /\ UNCHANGED <<runVars, n_ops, sq_tail, cq_head, expected_phase, prepared>>

RequestStop ==
    /\ MayStop /\ ~Stateful
    /\ ~stopRequested
    /\ stopRequested' = TRUE
    /\ UNCHANGED <<queueVars, config, driverVars, launchVars>>

Driver(w) ==
    \/ StartBatch(w)
    \/ \E b \in Slots : PrepareSqe(w, b)
    \/ RingSq(w)
    \/ PollFirst(w)
    \/ PollSpin(w)
    \/ PollStop(w)
    \/ RingCq(w)

Next ==
    \/ \E w \in Drivers : Driver(w) \/ PollTimeout(w) \/ \E n \in 1 .. config.batchSize : Launch(w, n)
    \/ RequestStop
    \/ Controller /\ UNCHANGED <<runVars, driverVars, launchVars>>

Spec == Init /\ [][Next]_vars

\* Resident wavefronts are scheduled; the poll limit need not be reached, and
\* a caller of the stateful kernel need not launch again.
FairSpec == Spec /\ \A w \in Drivers : WF_vars(Driver(w))

-----------------------------------------------------------------------------
(* Properties.                                                             *)

OpOf(c) == IF c = NoCommand THEN Total ELSE c.op

Told == [i \in DOMAIN log |-> log[i].cmd] \o Outstanding

\* The commands the controller was told of, completed or not, are the first
\* operations of the run, each exactly once: no entry is overwritten before
\* it is fetched, none is fetched twice, and no stale entry is covered by a
\* doorbell (sqeWrite and the tail arithmetic of both paths).
EachOpOnce == {OpOf(Told[i]) : i \in DOMAIN Told} = 0 .. Len(Told) - 1

\* A driver never takes an old entry of the completion ring for a new one:
\* it has consumed no more completions than the controller posted (the phase
\* test across wraps of the ring and, in the stateful kernel, across launches).
NoPhantom == \A w \in Drivers : ops_done[w] + polled[w] <= Len(log)

\* Two commands at the controller never share a place in the data buffers or
\* the PRP pool, and no place is prepared for a new command while one that
\* uses it is at the controller (the batch index is the buffer slot).
BufferExclusive ==
    /\ \A i, j \in DOMAIN Outstanding :
           i # j => Outstanding[i].slot # Outstanding[j].slot
    /\ \A w \in Drivers : pc[w] = "prepare" =>
           \A i \in DOMAIN Outstanding : Outstanding[i].slot \notin prepared[w]

\* In a run that may be verified a read finds the block its run wrote: the
\* write of its LBA has completed before the read executes (validateConfig
\* and the order of the batches).
ReadBack ==
    VerifyAllowed =>
        \A i \in DOMAIN log : LET op == OpOf(log[i].cmd) IN
            IsRead(op) => \E j \in 1 .. i - 1 : OpOf(log[j].cmd) = LbaIdx(op) /\ log[j].ok

\* With a controller that serves its queues, and unless it is stopped or fails,
\* a run completes every operation (the loops of both paths), and a launch of
\* the stateful kernel all of its own.
RunCompletes ==
    ControllerFairness =>
        []<>(\/ stopRequested \/ \E w \in Drivers : pc[w] \in {"error", "trap"}
             \/ Len(log) = Total /\ \A w \in Drivers : pc[w] = "done"
             \/ \A w \in Drivers : pc[w] = "idle" /\ Len(log) = ops_done[w])

\* Once a stop is requested every driver ends, whatever the controller does
\* (the stop tests in the poll loops and at the loop heads).
StopEnds == stopRequested ~> \A w \in Drivers : pc[w] \in {"done", "error", "trap"}
============================================================================
