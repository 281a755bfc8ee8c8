-------------------------- MODULE SdmaCollective --------------------------
(***************************************************************************)
(* The collectives of examples/sdma-ep-collectives: one MPI rank per GPU,  *)
(* a queue of an SDMA engine from every rank to every peer, result buffers *)
(* and completion signals that the peers map through IPC handles.          *)
(*                                                                         *)
(* The program of a rank (SdmaTestEngine) is a plan of steps; kernels run  *)
(* in launch order on its stream and the engines execute each queue in     *)
(* order.  Rings and packets are the subject of SdmaRing: here a queue is  *)
(* never full.  External: MPI, the HIP runtime, the engines.               *)
(***************************************************************************)
EXTENDS Integers, Sequences, FiniteSets, FiniteSetsExt, SequencesExt

CONSTANTS
    Configs,     \* the programs and options checked: see Configuration
    MinBytes, MaxBytes, StepFactor,   \* the sweep
    Warmup, Iters                     \* warmup_, iters_

IntBytes == 4
Garbage == 99      \* the content of memory nobody has written

Configuration == [coll : {"allgather", "alltoall"}, deviceTriggered : BOOLEAN,
                  validate : BOOLEAN, nranks : Nat]  \* MAX_GPUS ranks in the code

\* initialize: the checks of the options; and the largest size gives every rank
\* of a device-triggered program an int4, without which allocateBuffers makes
\* room for no trigger flag and runBenchmark clears none.
ASSUME CollectiveAssumption ==
    /\ \A c \in Configs : c \in Configuration /\ c.nranks >= 2
                          /\ MaxBytes >= IntBytes * c.nranks
                          /\ c.deviceTriggered => MaxBytes >= 4 * IntBytes * c.nranks
    /\ MinBytes \in Nat \ {0} /\ MaxBytes \in Nat /\ MinBytes <= MaxBytes
    /\ StepFactor \in Nat /\ StepFactor > 1
    /\ Warmup \in Nat /\ Iters \in Nat

-----------------------------------------------------------------------------
(* PeerIndexing *)

peerToLocalIndex(r, p) == IF p < r THEN p ELSE p - 1
myIndexOnPeer(r, p) == IF r < p THEN r ELSE r - 1

-----------------------------------------------------------------------------
(* The sweep *)

\* runBenchmark, nextSize: the size after size, without overflow.
NextSize(size) ==
    IF size > MaxBytes \div StepFactor THEN MaxBytes + 1 ELSE size * StepFactor

ElemsPerRank(size, n) == (size \div IntBytes) \div n

\* The element counts of the sizes that are not skipped, in order.
Sweep(n) ==
    LET From[size \in 1 .. MaxBytes + 1] ==
            IF size > MaxBytes THEN <<>>
            ELSE (IF ElemsPerRank(size, n) = 0 THEN <<>> ELSE <<ElemsPerRank(size, n)>>)
                 \o From[NextSize(size)]
    IN From[MinBytes]

-----------------------------------------------------------------------------
(* The plan of a rank *)

Do(op, n) == [op |-> op, n |-> n]
Times(n, step) == [i \in 1 .. n |-> step]

Preprogram(c, n) ==
    IF c.deviceTriggered /\ n > 0 THEN <<Do("preprogram", n)>> ELSE <<>>

\* Mutant: no barrier before the run.
ValidatePlanNoBarrier(c) ==
    IF c.validate
    THEN Preprogram(c, 1)
         \o <<Do("launch", 1), Do("sync", 0), Do("validate", 0), Do("barrier", 0)>>
    ELSE <<>>
\* The collective once, its result compared; MPI_Allreduce is a barrier.
ValidatePlan(c) ==
    IF c.validate
    THEN Preprogram(c, 1)
         \o <<Do("barrier", 0), Do("launch", 1), Do("sync", 0),
              Do("validate", 0), Do("barrier", 0)>>
    ELSE <<>>

\* n launches without a look at their results.
BatchPlan(c, n) ==
    Preprogram(c, n) \o <<Do("barrier", 0)>> \o Times(n, Do("launch", 1))
    \o <<Do("sync", 0)>>

\* Mutant: every size starts the signals at zero.
SizePlanResets(c, elems) ==
    <<Do("zero", 0), Do("clear", elems), Do("initData", elems)>>
    \o ValidatePlan(c) \o BatchPlan(c, Warmup) \o BatchPlan(c, Iters)
    \o <<Do("barrier", 0)>>
\* runBenchmark, the body of its loop: the signals keep growing.
SizePlan(c, elems) ==
    <<Do("clear", elems), Do("initData", elems)>>
    \o ValidatePlan(c) \o BatchPlan(c, Warmup) \o BatchPlan(c, Iters)
    \o <<Do("barrier", 0)>>

\* initialize, allocateBuffers, setupQueues with the exchange of handles
\* (MPI_Allgather, a barrier), runBenchmark and cleanup.
Plan(c) ==
    <<Do("initialize", 0), Do("allocateBuffers", 0), Do("setupQueues", 0),
      Do("barrier", 0), Do("setupIpcHandles", 0), Do("zero", 0)>>
    \o FlattenSeq([i \in DOMAIN Sweep(c.nranks) |-> SizePlan(c, Sweep(c.nranks)[i])])
    \o <<Do("cleanup", 0)>>



-----------------------------------------------------------------------------
(* State *)

VARIABLES
    config,      \* the program and its options
    plan,        \* the steps of every rank
    at,          \* rank -> its place in the plan
    allocated,   \* ranks whose buffers and signals exist
    remoteSdmaSignals,  \* rank -> local index of a peer -> the slot on the peer,
                 \* while the peers' buffers and signals are mapped
    aborted,     \* MPI_Abort, or a failed HIP_CHECK, has ended the job
    elems,       \* rank -> currentElemsPerRank_
    launched,    \* rank -> kernels launched: currentSignal_ - 1
    done,        \* rank -> kernels that have ended
    triggerFlag, \* rank -> triggerFlags_[0]
    posted,      \* rank -> peer -> iterations in the queue so far
    executed,    \* rank -> peer -> packets the engine has executed
    sdmaSignals, \* rank -> slot -> value
    counters,    \* rank -> peer -> value
    inputBuf,    \* rank -> segment -> tag
    resultBuf,   \* rank -> segment -> tag
    nErrors      \* rank -> wrong segments over all validations

stillVars == <<config, plan, aborted>>
resVars == <<allocated, remoteSdmaSignals>>
hostVars == <<stillVars, at, elems, launched, nErrors, resVars>>
gpuVars == <<done, triggerFlag, posted>>
engineVars == <<executed, sdmaSignals, counters>>
memVars == <<inputBuf, resultBuf>>
vars == <<hostVars, gpuVars, engineVars, memVars>>

N == config.nranks
Ranks == 0 .. N - 1
Slots == 0 .. N - 2

\* What a segment holds: cleared, or the data from s to d for n elements.
Zero == <<0, 0, 0>>
Data(s, d, n) == <<s, d, n>>

Unmapped == <<>>

Init ==
    /\ config \in Configs
    /\ plan = Plan(config)
    /\ at = [r \in Ranks |-> 1] /\ aborted = FALSE
    /\ allocated = {} /\ remoteSdmaSignals = [r \in Ranks |-> Unmapped]
    /\ elems = [r \in Ranks |-> 0]
    /\ launched = [r \in Ranks |-> 0] /\ done = [r \in Ranks |-> 0]
    /\ triggerFlag = [r \in Ranks |-> Garbage]
    /\ posted = [r \in Ranks |-> [p \in Ranks |-> 0]]
    /\ executed = [r \in Ranks |-> [p \in Ranks |-> 0]]
    /\ sdmaSignals = [r \in Ranks |-> [i \in Slots |-> Garbage]]
    /\ counters = [r \in Ranks |-> [p \in Ranks |-> 0]]
    /\ inputBuf = [r \in Ranks |-> [s \in Ranks |-> Zero]]
    /\ resultBuf = [r \in Ranks |-> [s \in Ranks |-> Zero]]
    /\ nErrors = [r \in Ranks |-> 0]

AllGather == config.coll = "allgather"
Triggered == config.deviceTriggered
Targets(r) == IF AllGather THEN Ranks \ {r} ELSE Ranks

-----------------------------------------------------------------------------
(* The ranks *)

Step(r) == plan[at[r]]
At(r, ops) == ~aborted /\ at[r] <= Len(plan) /\ Step(r).op \in ops
Advance(r) == at' = [at EXCEPT ![r] = @ + 1]
AtEnd(r) == at[r] > Len(plan)

\* initialize: bootstrapMPI, the device and the endpoint.
Initialize(r) ==
    /\ At(r, {"initialize"})
    /\ Advance(r)
    /\ UNCHANGED <<stillVars, elems, launched, nErrors, resVars, gpuVars, engineVars, memVars>>

\* Device memory is not cleared.
AllocateBuffers(r) ==
    /\ At(r, {"allocateBuffers"})
    /\ Advance(r)
    /\ allocated' = allocated \cup {r}
    /\ UNCHANGED <<stillVars, elems, launched, nErrors, remoteSdmaSignals, gpuVars, engineVars,
                   memVars>>

SetupQueues(r) ==
    /\ At(r, {"setupQueues"})
    /\ Advance(r)
    /\ UNCHANGED <<stillVars, elems, launched, nErrors, resVars, gpuVars, engineVars, memVars>>

\* setupIpcHandles, behind its MPI_Allgathers: the peers' buffers and signals.
SetupIpcHandles(r) ==
    /\ At(r, {"setupIpcHandles"})
    /\ Advance(r)
    /\ remoteSdmaSignals' = [remoteSdmaSignals EXCEPT ![r] =
           [i \in Slots |-> LET p == CHOOSE q \in Ranks \ {r} : peerToLocalIndex(r, q) = i
                            IN  myIndexOnPeer(r, p)]]
    /\ UNCHANGED <<stillVars, elems, launched, nErrors, allocated, gpuVars, engineVars, memVars>>

\* One of them, or a HIP call of the benchmark, fails: the job ends.
Abort(r) ==
    /\ At(r, {"initialize", "allocateBuffers", "setupQueues", "setupIpcHandles", "clear"})
    /\ aborted' = TRUE
    /\ UNCHANGED <<config, plan, at, elems, launched, nErrors, resVars, gpuVars, engineVars,
                   memVars>>

\* runBenchmark: the signals and the trigger, once.
ZeroSignals(r) ==
    /\ At(r, {"zero"})
    /\ Advance(r)
    /\ sdmaSignals' = [sdmaSignals EXCEPT ![r] = [i \in Slots |-> 0]]
    /\ triggerFlag' = [triggerFlag EXCEPT ![r] = 0]
    /\ UNCHANGED <<stillVars, resVars, elems, launched, nErrors, done, posted, executed,
                   counters, memVars>>

\* setupCollTest and the memset of the result buffer.
ClearResult(r) ==
    /\ At(r, {"clear"})
    /\ Advance(r)
    /\ elems' = [elems EXCEPT ![r] = Step(r).n]
    /\ resultBuf' = [resultBuf EXCEPT ![r] = [s \in Ranks |-> Zero]]
    /\ UNCHANGED <<stillVars, resVars, launched, nErrors, gpuVars, engineVars, inputBuf>>

\* initData: allgather works in place and fills its own segment, the same
\* data for everybody (destination N); alltoall fills the input buffer.
InitData(r) ==
    /\ At(r, {"initData"})
    /\ Advance(r)
    /\ IF AllGather
       THEN /\ resultBuf' = [resultBuf EXCEPT ![r] =
                   [s \in Ranks |-> IF s = r THEN Data(r, N, elems[r]) ELSE Zero]]
            /\ UNCHANGED inputBuf
       ELSE /\ inputBuf' = [inputBuf EXCEPT ![r] =
                   [s \in Ranks |-> Data(r, s, elems[r])]]
            /\ UNCHANGED resultBuf
    /\ UNCHANGED <<stillVars, resVars, elems, launched, nErrors, gpuVars, engineVars>>

\* What initData expects in segment s of rank r.
Expected(r, s) == Data(s, IF AllGather THEN N ELSE r, elems[r])

\* preprogramIterations: wait_flag_then_put, signal and counter for each peer.
PreprogramIterations(r) ==
    /\ At(r, {"preprogram"})
    /\ Advance(r)
    /\ posted' = [posted EXCEPT ![r] =
           [p \in Ranks |-> IF p \in Targets(r) THEN @[p] + Step(r).n ELSE @[p]]]
    /\ UNCHANGED <<stillVars, resVars, elems, launched, nErrors, done, triggerFlag,
                   engineVars, memVars>>

\* MPI_Barrier, MPI_Allreduce, MPI_Allgather: left when all have entered.
Barrier(r) ==
    /\ At(r, {"barrier"})
    /\ \A p \in Ranks : at[p] >= at[r]
    /\ Advance(r)
    /\ UNCHANGED <<stillVars, resVars, elems, launched, nErrors, gpuVars, engineVars, memVars>>

\* runColl: an asynchronous launch.
RunColl(r) ==
    /\ At(r, {"launch"})
    /\ Advance(r)
    /\ launched' = [launched EXCEPT ![r] = @ + 1]
    /\ UNCHANGED <<stillVars, resVars, elems, nErrors, gpuVars, engineVars, memVars>>

\* hipDeviceSynchronize, hipEventSynchronize.
Synchronize(r) ==
    /\ At(r, {"sync"})
    /\ done[r] = launched[r]
    /\ Advance(r)
    /\ UNCHANGED <<stillVars, resVars, elems, launched, nErrors, gpuVars, engineVars, memVars>>

ValidateResults(r) ==
    /\ At(r, {"validate"})
    /\ Advance(r)
    /\ nErrors' = [nErrors EXCEPT ![r] =
           @ + Cardinality({s \in Ranks : resultBuf[r][s] # Expected(r, s)})]
    /\ UNCHANGED <<stillVars, resVars, elems, launched, gpuVars, engineVars, memVars>>

\* cleanup: mappings closed, queues destroyed, buffers freed.
Cleanup(r) ==
    /\ At(r, {"cleanup"})
    /\ Advance(r)
    /\ remoteSdmaSignals' = [remoteSdmaSignals EXCEPT ![r] = Unmapped]
    /\ allocated' = allocated \ {r}
    /\ UNCHANGED <<stillVars, elems, launched, nErrors, gpuVars, engineVars, memVars>>

HostStep(r) ==
    \/ Initialize(r) \/ AllocateBuffers(r) \/ SetupQueues(r) \/ SetupIpcHandles(r)
    \/ ZeroSignals(r) \/ ClearResult(r) \/ InitData(r)
    \/ PreprogramIterations(r) \/ Barrier(r) \/ RunColl(r) \/ Synchronize(r)
    \/ ValidateResults(r) \/ Cleanup(r)

-----------------------------------------------------------------------------
(* The kernels *)

Running(r) == ~aborted /\ done[r] < launched[r]
expectedSignal(r) == done[r] + 1

\* sdmaAllgatherKernel, sdmaAlltoallKernel: the warp of each peer posts put,
\* signal and counter.  The queues are separate, so the order of the warps is
\* the order in which the engines get to them.
KernelPuts(r) ==
    /\ Running(r) /\ ~Triggered
    /\ \A p \in Targets(r) : posted[r][p] < expectedSignal(r)
    /\ posted' = [posted EXCEPT ![r] =
           [p \in Ranks |-> IF p \in Targets(r) THEN @[p] + 1 ELSE @[p]]]
    /\ UNCHANGED <<hostVars, done, triggerFlag, engineVars, memVars>>

\* allgatherTriggerKernel, alltoallTriggerKernel: thread 0.
KernelTriggers(r) ==
    /\ Running(r) /\ Triggered
    /\ triggerFlag[r] < expectedSignal(r)
    /\ triggerFlag' = [triggerFlag EXCEPT ![r] = @ + 1]
    /\ UNCHANGED <<hostVars, done, posted, engineVars, memVars>>

Issued(r) ==
    IF Triggered THEN triggerFlag[r] >= expectedSignal(r)
                 ELSE \A p \in Targets(r) : posted[r][p] >= expectedSignal(r)

\* Mutant: the self-copy is not waited for.
WaitedPeersOnly(r) ==
    /\ \A i \in Slots : sdmaSignals[r][i] >= expectedSignal(r)
    /\ \A p \in Targets(r) \ {r} : counters[r][p] >= expectedSignal(r)
\* waitSignal on every slot, waitCounter for every peer.
Waited(r) ==
    /\ \A i \in Slots : sdmaSignals[r][i] >= expectedSignal(r)
    /\ \A p \in Targets(r) : counters[r][p] >= expectedSignal(r)

KernelEnds(r) ==
    /\ Running(r) /\ Issued(r) /\ Waited(r)
    /\ done' = [done EXCEPT ![r] = @ + 1]
    /\ UNCHANGED <<hostVars, triggerFlag, posted, engineVars, memVars>>

KernelStep(r) == KernelPuts(r) \/ KernelTriggers(r) \/ KernelEnds(r)

-----------------------------------------------------------------------------
(* The engines *)

\* The packets of one iteration in the queue from r to p.
Packets(r, p) == IF r = p THEN <<"put", "counter">> ELSE <<"put", "signal", "counter">>

Pending(r, p) == executed[r][p] < posted[r][p] * Len(Packets(r, p))
PacketKind(r, p) == Packets(r, p)[(executed[r][p] % Len(Packets(r, p))) + 1]
PacketIteration(r, p) == executed[r][p] \div Len(Packets(r, p)) + 1

\* The copy of an iteration.  wait_flag_then_put takes the destination before
\* the source; the device-triggered programs pass the source first, so their
\* copy runs from the peer's segment into the rank's own.
Copy(r, p) ==
    IF AllGather
    THEN IF Triggered
         THEN /\ resultBuf' = [resultBuf EXCEPT ![r][r] = resultBuf[p][r]]
              /\ UNCHANGED inputBuf
         ELSE /\ resultBuf' = [resultBuf EXCEPT ![p][r] = resultBuf[r][r]]
              /\ UNCHANGED inputBuf
    ELSE IF Triggered
         THEN /\ inputBuf' = [inputBuf EXCEPT ![r][p] = resultBuf[p][r]]
              /\ UNCHANGED resultBuf
         ELSE /\ resultBuf' = [resultBuf EXCEPT ![p][r] = inputBuf[r][p]]
              /\ UNCHANGED inputBuf

ExecutePut(r, p) ==
    /\ PacketKind(r, p) = "put"
    /\ Triggered => triggerFlag[r] >= PacketIteration(r, p)
    /\ Copy(r, p)
    /\ UNCHANGED <<sdmaSignals, counters>>

ExecuteSignal(r, p) ==
    /\ PacketKind(r, p) = "signal"
    /\ sdmaSignals' = [sdmaSignals EXCEPT ![p][remoteSdmaSignals[r][peerToLocalIndex(r, p)]] = @ + 1]
    /\ UNCHANGED <<counters, memVars>>

ExecuteCounter(r, p) ==
    /\ PacketKind(r, p) = "counter"
    /\ counters' = [counters EXCEPT ![r][p] = @ + 1]
    /\ UNCHANGED <<sdmaSignals, memVars>>

EngineStep(r, p) ==
    /\ ~aborted /\ Pending(r, p)
    /\ ExecutePut(r, p) \/ ExecuteSignal(r, p) \/ ExecuteCounter(r, p)
    /\ executed' = [executed EXCEPT ![r][p] = @ + 1]
    /\ UNCHANGED <<hostVars, gpuVars>>

-----------------------------------------------------------------------------

Progress ==
    \/ \E r \in Ranks : HostStep(r) \/ KernelStep(r)
    \/ \E r, p \in Ranks : EngineStep(r, p)

Next == Progress \/ \E r \in Ranks : Abort(r)

\* Ranks run, kernels are scheduled and engines take packets: as long as a
\* step is possible, one is taken.  Every step moves forward.
Spec == Init /\ [][Next]_vars /\ WF_vars(Progress)

-----------------------------------------------------------------------------
(* Properties *)

\* A device-initiated collective delivers exactly what initData expects on
\* every rank and for every size: no rank compares its buffer before the last
\* peer has written it, or writes a peer's buffer before the peer cleared it.
ValidatedExact == ~Triggered => \A r \in Ranks : nErrors[r] = 0

\* The same for the device-triggered programs.
TriggeredExact == Triggered => \A r \in Ranks : nErrors[r] = 0

\* Whatever is in a queue finds both ends: when a rank closes its mappings,
\* destroys its queues and frees its buffers, no packet is left that reads or
\* writes them, its own or a peer's.
CleanupDrained ==
    \A r, p \in Ranks : Pending(r, p) => {r, p} \subseteq allocated /\ (p = r \/ remoteSdmaSignals[r] # Unmapped)

\* Unless the job is aborted, every rank comes to the end of the sweep: the
\* signal values kernels wait for agree with those the peers' queues add up.
AllFinish == <>(aborted \/ \A r \in Ranks : AtEnd(r))
============================================================================
