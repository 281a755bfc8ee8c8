# A TLA+ verification of rocm-xio

rocm-xio lets GPU kernels drive I/O devices without the CPU on the data path: NVMe SSDs, RDMA NICs and
the SDMA engines.  This directory holds TLA+ models of the parts of it where something can go wrong that
a test would hardly reach, the configurations that model-check them with TLC, and proofs that TLAPS
checks.  `PROJECT.json` lists the components, the runs, the source lines each definition stands for, the
hazards and the theorems; source paths below are relative to the repository.

    tlc -config SdmaRing.cfg MCSdmaRing        # any run: its cfg and its MC module
    tlapm SdmaRing_proofs.tla                  # the proofs

## 1. The system and its parts

| Part | Where | State | Operations | Hard behaviour |
|---|---|---|---|---|
| SDMA device queue | `src/endpoints/sdma-ep/sdma_device.hpp` | ring, `cachedWptr`, `committedWptr`, `wptr`, doorbell, `rptr`; per thread an `SdmaQueueState` | reserve, place, submit, `quietAll`, and put/signal/counter/tile on top | threads race by CAS, stale read index, ordered publication, wrap padding |
| SDMA host queue, queue management | `sdma-host-queue.hip`, `anvil.hip`, `sdma-ep.hip` | the same ring from the host; KFD queues, channels | `put`, `submit`, `quiet`; create, release, engine choice | padding, life cycle with failures |
| SDMA packets | `sdma_packets.hpp`, `sdma_pkt_struct*.h` | bit fields | builders of copy, tile, atomic, fence, poll, timestamp packets | field widths, halves of addresses |
| SDMA collectives | `examples/sdma-ep-collectives` | per-rank buffers, signals, triggers | all-gather and all-to-all, set-up, sweep, clean-up | ranks without a common clock, running totals |
| NVMe I/O kernels | `src/endpoints/nvme-ep/nvme-ep.hip` | SQ/CQ rings, doorbells, tail, head, phase | single and cooperative batch loop, stateful launch, persistent kernel | wraps and phases, any completion order, errors, timeouts, stop |
| NVMe queue life cycle | `nvme-ep.hip`, `createQueue` .. `run` | queues on the controller, mappings, quiesced namespaces | create, delete, run, clean up | partial failure, kill, order of quiesce and create |
| Kernel module: quiesce | `kernel/rocm-xio/rocm-xio.c` | `quiesced_ns`, `quiesce_depth`, stopped hctx | QUIESCE_NS, UNQUIESCE_NS, release | mutex, a drain that sleeps under it, process death |
| Kernel module: contiguous memory | `rocm-xio.c` | `contig_allocs`, reference counts | ALLOC, FREE, mmap, VMA callbacks, release | free against mmap, fork of mappings |
| Kernel module: registries | `rocm-xio.c` | `queue_addrs`, `vram_buffers`, dma-buf attachments | REGISTER/UNREGISTER, kprobe on `nvme_submit_user_cmd`, release | stale entries, failing steps |
| Kernel module: load and unload | `rocm-xio.c` | probes, pending snapshots, works, device references | init, kretprobes, snapshot work, device look-ups, exit | exit racing probes and works, failing steps |
| Kernel module: resurrection | `rocm-xio.c` | `poisoned_qids`, snapshots, delayed work | kprobe, work, module's admin commands | work racing commands, failed allocation, reset |
| fio engine | `docker/rocm-xio-engine` | io_u ring, work ring, counters | queue, getevents, post, reap, close | three rings of different size, sequence numbers |
| RDMA data path | `src/endpoints/rdma-ep` | send and completion queue of four providers | post, doorbell, quiet, the kernels | ring counting, lap bits, early return |
| RDMA backends | `gda-backend.cpp`, `*-backend.cpp` | verbs objects, buffers, registrations, the GPU `QueuePair` | `init`, `shutdown` of four providers | a failure of any call, order of release |
| RDMA runs | `rdma-ep.hip`, `tcp-exchange.hpp` | sockets, buffer, kernels | loopback, two-node write and ping-pong | two processes, two kernels, syncs |
| RDMA libraries, topology | `ibv-wrapper.cpp`, `rdma-numa-wrapper.cpp`, `rdma-topology.cpp`, `bnxt-dv-sizing.hpp` | function tables | load, choose NIC and GID, size queues | missing symbols, ties |
| test-ep | `src/endpoints/test-ep` | rings between GPU and CPU threads | doorbell and polling modes, emulation | threads waiting for each other, stop |
| Registry, common helpers, tester, Python, scripts | `src/common`, `src/tester`, ... | little | parsing, lookups, printing | |

How they interact: the tester (or a library user) selects an endpoint and calls its `run`.  The NVMe
endpoint opens `/dev/rocm-xio`, allocates rings and buffers there (contiguous memory, registries), stops
the block layer's use of the queue ID (quiesce), sends DELETE and CREATE commands through the kernel's
NVMe driver, where the module's kprobe rewrites addresses and records which queue IDs were taken
(resurrection), launches a GPU kernel on the new queue pair, and undoes all of it.  The fio engine does
the same around a persistent kernel.  The RDMA and SDMA endpoints need no kernel module: the first builds
queue pairs through verbs, the second through KFD.

## 2. The modules

Every module keeps the control of the code (guards, early returns, error paths, order of stores) and
abstracts the data: a packet, command or work request is a small record that says which operation it
belongs to.  Operators that sit before a definition and carry its name with a suffix (`HasSpaceFull`
before `HasSpace`) are mutations of it: with the definition replaced by one of them a property fails,
which shows that the property depends on that line of code.  They are listed under `mutants`.

### SdmaPackets, SdmaRing, SdmaFifo (MCSdmaRing)
`SdmaPackets` says which packets an operation places, in which order and how long they are
(`put_signal_counter_impl`, with and without the OSS7 fused packet).  `SdmaRing` is `SdmaQueueHandle`:
each GPU thread goes through `ReserveLoad`, `CanWriteCached` or `CanWriteUpto`, `ReserveCas`,
`PlacePacket` (once per packet), `SubmitWait`, `StoreWptr`, `RingDoorbell`, `StoreCommitted`; and
`QuietAll`/`QuietReturn`.  Every access to shared memory is a step of its own.  Indices are absolute, as
in the code; they are 64-bit there and do not wrap in practice, so they are naturals here.  The unsigned
comparison of `CanWriteUpto` with an index behind the read pointer is kept.  The engine is external: it
performs the packet at `rptr` while `rptr` is below the doorbell.  `SdmaFifo` is what the ring promises: a
queue to which a thread appends one operation as an uninterrupted run of packets, and from which the
engine takes them in order.  `MCSdmaRing` gives the mapping.

### SdmaWire
What the builders write into each bit field (a value modulo the field's size) and what the engine reads out of
it.  `SdmaPackets` and `SdmaRing` use only the packets' kinds and lengths; `MCSdmaRing` extends all three.

### SdmaCollective
The example programs: a rank's program is a plan (set-up, the sweep over sizes, validation, clean-up) that it
goes through step by step, with kernels on its stream and one engine queue per peer.  MPI calls are barriers.
Memory content is which data a segment holds, so a write that comes too early or too late shows.

### KmodQuiesce
A thread's QUIESCE_NS is `QuiesceNs`, `QuiesceLock`, `QuiesceDrain`, `StopHwQueue`, `EndBriefQuiesce`,
`ListAdd`, so the sleep inside the mutex and the steps after it are visible to others; UNQUIESCE_NS is
`UnquiesceFind` under the mutex and `UnquiesceApply` after it; `Release` splices a file's entries to a
private list that `ReleaseEntry` works off.  The block layer is external: `Dispatch` and `DispatchDone` on
each hardware queue.

### KmodContig
Reference counts of DMA allocations under `AllocContig`, `ReadId`, `CopyToUser(Fails)`, `MmapContig`, `MmapDone`,
`MmapFails`, `ContigVmaOpen`, `ContigVmaClose`, `FreeContig`, `FreePut`, `ReleaseFile`, `ReleasePut`.  The list
lock makes each of them atomic; what the code does after dropping the lock is the next step.  Ids are given out in
order and an entry is listed before ALLOC_CONTIG_QUEUE returns, so a second thread of the file may name an allocation
that is still being made; `overtaken` records the two orders in which that goes wrong (section 6).  The names of its
specification (`ContigInit`, `ContigSpec`, ...) let `KmodFiles_proofs` extend it beside `KmodQuiesce`.

### KmodRegistry
The two address lists as sets of entries, each with the number `at` of its `list_add`: a lookup walks a list from
its newest entry, so it finds the one with the largest `at` that covers the address (`FirstOf`).  The kprobe reads the
lists in separate lock sections: `KprobeCreate`, `KprobePrp2` and `KprobeHijack` for a queue, `KprobeIo` and `KprobeIoPrp2`
for the two data pointers of an I/O command.  Buffers have one or two pages and a pointer may lead into the middle of
one.  `RegisterBuffer` acquires the five parts of an
attachment one by one and may fail at each.  `REGISTER_QUEUE_ADDR` never assigns the `owner` field of its
kmalloc'ed entry: the model gives it any value.

### KmodResurrect
A session is a process that takes over one queue ID: quiesce (which may fail, and `run()` goes on), DELETE_SQ,
DELETE_CQ, CREATE_CQ, CREATE_SQ, a run, DELETE_SQ, DELETE_CQ, resume.  The controller may refuse any command, the
set-up may fail before it has deleted anything, and the process may be killed between two ioctls.  The names of its specification (`ResurrectInit`, `ResurrectSpec`, ...) let
`KmodModule_proofs` extend it beside `KmodModule`.  The kprobe's bookkeeping, the scheduling of the work, and the command's
arrival at the controller are separate steps.  The work (`ResurrectStart`, `ResurrectCq`, `ResurrectSq`,
`ResurrectReset`, `ResurrectDone`) re-creates the kernel's queue from a snapshot and writes the ring
pointers back.  `lost` is the set of sessions whose queue the resurrection cannot give back; the comment of `Restored`
lists the ways into it.  Kernel I/O to a missing queue wedges the controller until it is reset.

### KmodModule, KmodAddress
`KmodModule` is the module's own life: `rocm_xio_init` step by step with the undo of a step that fails, the
kretprobes that put captured NVMe queues on `pending_snapshots`, the work that turns them into snapshots with
a reference on the PCI device, the requests that look a device up, the resurrect work as far as the work queue and
its device reference (`held`) go, and `rocm_xio_exit`.  The lists of the other modules are here only empty or not.  `KmodAddress` has the packing of PCI addresses and the guest address of a
GPU buffer; it is evaluated with `MCKmodModule` and proved about.

### NvmeQueue, with NvmeBatch and FioEngine on top; NvmePrp
`NvmeQueue` is one queue pair and an external controller that fetches in order, executes in any order, may
fail a command, and posts completions with a phase that flips at each wrap if there is room.  `NvmeBatch` is
`driveEndpointSingle` and `driveEndpointWavefront` (chosen by the batch size, as in `driveEndpoint`), with
timeouts, errors and stops, and `gpuKernelStateful`, which keeps tail, head and phase in memory between
launches.  `FioEngine` is the fio thread (`QueueIo`, `Publish`, `Reap`, `CloseFile`), the persistent kernel and
the work ring between them, with counters that wrap at `WordSize`.  `NvmePrp` is the pure part of a command:
its PRP words and list, the list `rxio_prp_prefill` stores beforehand for a kernel that is given no place for one, the
list's place in the pool, the blocks, and the status test.  The checks by which `nvmePrepareSqe` refuses a command are not in
`PrepareSqe`: `run()` and `validateConfig` have refused every configuration in which one could fire
(`nvme-ep.hip:2019-2041`, 1546-1560, 2312-2337).  `BatchAssumption` says what the stateful kernel leaves to its caller:
neither it nor `rxio_submit` clamps a launch, so it must be shorter than the queue.

### RdmaEndpoint
One GPU thread that posts work requests, rings the doorbell and waits in `quiet`, for the four providers as
coded: `ErnicPoll` and `BnxtPoll` with indices modulo the ring, `Mlx5Enter`/`Mlx5Poll` and `IonicPoll` with
free-running counters that wrap at `Word`.  bnxt derives its head from the completion's 16-bit `con_indx`, so
`ConfigAssumption` has the ring divide the slots of a whole range of it (section 6).  `BnxtPoll` leaves its CQ index unsaved
when it stops, as the code does; every later call returns on its first look at the stop flag.  ionic's 32-byte completion
format has no action: `init()` never asks for it.  A configuration names provider, depths, kernel
(`rdma_ep_kernel`, `rdma_ep_batch_kernel`, or a caller of the `QueuePair` interface) and counts.  mlx5's
`available_slots` starts with any value of `Uninitialised`; `guessed` says that its loop has ended on such a
value.  The NIC is external.

### RdmaBackend, RdmaRun (MCRdmaRun)
`init()` is some thirty calls, each of which can fail with a different effect: the process aborts, the function
returns and `init()` goes on, `init()` fails, or the failure is only logged.  So the calls are data (`InitScript`,
built from one operator per function of the four providers) and two actions execute them.  `live` is what
exists, `held` what fields name; the gap between the two is what leaks.  The dmabuf descriptors of bnxt's completion queue
buffers, and the bridge's mapping and its registration with HIP, are resources of their own.  `shutdown()` releases the first field of
`ShutdownOrder` that is not null, until none is left, and the destructor calls it again.  `RdmaRun` puts the
endpoint on top: the plan of a server and a client (`TwoNodePlan`) or of loopback mode, TCP, the keys with their
byte order, the write test, both ping-pong kernels, and a clean-up all error paths share.

### RdmaLibs, RdmaTopology, BnxtSizing
Pure functions, extended by `MCRdmaRun`.  `RdmaLibs` is which symbols a library load leaves assigned, and what
is called afterwards.  `RdmaTopology` is the choice of a GID and of the NICs closest to a GPU, as recursive
functions over the lists, with the best entry as reference.  `BnxtSizing` is the size of rings and tables, and `LapsWhole`
there is the fact `RdmaEndpoint` assumes of the ring.  `RdmaLibs` has no `dmabuf_enabled_`: nothing assigns it after its initial value.
The named `ASSUME`s of the last two compare them with their references over every input within the bounds.

## 3. The runs

| Run | States | What it shows |
|---|---|---|
| `sdma_ring` | 102,902 | `NoOverwrite`, `EngineReadsPlaced`, `QuietCompletes`, `SubmitTerminates`; `ImplementsFifo` |
| `sdma_collective` | 344,373 | `ValidatedExact`, `CleanupDrained`, `AllFinish` |
| `sdma_collective_triggered` | | violates `TriggeredExact` (section 6) |
| `kmod_quiesce` | 48,258 | `CountsExact`, `Isolated`, `CrashResumes` |
| `kmod_contig` | 54,609 | `NoUseAfterFree`, `AllFreed` |
| `kmod_resurrect` | 396,824 | `PairedQueues`, `Restored` |
| `kmod_registry` | 908,238 | `InjectedOwn`, `AttachmentsExact` |
| `kmod_module` | 615,066 | `PciRefsExact`, `TeardownQuiet`, `UnloadedClean`, `CaptureDrained` |
| `nvme_batch` | 46,562 | `EachOpOnce`, `NoPhantom`, `BufferExclusive`, `ReadBack`, `RunCompletes`, `StopEnds` |
| `fio_engine` | 158,632 | `ReapedExecuted`, `InOrderOnce`, `IoCompletes`, `CloseEnds` |
| `rdma_endpoint` | 21,086 | `QuietWaits`, `NoOverwrite`, `RunEnds` |
| `rdma_run` | 93,348 | `QpBacked`, `HeldLive`, `SyncsOrder`, `NoLateWrite`, `ShutdownReleases`, `BothEnd` |

Each property is stated in words above its definition.  `ShutdownReleases` is an upper
bound on what remains after `run()`, so it is also the list of what the code may leave behind.

### Bounds, and why they are enough
- `sdma_ring`: two threads, one with and one without an `SdmaQueueState`, two operations each, on a ring of 8
  dwords with packets of 1 to 3.  Four operations of up to 3 dwords overrun the ring, so it wraps, pads and
  fills; two threads suffice for each pairwise race, and the proofs cover any number.
- `sdma_collective`: three ranks where the slots of the peers differ, two for the programs with a self-copy; a
  skipped size and two that run, two timed launches each, so that running totals span launches and sizes.
- `kmod_quiesce`: two threads on one file and one on another; three hardware queues, so that two files can
  isolate different ones beside a free one; `t1` also asks for a queue that does not exist.
- `kmod_contig`: two allocations, two mappings of each per file, two threads of one file and one of another.
- `kmod_resurrect`: two sessions on two queue IDs of one controller, so that one's commands meet the other's work; one
  failed allocation, refusals, kills and a reset at any time, with and without snapshots.  With the sessions on the same
  queue ID of two controllers (`TwoControllers`) both properties hold too, in about ten minutes.
- `kmod_registry`: two processes one after the other, three allocations, two pages below 4 GiB, which is where the kprobe
  replaces data pointers, and buffers of one and of two pages; addresses are reused, so stale entries match.  `InjectedOwn` needs
  `OneAtATime`: the lists are keyed by virtual address alone, so of two live processes with the same address
  both get the newer registration.
- `kmod_module`: two queues of one NVMe device, one bridge with and one without a shadow address, three calls of
  the driver or of user space and one failing kernel call: enough for a capture that updates a snapshot in
  place, a driver that leaves between capture and look-up, and an exit in the middle of each.
- `nvme_batch`: rings of 4 and up to 7 operations, batches of 1, 2 and 4 (clamped to 3), launches of the stateful
  kernel with up to 3 commands.  `fio_engine`: an iodepth of 2 over an io_u ring of 3 and rings of 2, with 7
  io_us: all three wrap at different times.  `WordSize` is 32, more than the 2 * 7 + 2 sequence numbers in use.
- `rdma_endpoint`: rings of 4 work requests (12 slots for bnxt), a completion queue of 4, counters that wrap at
  8, up to 9 work requests: more than two laps of the rings and one wrap of every counter.  Left out, because
  the code does not support them (section 6): a full ring for bnxt and ernic, the batch kernel on ernic, and
  mlx5 runs longer than the ring that drain in between.
- `rdma_run`: every provider in loopback mode and two of them on two nodes, one failing call anywhere, two rounds
  of ping-pong, so that a kernel meets the sequence number of the round before.

Deadlock is checked where the system never stops by itself (`sdma_ring`, `kmod_quiesce`); the others have runs
that end, or processes that exit, or a bound on allocations.

### Fairness
Weak fairness on a thread's own steps: a launched wave is resident and is scheduled, an ioctl that has begun
runs on, a pending work item runs.  Strong fairness in two places: on taking the kernel mutex, which is fair to waiters,
and on the end of the resurrect work in `KmodModule`, which goes through a finite list whose length is not modelled there.
Fairness of a device (`ControllerFairness`, `NicFairness`) is a premise of exactly those properties that need a
working device (`RunCompletes`, `IoCompletes`, the first part of `RunEnds`); stopping and closing (`StopEnds`,
`CloseEnds`, the second part of `RunEnds`) are shown without it.  `sdma_ring` assumes that every producer is its
own wave: whether a lane spinning on `committedWptr` can starve the lane it waits for in the same wave is up to
the GPU's scheduler.  `sdma_collective` and `rdma_run`, in which every behaviour is finite,
assume only that some step is taken as long as one is possible.  No fairness on timeouts, stops, failures or the kernel's own I/O.

## 4. What is proved

A leaf names `Zenon` where first-order reasoning is enough and leaves the rest to SMT: tlapm's translation
for SMT becomes slower with every obligation of a module that goes through it, and in the larger modules the
last leaves would run out of time.  What tlapm spends on a leaf also grows with the statements before it, so in
`RdmaRun_proofs` a lemma that serves one result is a step of its proof; that module takes about 20 minutes.

### The shared ring and the DMA allocations
`SdmaRing_proofs` proves the safety of the shared ring for every set of threads, ring size, packet lengths and
operations that satisfy `RingAssumption` and `BatchFits` (a batch with its padding fits an empty ring: the code
never checks this, and a batch longer than half of the ring can spin for ever); `MaxOps` is only a bound on
behaviours.  Its first lemmas are the arithmetic of indices modulo the ring size.

| Theorem | Statement |
|---|---|
| `TypeCorrect` | `[]TypeOK` |
| `NeverOverwrites` | `[]NoOverwrite`: never more than the ring between `rptr` and `cachedWptr` |
| `DisjointRegions` | `[]RegionsDisjoint`: two successful CASes own disjoint regions |
| `PlacementInBounds` | `[]PlacedInBounds`: no store past the end of the buffer |
| `ExclusivePublication` | `[]PublishExclusive`: one thread at a time stores wptr, doorbell, committedWptr, the oldest first |
| `EngineSeesWholePackets` | `[]EngineReadsPlaced`: below the doorbell there are whole packets placed for these indices |
| `MonotonePointers` | `PointersMonotone`: the published pointers never move backwards |

The inductive invariant `IInv` strengthens these in four ways.  `PointerInv` says where the shared pointers are:
equal when nobody publishes, and between the publisher's `base` and `pending` otherwise.  `ReserveInv` says what
a thread knows before its CAS: its padding belongs to the index it loaded, and at the CAS there was room, a
fact that cannot become false, because `rptr` only grows; this is why deciding on a stale read index is safe.
`RegionInv` says that an owner's region lies between `committedWptr` and `cachedWptr`.  `ContentInv` says that
the ring between `rptr` and the doorbell, and between an owner's `base` and `pending`, is tiled by whole packets
placed for exactly those indices.  `NoOverwrite` alone is not inductive: that a CAS keeps it needs `ReserveInv`.
That `PlacePacket` destroys nobody's packet needs that different indices less than a ring apart have different
slots (`WrapDistinct`), which is where disjointness of regions and `NoOverwrite` meet.  The proof has one lemma
for each action (`ReserveCasStep`, `PlacePacketStep`, ...) and combines them in `NextIInv`.

`KmodFiles_proofs` proves the safety of the DMA allocations for every finite set of threads, any files, and any
number of allocations and mappings (`MaxId`, `MaxVmas` only bound behaviours).

| Theorem | Statement |
|---|---|
| `NeverFreedInUse` | `[]NoUseAfterFree`: memory that is listed, mapped or in the hands of a call was not freed |
| `NeverLost` | `[]NothingLost`: an allocation that was not freed has a user left, and the `pci_dev` is held once for each |

Both speak of behaviours in which no thread has overtaken an ALLOC_CONTIG_QUEUE (section 6).

The centre of its `IInv` is `KrefInv`: the count of a live entry is the number of its holders.  That is not
inductive alone.  `ListInv` says that the list, the release's private list and a FREE between its unlink and its put
share one reference and exclude each other, so none of them puts it a second time.  `OwnerInv` says that all other
holders are threads and mappings of the owner, which is what makes a release find none.  `AllocInv` says that an
allocation is made by one thread and listed while that thread reads its id.  The failed `copy_to_user` of ALLOC_CONTIG_QUEUE
frees the entry without looking at its count: that keeps `IInv` only if the list is the entry's one holder, so the theorem
is about `~overtaken => IInv` (`Safe`), which holds because what was overtaken stays so.
`PutStep` is the argument of every `kref_put`; the lemmas of the actions show who ceased to hold.

### The kernel module
The theorems below hold for every value of the constants that satisfies the assumption of the module (finitely many
threads, queues or processes where something is counted), and for the hypothesis named in the table.

| Module | Theorem | Statement | Hypothesis |
|---|---|---|---|
| `KmodFiles_proofs` | `CountsStayExact` | `[]CountsExact` | |
| | `IsolationHolds` | `[]Isolated` | `OwnQueues`: no two threads name the same single hardware queue |
| `KmodModule_proofs` | `PciRefsStayExact`, `TeardownStaysQuiet`, `UnloadedStaysClean` | `[]PciRefsExact`, `[]TeardownQuiet`, `[]UnloadedClean` | |
| | `QueuesStayPaired` | `[]PairedQueues` | `OneSession`: each queue is taken over by one process at most |
| `KmodRegistry_proofs` | `AttachmentsStayExact` | `[]AttachmentsExact` | |
| | `InjectedStaysOwn` | `[]InjectedOwn` | `OneAtATime`: a process starts when the others have ended |

The hypotheses are the callers' part of the contract, and each is needed: without it TLC finds the property violated on
a small instance (sections 3 and 6).  The instances of section 3 satisfy them.

`KmodFiles_proofs`, about `KmodQuiesce`: the counts need `LockInv` (the critical steps of QUIESCE_NS are those of the one thread that holds
the mutex, and its entry is not yet listed, so `ListAdd` adds a new one) and `OpenInv` (ioctls run on open files and a
release's private list is of a closed one, so the two never work on the same entry).  Isolation needs, besides, that
the flag of a hardware queue stays set from the stop to the restart (`StoppedInv`; here `OwnQueues` comes in, since
another thread's restart would clear it) and that nothing dispatches after the drain (`DrainedInv`).

`KmodModule_proofs`: `PciRefsExact` needs `WorkInv`, that the snapshot work has entries and a device in hand only while
it runs, so that the exit, which waits for the work, meets neither.  The teardown is `ExitInv`: what a step of
`rocm_xio_exit` has disposed of stays so (`Passed`).  That is inductive because of the order of the steps: the probes go
before the works they schedule, the works before the lists they fill.  `LoadInv` says that a load which fails in a
required step has nothing to undo but registrations.

`KmodModule_proofs` also holds the proof about `KmodResurrect`.  The two commands of a pair are separate steps, so `PairedQueues` needs to know what each creator
relies on in between: the work, that the session is away from the queue (`WorkPairInv`); the session, that the CQ is its
own or a reset gave both queues back (`SessionPairInv`); and that a CQ is missing only while the session that deleted it
is away (`MissingInv`).

`KmodRegistry_proofs`: attachments are accounted for by `PlaceInv` (an allocation has at most one entry, listed or on a
private list, and at most one call that registers it) and `HeldInv` (what is held follows from the entry or from how far
the call has come; `Unwind` is its error path).  The injection needs `NewestInv`: whatever else is listed for a page, the
entry of the memory that is there now is newer, which is what makes stale entries harmless; `PageInv`, that a page lies
where its entry says; and `LookupInv`, that the kprobe's later lookups find what the first one found although the lock
was dropped in between.

### The fio engine
| Theorem | Statement |
|---|---|
| `ExecutedInOrder` | `[]InOrderOnce`: the controller executes each io_u once and in order |
| `ReapedStaysExecuted` | `[]ReapedExecuted`: what fio is told is complete was executed |

`FioEngine_proofs` proves them for every iodepth, ring and queue size, under `NoWrap`: the sequence numbers of the
behaviour fit a counter, which in the code is the first 2^31 io_us of an open file.  After that `rxio_reap` compares
wrongly (section 6).  The invariant `FioInv` ties the three rings together: `CountInv` orders the thread's and
the kernel's counters, `RingInv` and `WorkInv` say that the places between them hold exactly the io_us that are out, with the
sequence numbers of their state, and `PairInv` follows the one command the kernel works on through doorbell, fetch,
execution and completion.  `PhaseInv` is what makes a stale completion entry recognisable: before the controller's tail
the entries have its phase, from there on the other one.

### The NVMe I/O kernels
| Theorem | Statement | Hypothesis |
|---|---|---|
| `ConsumedArePosted` | `[]NoPhantom`: every completion the driver consumed was posted in this pass of the ring | `OneDriver` |
| `OperationsOnce` | `[]EachOpOnce`: what the controller was told of is the start of the run, each operation once | `OneDriver` |
| `BuffersExclusive` | `[]BufferExclusive`: no two commands that are out share a buffer slot or PRP page | `OneDriver` |
| `ReadsFindWrites` | `[]ReadBack`: a verified read executes after its write was reported a success | `OneDriver`, no batch size 0 |

`NvmeBatch_proofs` proves them for every ring size, number of operations, batch size, order of completions and number of
launches of the stateful kernel, with errors, timeouts and stops.  `OneDriver` says that one wavefront drives the queue
pair, which is how the code launches every batch size but 0 (section 6).  Batch size 0 is the one `validateConfig` lets
through although `--verify` does not work with it.

`BatchInv` is the inductive invariant.  Its centre is `CountInv`: the four indices of the rings are counts of one run
(told, fetched, completed, consumed), each modulo the ring size, and at most one batch lies between consumed and told.
Since a batch is clamped to the ring less one place, a place determines the count it stands for; this is what
`EachOpOnce` rests on and does not say itself.  `SqInv` and `HeldInv` say that the entries not yet fetched and
the commands at the controller are exactly those of the batch; `OnceInv`, that what was fetched is completed or held.
`PhaseInv` makes an old completion recognisable: the entries before the controller's tail have its phase, the others the
other one, and the driver expects the other one exactly when the controller has wrapped and it has not.  For the stateful
kernel this is carried from launch to launch by `LoopInv` (`SavedState`).  `SerialInv` is for runs of batch size 1 alone.

### The RDMA data path
| Theorem | Statement | Hypothesis |
|---|---|---|
| `QuietWaitsForAll` | `[]QuietWaits`: `quiet` of each provider returns when everything posted has completed | `RingsFit` |
| `WritesOverCompleted` | `NoOverwrite`: no post overwrites a work request the NIC has not completed | `RingsFit` |

`RdmaEndpoint_proofs` proves them for the four providers, every depth of the rings, batch, number of iterations and size
`Word` of the counters.  `RingsFit` is what the code leaves to whoever sets the sizes: a batch, or what the send queue
holds, fits the completion queue; a send queue is at most half the range of a free-running counter, which is compared by
difference; and a kernel's batch leaves a slot of the ring free, which `validateConfig` sees to, as must a caller who posts
to bnxt or ernic (section 6).  Both theorems keep the exception for `guessed`, mlx5's unassigned `available_slots`.

The invariant `EndpointInv` needs a number the program does not keep: `h`, how many completions the thread has taken
since the start.  `\E h \in Nat : Held(h)` says that there is one.  `ConsumerInv` derives each provider's head
and CQ index from it (modulo the depth, twice the CQ, or `Word`), `OutstandingInv` bounds what is posted and not taken by
the ring and by the batch, and `FailureInv` says that a failure `quiet` has not met is still ahead of `h`.  `CqInv` is the
lap bit: the newest completions carry the bit of their lap, and every entry the NIC has yet to write carries the other.
`TailInv` and `DoorbellInv` tie the producer's side to the number of posts.  From these follows what neither property
says: the thread's modular arithmetic never confuses two counts, because fewer than a ring are outstanding.

### The RDMA backends and their runs
| Theorem | Statement |
|---|---|
| `RunInvariant` | `[]RunInv`, the inductive invariant |
| `NothingStandsOnNothing` | `[]QpBacked`: nothing exists without what it was created on, so no PD, CQ or umem goes before its user |
| `FieldsNameTheLiving` | `[]HeldLive`: a field `shutdown()` looks at is null or names something that exists, so nothing is released twice |
| `RunCleansUp` | `[]ShutdownReleases`: what is left when `run()` has returned is at most what that property lists |

`RdmaRun_proofs` proves them for every configuration (provider asked for, libraries installed, loopback or two nodes,
doorbell region, shared doorbell page, UAR, bridge), any number of failing calls, and any number of rounds, where
`rdma_run` has a handful of configurations and one failure.

A program is a sequence of calls put together from parts, and which call follows which is what the properties rest
on.  The sequences are of bounded length and written as literals, so no induction is needed: `QueuesOk` and
`LateScriptOk` go through the calls of `InitScript` provider by provider, and `OrderOk` through `ShutdownOrder`.  What they give is that each call finds
what its resource stands on among the earlier calls of the same function, and that `shutdown()` has the user
of a resource before the resource.

`RunInv` then speaks of one process by its values (`Good`).  None of the three properties is inductive: that a release
leaves `QpBacked` true needs that a user which exists also has a field (`Kept`), or else the order would not
meet it, and that the field names it and not a dead one (`HeldIn`); that a call of `init()` leaves it true needs that
the earlier calls of its function succeeded (`FnDone`), since a failing one leaves the function, and that the context,
PD and QP are there from their call on (`Built`).  `Loose` is the exception: the umems that `bnxt_create_qps` and ernic's keep in
locals until the attribute block is filled, and what no field exists for.  `SmokeIn` confines the buffers of the
mlx5 smoke test to it, and `Control` connects all of it to the stages of `run()`.

### Calculations
The pure functions have their theorems in the module that proves about their users: `NvmePrp` in `NvmeBatch_proofs`,
`KmodAddress` in `KmodModule_proofs`, `RdmaLibs` in `RdmaEndpoint_proofs` and `SdmaWire` in `SdmaRing_proofs`.  They hold for
every value of the field sizes and page sizes that satisfy the module's named assumption.

| Module | Theorem | Statement |
|---|---|---|
| `NvmePrp` | `ContiguousTransfer`, `ScatteredTransfer` | the controller finds every byte of a transfer where the buffer has it, if the list holds its pages |
| | `PrefilledContiguous`, `PrefilledScattered` | the same for the fio engine, whose kernel stores no list and relies on those of `rxio_prp_prefill` |
| | `AlignedFits` | a page-aligned transfer that `run()` accepts fits the list |
| | `ListWhereNamed`, `ListsDisjoint` | an entry the kernel writes at a virtual address is where PRP2 leads the controller, however the pool's pages are scattered; no two commands of a batch share a list |
| | `CommandNamesBlocks`, `OkIsCodeAndType` | of every transfer `run()` admits, LBA and block count survive the command's fields (the count has 16 bits), for blocks of 33 bytes or more; the status test looks at code and type |
| `KmodAddress` | `BdfRoundTrip` | a PCI address survives the 32-bit word, if its domain fits |
| | `BarGpaInBar` | an address GET_VRAM_PHYS_ADDR returns lies in the BAR if and only if the offset taken from the TTM resource is not behind it; that case is warned about and not refused |
| `RdmaLibs` | `ProviderComplete`, `WrapperCallsLoaded`, `NumaCallsLoaded` | a table that reports success has every function its callers use, whatever a library exports |
| `SdmaWire` | `CopyMovesAll`, `CopyTruncates` | a linear copy moves exactly its bytes up to the count field's range, and fewer above it |
| | `AtomicAddsWhole`, `AddressExact`, `WindowExact` | addresses, data and tiles reach the engine whole |
| | `FusedEqualsPair` | the MI4 fused packet does what the copy and the atomic do, so both builds of `SdmaPackets` mean the same |

### Only model-checked
- Liveness, and with it every property that needs fairness or ENABLED: the prover does not do either.
- `QuietCompletes` and `ImplementsFifo` of the SDMA ring: the mapping sorts packets out of the ring into a sequence, and what
  it computes for every ring is an induction over data, which the installed provers cannot do.
- The safety of `SdmaCollective`, for the same reason: a rank's program is put together from the sizes and launches of the sweep, and
  the signals are running totals over it.
- `SyncsOrder` and `NoLateWrite` of `RdmaRun`: an invariant would have to relate the positions of two plans to the bytes
  TCP holds and to the parts of a write that are not yet placed.  `RunInv` leaves the data path out; this has not been done.
- `Restored` is liveness; `RdmaTopology` and `BnxtSizing` compute by recursion and by bits.

## 5. Not modelled, and why

- The NVMe queue life cycle (`createQueue`, `run`, clean-up) beyond the commands it sends, and the fio engine's set-up
  and tear-down, which are the same calls: long sequences of allocations in `.hip` files.  `RdmaBackend` shows the
  form such a model takes.
- ionic's wave-wide path (`reserve_sq`, `commit_sq`, `quiet_internal`, two locks), the wave-wide entry points of the
  other providers and the atomics: nothing in the repository calls them.
- test-ep, the SDMA tester's kernels: test vehicles.  The SDMA host queue and the single-producer handle: the same
  ring with one producer.  KFD queue creation in `anvil.hip`.
- Pure I/O without state of its own: option parsing, printing, statistics, sysfs and PCI look-ups, the MMIO bridge
  mapping, the Python bindings; generated headers; patches to other projects' drivers; shell scripts.
- Within the modelled parts: contents of commands and packets beyond what the pure modules say; memory ordering,
  where the code uses fences or release/acquire pairs; the GPU's scheduling of lanes; `infinite` runs, which differ
  from long ones only in never ending; in `RdmaBackend`, the early return of `init()` without libibverbs, which
  acquires nothing; in `KmodModule`, a second PCI domain.

## 6. Where the code and what is said of it differ

Checked by a run that TLC finds violated:
- `sdma_collective_triggered`: the device-triggered collectives pass the source before the destination to
  `wait_flag_then_put`, which takes the destination first (`sdma_allgather.hip:177`, `sdma_alltoall.hip:194`;
  `sdma-host-queue.h:73`), so the engine copies the peer's segment over the rank's own.

Found with the same modules by other constants, and kept out of the passing runs by the stated restriction:
- `SdmaRing` with `{"tile"}` among the operations of a stateful thread: `putTile` hands no state to
  `submitPacket`, so `quietAll(state)` does not wait for it (`sdma_device.hpp:682`; 461 "Wait for all submitted
  operations."): `QuietCompletes` fails.
- `KmodQuiesce` with two files that ask for the same hardware queue: a stopped hctx is a flag, so the first
  resume or close restarts it under the other (`rocm-xio.c:2416`; 2330-2332): `Isolated` fails.
- `KmodContig` without the exception for `overtaken`: a thread that guesses the next id and frees or maps it before the
  ALLOC that makes it returns.  `FREE` may come between the `list_add` and the unlocked read of the entry's id, and a
  failing `copy_to_user` frees an entry that is mapped by then (`rocm-xio.c:2185-2191`; the comment at 2557-2561 counts on
  the reference a mapping holds): `NoUseAfterFree` fails.
- `KmodResurrect`: `Restored` excepts the sessions in `lost`; they are the cases in which a queue may be left to nobody.  `createQueue` deletes the kernel's queue; if the controller then refuses a
  CREATE it returns an error without the DELETE_CQ that would trigger the resurrection (`nvme-ep.hip:3709`;
  2765-2767 "a controller left with queues deleted from the kernel driver but not recreated is how this takes a
  host down"); a process that is killed leaves its queues in place.  The kprobe books a DELETE_CQ on the first entry with that
  queue ID, whichever controller it is on (`rocm-xio.c:1618`; 228-230).  A work already due takes an entry up before its
  DELETE_CQ has reached the controller (666; 568-569).  A quiesce that fails loses nothing.
  With two processes on one queue ID `PairedQueues` fails: the second one's DELETE_CQ reaches the controller between the work's
  CREATE_CQ and its CREATE_SQ (2773).  The ring pointers are written back after the hctx was restarted (2874; 2826-2829 asks
  for the opposite).
- `KmodRegistry`: a queue address outlives the file it was registered through, since `owner` is never assigned
  (`rocm-xio.c:1812`; 90 "fd that registered this entry", 2926 "Clean up queue address registrations owned by this
  fd").  `InjectedOwn` holds all the same, because the newest entry wins.
- `KmodModule` excepts an exit that finds `inject_enabled` switched off at run time: it skips `unregister_kprobe` and
  leaves the kprobe armed (3130).  The comment at 3150-3154 says that cancelling the snapshot work lets an
  already-scheduled one "run to completion"; `cancel_work_sync` takes a queued work out, and the exit frees the list
  itself.  `pending_snapshots` is last-in first-out, so of two captures of one queue in one work the older is stored
  last.
- `KmodAddress`: a BDF word is cut to 16 bits in `poisoned_qid_mark_created` and `_deleted` (`ShortBdf`), so devices of
  two PCI domains may share an entry; an offset behind the BAR is only warned about.
- `SdmaWire`: `CopyTruncates`.  The count field has 30 bits, while the assertions admit 2^32 bytes
  (`sdma_packets.hpp:41`) and `sdma_device.hpp:39-42` names both limits in one sentence.
- `NvmePrp`: `run()` accepts 513 pages (`nvme-ep.hip:2099`), which fit for a page-aligned start; from another offset the
  last page is dropped by `calculatePrps` without a word.  `gpuKernelStateful` and `gpuKernelPersistent` take a page's
  address without the offset in it that the batch loops add (955, 1108; 303-307).  The stateful kernel, which nothing in the
  repository launches (`rxio_submit` has no caller), is given no pool by the engine, so PRP2 of a transfer of more than two
  pages would be 0 (966-981).
- `RdmaBackend`: `init()` may return 0 with a `QueuePair` whose device view was never filled (`gda-backend.hpp:73-77`
  "@return 0 on success, -1 on failure"); `ShutdownReleases` lists what `shutdown()` leaves (79 "Tear down resources
  allocated by init()."), the dmabuf descriptors of bnxt's CQ buffers among it; a failed CQ structure is dereferenced (`bnxt-backend.cpp:295`, `ernic-backend.cpp:232`).
- `RdmaRun`: the kernels poll a sequence number that lies before the payload, so a NIC that places the payload later
  makes them count errors for a correct exchange; `SyncsOrder` is about runs without such an error.  The spins and
  the server's accept have no timeout, and the client connects once: with a failing peer, `BothEnd` does not hold.
- `RdmaLibs`: a wrapper whose table is incomplete keeps its handle open, and `reg_mr` does not close the dmabuf when
  its registration fails.  `RdmaTopology`: the distance of two PCI addresses ignores their domain.
- `NvmeBatch` with batch size 0 and one write and one read: `validateConfig` refuses `--verify` only for batch
  sizes above 1, but size 0 puts the read in flight with its write (`nvme-ep.hip:1630`; 1631 "--verify requires
  --batch-size 1"): `ReadBack` fails.  With batch size 0 on several wavefronts, each runs the path written for
  one thread (1900; 224): with two `Drivers`, `EachOpOnce` fails.
- `SdmaCollective` assumes that a device-triggered run has at least four ints per rank: with fewer `triggerFlagCapacity_`
  is 0 and there is no flag to wait on.
- `NvmeBatch`, stateful: the saved phase must start as 1, while the comment says "Initialise to zero before the first
  call on a fresh queue" (906, 923); with 0 the kernel takes empty entries for completions and `NoPhantom` fails.
- `FioEngine` with `IoDepth` below `RingSize`: the data slot of a request is `ring_head`, which runs over
  `RXIO_RING` places, while the buffer has iodepth slots (`docker/rocm-xio-engine/rocm-xio.c:245`;
  `rocm-xio-hip.hip:147` "batch_cap slots").  The run keeps the places apart, not inside the buffer.  With
  `WordSize` small enough to wrap, `rxio_reap`'s comparison is wrong for ever (`rocm-xio-hip.hip:669`;
  `rocm-xio.c:282`): `IoCompletes` fails.  The persistent kernel looks only at the phase, so a failed command is
  reported complete (`nvme-ep.hip:1162`; `rocm-xio-hip.h:45`).
- `RdmaEndpoint`, mlx5: `quiet` may return with work outstanding, since `available_slots` is read before it is assigned
  (`mlx5-queue-pair.hip:146, 164, 196`; `queue-pair.hpp:103` "Wait for all outstanding operations on the QP to
  complete."): without the exception for `guessed`, `QuietWaits` fails.
- `RdmaEndpoint` with a full ring of bnxt or ernic posted by a caller: head equals tail, the ring looks empty,
  `quiet` returns and the next post overwrites (`bnxt-queue-pair.hip:144`, `ernic-queue-pair.hip:168`).
  `validateConfig` keeps the kernels' batches below the depth.  With ernic and the batch kernel: its doorbell
  advances the device's index by one per ring (`ernic-queue-pair.hip:111`), so one ring announces one of a batch
  and `quiet` never returns (`rdma-ep.h:128` "WQEs per doorbell ring.").  With mlx5 and more work requests than
  the ring holds: `sq.post` is never lowered, so a post on an idle queue waits for a completion that cannot come
  (`mlx5-queue-pair.hip:141`), unless `available_slots` happens to hold a large value.  With bnxt and an
  `--inline-threshold` of 33 to 48 the ring has 5 * 2^k slots, which do not divide the slots of 2^16 work requests, so once
  `con_indx` has wrapped the head would be wrong; `ConfigAssumption` leaves such rings out (thresholds up to 32, and so the
  default of 28, satisfy it: `LapsWhole`).  The poll loops of mlx5 and
  ernic do not look at the stop flag; those of bnxt and ernic do not look at a completion's status, and
  `QuietWaits` promises success only for mlx5 and ionic.

## 7. What could follow

In order of what it would add: the set-up and clean-up of the NVMe endpoint in the form of `RdmaBackend`, composed with
`KmodQuiesce` and `KmodResurrect`; ionic's wave-wide path against an abstract queue; test-ep; the SDMA host queue as an
implementation of `SdmaFifo`; a proof that the syncs of the two-node test order its writes (`SyncsOrder`).
