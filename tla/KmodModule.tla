----------------------------- MODULE KmodModule -----------------------------
(***************************************************************************)
(* The life of the kernel module itself (rocm-xio.c): rocm_xio_init, the   *)
(* kretprobes that capture the NVMe driver's queues, the work that turns a *)
(* capture into a snapshot, the requests that look up a PCI device, and    *)
(* rocm_xio_exit, which races with the works the probes have queued.       *)
(*                                                                         *)
(* The NVMe driver (when it allocates, creates and frees its queues), the  *)
(* work queue and the probe mechanism are external.  The lists that the    *)
(* other modules of this project describe are here only empty or not.      *)
(***************************************************************************)
EXTENDS Naturals, Sequences, FiniteSets

CONSTANTS
    Queues,      \* the NVMe driver's I/O queues
    DevOf,       \* the PCI device a queue belongs to
    Bridges,     \* PCI MMIO bridges
    Configured,  \* those of them whose shadow address is not 0
    None,        \* no bridge, no device
    MaxCalls,    \* bound: calls of the NVMe driver, ioctls, writes of the parameter
    MaxFaults    \* bound: calls of the kernel that fail

Nvmes == {DevOf[q] : q \in Queues}
Devices == Nvmes \union Bridges

ASSUME ModuleAssumption ==
    /\ IsFiniteSet(Queues) /\ DOMAIN DevOf = Queues
    /\ Configured \subseteq Bridges /\ Nvmes \cap Bridges = {}
    /\ None \notin Devices
    /\ MaxCalls \in Nat /\ MaxFaults \in Nat

VARIABLES
    phase,     \* "loading", "loaded", "unloading", "gone"
    step,      \* the next step of rocm_xio_init or rocm_xio_exit
    made,      \* what is registered with the kernel, and not yet unregistered
    inject,    \* inject_enabled, writable through sysfs
    skipped,   \* did rocm_xio_exit leave a registered kprobe behind
    open,      \* is a file of the character device open
    lists,     \* the module's other lists that are not empty
    bound,     \* how often the NVMe driver was bound and unbound; odd: bound
    host,      \* struct nvme_queue: "none", "alloc" (no vector yet), "created"
    pending,   \* pending_snapshots, newest first
    queued,    \* the works that wait in the work queue
    running,   \* the works that run
    local,     \* the list rocm_xio_snapshot_work_fn has spliced out
    found,     \* has it found the PCI device of the first entry
    snapshot,  \* nvme_queue_snapshots: the host queue a snapshot shows
    refs,      \* references the module holds on a PCI device
    call,      \* the device whose reference a request holds, and the request
    held,      \* the device whose reference the resurrect work holds
    bridge,    \* mmio_bridge_shadow_gpa and _size, by their bridge
    calls, faults

control == <<phase, step, made, inject, skipped>>
capture == <<pending, queued, running, local, found>>
lookups == <<call, held, bridge>>
vars == <<control, open, lists, bound, host, capture, snapshot, refs, lookups, calls, faults>>

Lists == {"poisoned_qids", "queue_addrs", "vram_buffers", "contig_allocs", "quiesced_ns"}
Works == {"snapshot", "resurrect"}
Idle == [dev |-> None, for |-> "none"]

Init ==
    /\ phase = "loading" /\ step = 1 /\ made = {} /\ inject \in BOOLEAN /\ skipped = FALSE
    /\ open = FALSE /\ lists = {}
    /\ bound \in [Nvmes -> {0, 1}]
    /\ host = [q \in Queues |-> IF bound[DevOf[q]] = 1 THEN "created" ELSE "none"]
    /\ pending = <<>> /\ queued = {} /\ running = {} /\ local = <<>> /\ found = FALSE
    /\ snapshot = [q \in Queues |-> "none"]
    /\ refs = [d \in Devices |-> 0]
    /\ call = Idle /\ held = None /\ bridge = None
    /\ calls = 0 /\ faults = 0

Fault == faults < MaxFaults /\ faults' = faults + 1

-----------------------------------------------------------------------------
(* rocm_xio_init.                                                          *)

InitSteps == <<"chrdev", "class", "device", "kprobe", "allocKrp", "createKrp">>

UnwindLast(s) == made \ {InitSteps[i] : i \in DOMAIN InitSteps \cap {s - 1}}

\* What is unregistered when step s fails: the steps before it, backwards.
Unwind(s) == made \ {InitSteps[i] : i \in 1 .. s - 1}

InitDone(s) == phase' = IF s = Len(InitSteps) THEN "loaded" ELSE phase

\* The kprobe is registered only with the injection enabled.
InitStep ==
    /\ phase = "loading"
    /\ made' = IF InitSteps[step] = "kprobe" /\ ~inject THEN made
                                                        ELSE made \union {InitSteps[step]}
    /\ InitDone(step)
    /\ step' = IF step = Len(InitSteps) THEN 1 ELSE step + 1
    /\ UNCHANGED <<inject, skipped, open, lists, bound, host, capture, snapshot, refs,
                   lookups, calls, faults>>

\* The device nodes are required; a probe that cannot be registered is not.
InitFails ==
    /\ phase = "loading"
    /\ InitSteps[step] \in {"chrdev", "class", "device"}
    /\ Fault
    /\ made' = Unwind(step)
    /\ phase' = "gone"
    /\ UNCHANGED <<step, inject, skipped, open, lists, bound, host, capture, snapshot, refs,
                   lookups, calls>>

ProbeRefused ==
    /\ phase = "loading"
    /\ InitSteps[step] \in {"kprobe", "allocKrp", "createKrp"}
    /\ InitSteps[step] = "kprobe" => inject
    /\ Fault
    /\ inject' = (inject /\ InitSteps[step] # "kprobe")
    /\ InitDone(step)
    /\ step' = IF step = Len(InitSteps) THEN 1 ELSE step + 1
    /\ UNCHANGED <<made, skipped, open, lists, bound, host, capture, snapshot, refs, lookups,
                   calls>>

\* A write to the module parameter, which sysfs allows until the exit is over.
SetParameter ==
    /\ phase \in {"loaded", "unloading"}
    /\ calls < MaxCalls /\ calls' = calls + 1
    /\ inject' = ~inject
    /\ UNCHANGED <<phase, step, made, skipped, open, lists, bound, host, capture, snapshot,
                   refs, lookups, faults>>

-----------------------------------------------------------------------------
(* The capture of a queue.                                                 *)

CaptureUnlessRunning(q, of) ==
    /\ pending' = <<[queue |-> q, of |-> of, nvme_dev |-> bound[DevOf[q]]]>> \o pending
    /\ queued' = IF "snapshot" \in running THEN queued ELSE queued \union {"snapshot"}

\* The return handlers of the kretprobes: the queue's fields as they are now
\* go to the head of pending_snapshots, and the work is scheduled.  A work
\* that is running already is queued again.
Capture(q, of) ==
    /\ pending' = <<[queue |-> q, of |-> of, nvme_dev |-> bound[DevOf[q]]]>> \o pending
    /\ queued' = queued \union {"snapshot"}

Handler(probe, q, of) ==
    IF probe \in made
    THEN \/ Capture(q, of) /\ UNCHANGED faults
         \/ Fault /\ UNCHANGED <<pending, queued>>
    ELSE UNCHANGED <<pending, queued, faults>>

IsBound(d) == bound[d] % 2 = 1

DriverCalls ==
    /\ calls < MaxCalls /\ calls' = calls + 1
    /\ UNCHANGED <<control, open, lists, running, local, found, snapshot, refs, lookups>>

\* nvme_alloc_queue, which leaves a queue it has already allocated alone.
AllocQueue(q) ==
    /\ IsBound(DevOf[q])
    /\ DriverCalls
    /\ host' = [host EXCEPT ![q] = IF @ = "none" THEN "alloc" ELSE @]
    /\ Handler("allocKrp", q, host'[q])
    /\ UNCHANGED bound

\* nvme_create_queue, at probe and after each reset of the controller.
CreateQueue(q) ==
    /\ host[q] # "none"
    /\ DriverCalls
    /\ host' = [host EXCEPT ![q] = "created"]
    /\ Handler("createKrp", q, "created")
    /\ UNCHANGED bound

\* The driver is bound to the device, or leaves it and frees its queues.
Rebind(d) ==
    /\ DriverCalls
    /\ bound' = [bound EXCEPT ![d] = @ + 1]
    /\ host' = [q \in Queues |-> IF DevOf[q] = d THEN "none" ELSE host[q]]
    /\ UNCHANGED <<pending, queued, faults>>

-----------------------------------------------------------------------------
(* rocm_xio_snapshot_work_fn.                                              *)

SnapshotWorkStarts ==
    /\ "snapshot" \in queued \ running
    /\ queued' = queued \ {"snapshot"}
    /\ running' = running \union {"snapshot"}
    /\ local' = pending
    /\ pending' = <<>>
    /\ UNCHANGED <<control, open, lists, bound, host, found, snapshot, refs, lookups, calls,
                   faults>>

InWork ==
    /\ "snapshot" \in running /\ local # <<>>
    /\ UNCHANGED <<control, open, lists, bound, host, pending, queued, running, lookups,
                   calls>>

Resolved(e) == IsBound(DevOf[e.queue]) /\ bound[DevOf[e.queue]] = e.nvme_dev

\* The bus walk ends with a reference on the device whose driver data is the
\* entry's nvme_dev, or finds none and the entry is dropped.
ResolveDevice ==
    /\ InWork /\ ~found
    /\ LET e == Head(local) IN
         IF Resolved(e)
         THEN /\ found' = TRUE
              /\ refs' = [refs EXCEPT ![DevOf[e.queue]] = @ + 1]
              /\ UNCHANGED local
         ELSE local' = Tail(local) /\ UNCHANGED <<found, refs>>
    /\ UNCHANGED <<snapshot, faults>>

\* References a store adds: the new snapshot's own.
StoreKeepsRef(q) == 1

\* References a store adds: an update in place gives its own back.
StoreRefs(q) == IF snapshot[q] = "none" THEN 1 ELSE 0

\* nvme_queue_snapshot_store, and the put of the bus walk's reference.
StoreSnapshot ==
    /\ InWork /\ found
    /\ LET e == Head(local) IN
         /\ snapshot' = [snapshot EXCEPT ![e.queue] = e.of]
         /\ refs' = [refs EXCEPT ![DevOf[e.queue]] = @ + StoreRefs(e.queue) - 1]
    /\ found' = FALSE
    /\ local' = Tail(local)
    /\ UNCHANGED faults

StoreFails ==
    /\ InWork /\ found
    /\ Fault
    /\ refs' = [refs EXCEPT ![DevOf[Head(local).queue]] = @ - 1]
    /\ found' = FALSE
    /\ local' = Tail(local)
    /\ UNCHANGED snapshot

SnapshotWorkEnds ==
    /\ "snapshot" \in running /\ local = <<>>
    /\ running' = running \ {"snapshot"}
    /\ UNCHANGED <<control, open, lists, bound, host, pending, queued, local, found, snapshot,
                   refs, lookups, calls, faults>>

SnapshotWork ==
    SnapshotWorkStarts \/ ResolveDevice \/ StoreSnapshot \/ StoreFails \/ SnapshotWorkEnds

-----------------------------------------------------------------------------
(* The order of rocm_xio_exit, and the kprobe's use of the lists.          *)

ExitCancelFirst ==
    <<"snapshot", "resurrect", "kprobe", "allocKrp", "createKrp", "pending", "snapshots",
      "poisoned_qids", "queue_addrs", "vram_buffers", "contig_allocs", "quiesced_ns",
      "device", "class", "chrdev">>

\* Probes, then works, then lists, then the character device.
ExitSteps ==
    <<"kprobe", "allocKrp", "createKrp", "snapshot", "resurrect", "pending", "snapshots",
      "poisoned_qids", "queue_addrs", "vram_buffers", "contig_allocs", "quiesced_ns",
      "device", "class", "chrdev">>

Injecting == "kprobe" \in made /\ inject

KprobeMarks ==
    /\ Injecting
    /\ lists' = lists \union {"poisoned_qids"}
    /\ UNCHANGED <<control, open, bound, host, capture, snapshot, refs, lookups, calls, faults>>

\* mod_delayed_work has no effect while cancel_delayed_work_sync waits.
Cancelling == phase = "unloading" /\ ExitSteps[step] = "resurrect"

KprobeSchedules ==
    /\ Injecting /\ "poisoned_qids" \in lists
    /\ ~Cancelling
    /\ queued' = queued \union {"resurrect"}
    /\ UNCHANGED <<control, open, lists, bound, host, pending, running, local, found, snapshot,
                   refs, lookups, calls, faults>>

-----------------------------------------------------------------------------
(* rocm_xio_resurrect_work_fn: its place in the work queue and the device  *)
(* it has in hand.  What it does there is in KmodResurrect.                *)

\* The entries are cloned; when a clone cannot be allocated the work schedules
\* itself again.
ResurrectStarts ==
    /\ "resurrect" \in queued \ running
    /\ running' = running \union {"resurrect"}
    /\ \/ queued' = queued \ {"resurrect"} /\ UNCHANGED faults
       \/ Fault /\ queued' = IF Cancelling THEN queued \ {"resurrect"} ELSE queued
    /\ UNCHANGED <<control, open, lists, bound, host, pending, local, found, snapshot, refs,
                   lookups, calls>>

InResurrect ==
    /\ "resurrect" \in running
    /\ UNCHANGED <<control, open, lists, bound, host, pending, queued, local, found, snapshot,
                   call, bridge, calls, faults>>

\* pci_get_domain_bus_and_slot for the next entry; an entry whose device is gone
\* is skipped.
ResurrectGets(d) ==
    /\ InResurrect /\ held = None
    /\ held' = d
    /\ refs' = [refs EXCEPT ![d] = @ + 1]
    /\ UNCHANGED running

\* Every way to the end of an entry puts its device.
ResurrectPuts ==
    /\ InResurrect /\ held # None
    /\ held' = None
    /\ refs' = [refs EXCEPT ![held] = @ - 1]
    /\ UNCHANGED running

ResurrectEnds ==
    /\ InResurrect /\ held = None
    /\ running' = running \ {"resurrect"}
    /\ UNCHANGED <<held, refs>>

ResurrectWork ==
    ResurrectStarts \/ (\E d \in Nvmes : ResurrectGets(d)) \/ ResurrectPuts \/ ResurrectEnds

-----------------------------------------------------------------------------
(* The character device.                                                   *)

OpenFile ==
    /\ "device" \in made /\ phase # "unloading" /\ ~open
    /\ open' = TRUE
    /\ UNCHANGED <<control, lists, bound, host, capture, snapshot, refs, lookups, calls,
                   faults>>

IoctlAdds(l) ==
    /\ open /\ l # "poisoned_qids"
    /\ calls < MaxCalls /\ calls' = calls + 1
    /\ lists' = lists \union {l}
    /\ UNCHANGED <<control, open, bound, host, capture, snapshot, refs, lookups, faults>>

\* rocm_xio_release leaves the queue addresses to the exit.
CloseFile ==
    /\ open /\ call = Idle
    /\ open' = FALSE
    /\ lists' = lists \ {"vram_buffers", "contig_allocs", "quiesced_ns"}
    /\ UNCHANGED <<control, bound, host, capture, snapshot, refs, lookups, calls, faults>>

\* get_nvme_device_info and get_mmio_bridge_shadow_buffer look the device up,
\* which takes a reference.
LookupDevice(d, for) ==
    /\ open /\ call = Idle
    /\ call' = [dev |-> d, for |-> for]
    /\ refs' = [refs EXCEPT ![d] = @ + 1]
    /\ UNCHANGED <<control, open, lists, bound, host, capture, snapshot, held, bridge, calls,
                   faults>>

GetDeviceInfo(d) == LookupDevice(d, "info")

GetMmioBridgeShadow(b) == LookupDevice(b, "shadow")

PutDevice ==
    /\ refs' = [refs EXCEPT ![call.dev] = @ - 1]
    /\ call' = Idle
    /\ UNCHANGED <<control, open, lists, bound, host, capture, snapshot, held, calls, faults>>

\* The BAR and the limits are read and the device is put.
ReadDeviceInfo ==
    /\ call.for = "info"
    /\ PutDevice
    /\ UNCHANGED bridge

\* A bridge without a shadow address is an error; both paths put the device.
ReadBridgeShadow ==
    /\ call.for = "shadow"
    /\ PutDevice
    /\ bridge' = IF call.dev \in Configured THEN call.dev ELSE bridge

-----------------------------------------------------------------------------
(* rocm_xio_exit.                                                          *)

\* An open file holds the module in the kernel.
ExitStarts ==
    /\ phase = "loaded" /\ ~open
    /\ phase' = "unloading"
    /\ UNCHANGED <<step, made, inject, skipped, open, lists, bound, host, capture, snapshot,
                   refs, lookups, calls, faults>>

AfterExitStep ==
    /\ phase = "unloading"
    /\ IF step = Len(ExitSteps) THEN phase' = "gone" /\ UNCHANGED step
                                ELSE step' = step + 1 /\ UNCHANGED phase
    /\ UNCHANGED <<inject, open, bound, host, running, local, found, lookups, calls, faults>>

\* The kprobe is unregistered when the injection is enabled now.
ExitUnregisters ==
    /\ AfterExitStep
    /\ ExitSteps[step] \in {InitSteps[i] : i \in DOMAIN InitSteps}
    /\ IF ExitSteps[step] = "kprobe" /\ ~inject
       THEN skipped' = ("kprobe" \in made) /\ UNCHANGED made
       ELSE made' = made \ {ExitSteps[step]} /\ UNCHANGED skipped
    /\ UNCHANGED <<lists, pending, queued, snapshot, refs>>

\* cancel_work_sync takes the work out of the queue and waits while it runs.
ExitCancels ==
    /\ AfterExitStep
    /\ ExitSteps[step] \in Works \ running
    /\ queued' = queued \ {ExitSteps[step]}
    /\ UNCHANGED <<made, skipped, lists, pending, snapshot, refs>>

ExitDrains ==
    /\ AfterExitStep
    /\ ExitSteps[step] \in Lists \union {"pending"}
    /\ lists' = lists \ {ExitSteps[step]}
    /\ pending' = IF ExitSteps[step] = "pending" THEN <<>> ELSE pending
    /\ UNCHANGED <<made, skipped, queued, snapshot, refs>>

\* The snapshots that hold a reference on d.
SnapshotsOf(d) == {q \in Queues : DevOf[q] = d /\ snapshot[q] # "none"}

\* nvme_queue_snapshots_free_all.
ExitFreesSnapshots ==
    /\ AfterExitStep
    /\ ExitSteps[step] = "snapshots"
    /\ snapshot' = [q \in Queues |-> "none"]
    /\ refs' = [d \in Devices |-> refs[d] - Cardinality(SnapshotsOf(d))]
    /\ UNCHANGED <<made, skipped, lists, pending, queued>>

ExitStep == ExitUnregisters \/ ExitCancels \/ ExitDrains \/ ExitFreesSnapshots

-----------------------------------------------------------------------------

Driver ==
    \/ \E q \in Queues : AllocQueue(q) \/ CreateQueue(q)
    \/ \E d \in Nvmes : Rebind(d)

Requests ==
    \/ OpenFile \/ CloseFile \/ ReadDeviceInfo \/ ReadBridgeShadow
    \/ \E l \in Lists : IoctlAdds(l)
    \/ \E d \in Nvmes : GetDeviceInfo(d)
    \/ \E b \in Bridges : GetMmioBridgeShadow(b)

Next ==
    \/ InitStep \/ InitFails \/ ProbeRefused \/ SetParameter
    \/ phase # "gone" /\ (Driver \/ KprobeMarks \/ KprobeSchedules)
    \/ SnapshotWork \/ ResurrectWork
    \/ Requests
    \/ ExitStarts \/ ExitStep

\* The work queue runs what is queued, the list of the resurrect work has an end,
\* and rmmod runs to its own.
Spec ==
    /\ Init /\ [][Next]_vars
    /\ WF_vars(SnapshotWork) /\ WF_vars(ResurrectWork) /\ SF_vars(ResurrectEnds)
    /\ WF_vars(ExitStep)

-----------------------------------------------------------------------------

\* The module holds one reference on a PCI device for each of its snapshots,
\* one while the snapshot work has the device in hand, one while the resurrect
\* work has and one while a request reads it, whatever is updated in place, dropped or fails in between.
PciRefsExact ==
    \A d \in Devices :
        refs[d] = Cardinality(SnapshotsOf(d))
                  + (IF found /\ DevOf[Head(local).queue] = d THEN 1 ELSE 0)
                  + (IF held = d THEN 1 ELSE 0)
                  + (IF call.dev = d THEN 1 ELSE 0)

\* When rocm_xio_exit frees the first list, no probe can add to it any more
\* and neither work is queued or runs, unless the exit found the injection
\* switched off and left the kprobe in place.
TeardownQuiet ==
    phase = "unloading" /\ ExitSteps[step] \notin {"kprobe", "allocKrp", "createKrp"} \union Works
        => /\ made \cap {"allocKrp", "createKrp"} = {}
           /\ "snapshot" \notin queued \union running
           /\ skipped \/ queued \union running = {}

\* After rmmod, and after a load that failed, nothing of the module is
\* registered with the kernel, queued, allocated or referenced, with the same
\* exception for the kprobe.
UnloadedClean ==
    phase = "gone" /\ ~skipped
        => /\ made = {} /\ lists = {} /\ pending = <<>> /\ local = <<>>
           /\ queued \union running = {}
           /\ \A d \in Devices : refs[d] = 0

\* A captured queue does not stay in pending_snapshots: the work a handler
\* schedules, even while an earlier one runs, or the exit takes it out.
CaptureDrained == (pending # <<>>) ~> (pending = <<>>)
=============================================================================
