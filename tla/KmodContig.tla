---------------------------- MODULE KmodContig ----------------------------
(***************************************************************************)
(* The contiguous DMA allocations of the kernel module (rocm-xio.c):       *)
(* ALLOC_CONTIG_QUEUE, mmap of an allocation, FREE_CONTIG_QUEUE, the VMA   *)
(* callbacks and the release of a file, over one reference count per       *)
(* allocation.                                                             *)
(*                                                                         *)
(* Threads of one file run concurrently.  A mapping keeps a reference on   *)
(* its file, so a file is released only when its descriptor is closed, no  *)
(* ioctl or mmap runs on it and nothing is mapped through it.  Ids are     *)
(* given out in order and an entry is listed before ALLOC returns, so a    *)
(* thread may name an allocation that another is still making.             *)
(***************************************************************************)
EXTENDS Integers, FiniteSets

CONSTANTS
    Callers,     \* the threads that call ioctl and mmap
    CharFiles,   \* the open rocm-xio files
    CallerFile,  \* the file each thread works on
    MaxId,       \* bound: allocations in a behaviour
    MaxVmas,     \* bound: mappings of one allocation at a time
    NoOwner      \* no allocation

Ids == 1 .. MaxId

ASSUME ContigAssumption ==
    /\ MaxId \in Nat /\ MaxVmas \in Nat
    /\ IsFiniteSet(Callers) /\ CallerFile \in [Callers -> CharFiles]
    /\ NoOwner \notin CharFiles

VARIABLES
    nextId,     \* contig_alloc_next_id
    owner,      \* ca->owner, NoOwner before the allocation
    contig,     \* contig_allocs: the ids on the list
    ref,        \* ca->ref
    live,       \* the entries whose memory is not yet freed
    pdevRefs,   \* references held on the NVMe pci_dev
    overtaken,  \* history: a thread reached an allocation before its ALLOC returned,
                \* and one of the two freed it under the other
    vmas,       \* how many VMAs of a file map an allocation
    fdOpen,     \* the files whose descriptor is open
    released,   \* the files whose rocm_xio_release ran
    toRelease,  \* the private list of rocm_xio_release
    step,       \* the step of the call a thread runs
    ca          \* the entry that call works on

contigVars == <<nextId, owner, contig, ref, live, pdevRefs, overtaken, vmas, fdOpen,
                released, toRelease, step, ca>>

ContigInit ==
    /\ nextId = 1
    /\ owner = [i \in Ids |-> NoOwner]
    /\ contig = {} /\ live = {} /\ toRelease = {}
    /\ overtaken = FALSE
    /\ ref = [i \in Ids |-> 0]
    /\ pdevRefs = 0
    /\ vmas = [f \in CharFiles |-> [i \in Ids |-> 0]]
    /\ fdOpen = CharFiles /\ released = {}
    /\ step = [t \in Callers |-> "idle"]
    /\ ca = [t \in Callers |-> 0]

-----------------------------------------------------------------------------
(* The reference count.                                                    *)

KrefGet(i) == ref' = [ref EXCEPT ![i] = @ + 1]

\* contig_alloc_release: the DMA memory, the pci_dev reference, the entry.
Free(i) == live' = live \ {i} /\ pdevRefs' = pdevRefs - 1

KrefPutNone(i) == UNCHANGED <<ref, live, pdevRefs>>

\* kref_put: the last reference frees.
KrefPut(i) ==
    /\ ref' = [ref EXCEPT ![i] = @ - 1]
    /\ IF ref[i] = 1 THEN Free(i) ELSE UNCHANGED <<live, pdevRefs>>

Goto(t, l) == step' = [step EXCEPT ![t] = l]

-----------------------------------------------------------------------------
(* ROCM_XIO_ALLOC_CONTIG_QUEUE.                                            *)

\* pci_get_domain_bus_and_slot, dma_alloc_coherent, kref_init, list_add.  The
\* failures before the list_add give back what they took and change nothing.
AllocContig(t) ==
    /\ step[t] = "idle" /\ CallerFile[t] \in fdOpen /\ nextId \in Ids
    /\ owner' = [owner EXCEPT ![nextId] = CallerFile[t]]
    /\ ref' = [ref EXCEPT ![nextId] = 1]
    /\ live' = live \union {nextId}
    /\ pdevRefs' = pdevRefs + 1
    /\ contig' = contig \union {nextId}
    /\ ca' = [ca EXCEPT ![t] = nextId]
    /\ nextId' = nextId + 1
    /\ Goto(t, "listed")
    /\ UNCHANGED <<overtaken, vmas, fdOpen, released, toRelease>>

\* The entry's id is read without the lock; after that ALLOC looks at the entry
\* again only when copy_to_user fails.
ReadId(t) ==
    /\ step[t] = "listed"
    /\ Goto(t, "copy")
    /\ UNCHANGED <<nextId, owner, contig, ref, live, pdevRefs, overtaken, vmas, fdOpen,
                   released, toRelease, ca>>

\* copy_to_user hands the id out.
CopyToUser(t) ==
    /\ step[t] = "copy"
    /\ Goto(t, "idle")
    /\ UNCHANGED <<nextId, owner, contig, ref, live, pdevRefs, overtaken, vmas, fdOpen,
                   released, toRelease, ca>>

\* The list is the only holder left.
OnlyListed(i) == i \in contig /\ ref[i] = 1

\* copy_to_user fails: the entry is unlinked and freed, whatever its kref.
CopyToUserFails(t) ==
    /\ step[t] = "copy"
    /\ contig' = contig \ {ca[t]}
    /\ Free(ca[t])
    /\ overtaken' = (overtaken \/ ~OnlyListed(ca[t]))
    /\ Goto(t, "idle")
    /\ UNCHANGED <<nextId, owner, ref, vmas, fdOpen, released, toRelease, ca>>

-----------------------------------------------------------------------------
(* rocm_xio_mmap, pgoff >= 1.                                              *)

\* The entry is listed and the file is its owner.
MayUse(f, i) == i \in contig /\ owner[i] = f

MmapGetLate(i) == UNCHANGED ref

\* The reference taken while the list is locked.
MmapGet(i) == KrefGet(i)

MmapContig(t, i) ==
    /\ step[t] = "idle" /\ CallerFile[t] \in fdOpen
    /\ MayUse(CallerFile[t], i)
    /\ MmapGet(i)
    /\ ca' = [ca EXCEPT ![t] = i]
    /\ Goto(t, "map")
    /\ UNCHANGED <<nextId, owner, contig, live, pdevRefs, overtaken, vmas, fdOpen, released,
                   toRelease>>

\* dma_mmap_coherent succeeds: the VMA takes the reference over.
MmapDone(t) ==
    /\ step[t] = "map"
    /\ vmas[CallerFile[t]][ca[t]] < MaxVmas
    /\ vmas' = [vmas EXCEPT ![CallerFile[t]][ca[t]] = @ + 1]
    /\ Goto(t, "idle")
    /\ UNCHANGED <<nextId, owner, contig, ref, live, pdevRefs, overtaken, fdOpen, released,
                   toRelease, ca>>

\* The size check or dma_mmap_coherent fails.
MmapFails(t) ==
    /\ step[t] = "map"
    /\ KrefPut(ca[t])
    /\ Goto(t, "idle")
    /\ UNCHANGED <<nextId, owner, contig, overtaken, vmas, fdOpen, released, toRelease, ca>>

\* contig_vma_open: a fork or a split copies a VMA.
ContigVmaOpen(f, i) ==
    /\ vmas[f][i] \in 1 .. MaxVmas - 1
    /\ vmas' = [vmas EXCEPT ![f][i] = @ + 1]
    /\ KrefGet(i)
    /\ UNCHANGED <<nextId, owner, contig, live, pdevRefs, overtaken, fdOpen, released,
                   toRelease, step, ca>>

\* contig_vma_close: munmap or exit.
ContigVmaClose(f, i) ==
    /\ vmas[f][i] > 0
    /\ vmas' = [vmas EXCEPT ![f][i] = @ - 1]
    /\ KrefPut(i)
    /\ UNCHANGED <<nextId, owner, contig, overtaken, fdOpen, released, toRelease, step, ca>>

-----------------------------------------------------------------------------
(* ROCM_XIO_FREE_CONTIG_QUEUE.                                             *)

\* The entry is unlinked under the lock; -ENOENT changes nothing.
FreeContig(t, i) ==
    /\ step[t] = "idle" /\ CallerFile[t] \in fdOpen
    /\ MayUse(CallerFile[t], i)
    /\ contig' = contig \ {i}
    /\ ca' = [ca EXCEPT ![t] = i]
    /\ overtaken' = (overtaken \/ \E u \in Callers : step[u] = "listed" /\ ca[u] = i)
    /\ Goto(t, "put")
    /\ UNCHANGED <<nextId, owner, ref, live, pdevRefs, vmas, fdOpen, released, toRelease>>

\* kref_put, after the lock is dropped.
FreePut(t) ==
    /\ step[t] = "put"
    /\ KrefPut(ca[t])
    /\ Goto(t, "idle")
    /\ UNCHANGED <<nextId, owner, contig, overtaken, vmas, fdOpen, released, toRelease, ca>>

-----------------------------------------------------------------------------
(* close and rocm_xio_release.                                             *)

Close(f) ==
    /\ f \in fdOpen
    /\ fdOpen' = fdOpen \ {f}
    /\ UNCHANGED <<nextId, owner, contig, ref, live, pdevRefs, overtaken, vmas, released,
                   toRelease, step, ca>>

OwnedBy(f) == {i \in contig : owner[i] = f}

\* The last reference to the file goes.
ReleaseFile(f) ==
    /\ f \notin fdOpen /\ f \notin released
    /\ \A t \in Callers : CallerFile[t] = f => step[t] = "idle"
    /\ \A i \in Ids : vmas[f][i] = 0
    /\ released' = released \union {f}
    /\ toRelease' = toRelease \union OwnedBy(f)
    /\ contig' = contig \ OwnedBy(f)
    /\ UNCHANGED <<nextId, owner, ref, live, pdevRefs, overtaken, vmas, fdOpen, step, ca>>

ReleasePut(i) ==
    /\ i \in toRelease
    /\ toRelease' = toRelease \ {i}
    /\ KrefPut(i)
    /\ UNCHANGED <<nextId, owner, contig, overtaken, vmas, fdOpen, released, step, ca>>

CallStep(t) ==
    \/ ReadId(t) \/ CopyToUser(t) \/ CopyToUserFails(t) \/ MmapDone(t) \/ MmapFails(t) \/ FreePut(t)

ContigNext ==
    \/ \E t \in Callers : \/ AllocContig(t) \/ CallStep(t)
                          \/ \E i \in Ids : MmapContig(t, i) \/ FreeContig(t, i)
    \/ \E f \in CharFiles : \/ Close(f) \/ ReleaseFile(f)
                        \/ \E i \in Ids : ContigVmaOpen(f, i) \/ ContigVmaClose(f, i)
    \/ \E i \in Ids : ReleasePut(i)

ContigSpec == ContigInit /\ [][ContigNext]_contigVars

\* Calls that have started run on, and the kernel runs release when the last
\* reference to a file goes.
ContigFairness ==
    /\ \A t \in Callers : WF_contigVars(CallStep(t))
    /\ \A f \in CharFiles : WF_contigVars(ReleaseFile(f))
    /\ \A i \in Ids : WF_contigVars(ReleasePut(i))

ContigLiveSpec == ContigSpec /\ ContigFairness

-----------------------------------------------------------------------------
(* Properties.                                                             *)

Mapped(i) == \E f \in CharFiles : vmas[f][i] > 0

\* Linked, mapped, or in the hands of a call.
Used(i) ==
    \/ i \in contig \/ i \in toRelease \/ Mapped(i)
    \/ \E t \in Callers : ca[t] = i /\ step[t] \in {"listed", "map", "put"}

UsedLive == \A i \in Ids : Used(i) => i \in live

\* Nothing that is still linked, mapped or being worked on was freed: a user
\* mapping never outlives its DMA memory, whatever the order of FREE and munmap.
\* Two orders are excepted, both with a thread that names an id before the ALLOC
\* that makes it returns: FREE before ALLOC has read the entry's id, and a failing
\* copy_to_user of an entry that is mapped or freed by then.
NoUseAfterFree == ~overtaken => UsedLive

\* No process uses the device any more.
Gone ==
    /\ fdOpen = {}
    /\ \A f \in CharFiles, i \in Ids : vmas[f][i] = 0
    /\ \A t \in Callers : step[t] = "idle"

\* Everything is given back in the end: once the files are closed and unmapped,
\* no DMA memory and no device reference stays behind, also of a caller that
\* died without FREE_CONTIG_QUEUE.
AllFreed == Gone ~> (overtaken \/ (live = {} /\ pdevRefs = 0))
=============================================================================
