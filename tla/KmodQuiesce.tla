--------------------------- MODULE KmodQuiesce ---------------------------
(***************************************************************************)
(* ROCM_XIO_QUIESCE_NS, ROCM_XIO_UNQUIESCE_NS and the release of a         *)
(* character-device file, of the kernel module (rocm-xio.c), against the   *)
(* block layer's dispatcher.                                               *)
(*                                                                         *)
(* A target is a pair <<bd, qid>>: qid 0 names the whole request_queue of  *)
(* bd (QUIESCED_NS_MODE_FULL), a positive qid its hardware context         *)
(* qid - 1 (QUIESCED_NS_MODE_HCTX).  Every thread runs ioctls on one file; *)
(* a file is released by the kernel once its descriptor is closed and no   *)
(* ioctl runs on it.                                                       *)
(***************************************************************************)
EXTENDS Naturals, FiniteSets

CONSTANTS
    Threads,     \* the threads that call ioctl
    Files,       \* the open rocm-xio files
    FileOf,      \* the file each thread works on
    Bdevs,       \* namespace block devices
    NrHwQueues,  \* q->nr_hw_queues
    Requests,    \* the targets each thread asks for
    None         \* the quiesced_ns mutex is free

Qids == 1 .. NrHwQueues
Targets == Bdevs \X (0 .. NrHwQueues)

ASSUME QuiesceAssumption ==
    /\ NrHwQueues \in Nat \ {0}
    /\ IsFiniteSet(Threads)
    /\ FileOf \in [Threads -> Files]
    /\ Requests \in [Threads -> SUBSET (Bdevs \X Nat)]
    /\ None \notin Threads

VARIABLES
    open,        \* the files whose descriptor is still open
    pc,          \* the step of the ioctl a thread runs
    target,      \* the target of that ioctl
    lock,        \* the holder of quiesced_ns_lock
    quiescedNs,  \* quiesced_ns: the <<owner, target>> of every entry, which
                 \* the duplicate check under the lock keeps distinct
    releasing,   \* the entries on a released file's private list
    depth,       \* q->quiesce_depth
    stopped,     \* the targets <<bd, qid>> whose hctx is BLK_MQ_S_STOPPED
    dispatching, \* the targets <<bd, qid>> whose hctx is dispatching
    pinned       \* references the module holds on each bdev file

vars == <<open, pc, target, lock, quiescedNs, releasing, depth, stopped,
          dispatching, pinned>>

Init ==
    /\ open = Files
    /\ pc = [t \in Threads |-> "idle"]
    /\ target = [t \in Threads |-> CHOOSE tg \in Targets : TRUE]
    /\ lock = None
    /\ quiescedNs = {}
    /\ releasing = {}
    /\ depth = [b \in Bdevs |-> 0]
    /\ stopped = {}
    /\ dispatching = {}
    /\ pinned = [b \in Bdevs |-> 0]

Bd(tg) == tg[1]
Full(tg) == tg[2] = 0

\* n fputs of the bdev file.
FputBdev(tg, n) == pinned' = [pinned EXCEPT ![Bd(tg)] = @ - n]

\* mutex_unlock.
Unlock == lock' = None

-----------------------------------------------------------------------------
(* ROCM_XIO_QUIESCE_NS.                                                    *)

\* A qid past the live topology is refused with the bdev reference dropped.
InRange(tg) == tg[2] <= NrHwQueues

\* fget of the bdev, and the checks before the critical section.
QuiesceNs(t) ==
    /\ pc[t] = "idle" /\ FileOf[t] \in open
    /\ \E tg \in Requests[t] :
          /\ InRange(tg)
          /\ target' = [target EXCEPT ![t] = tg]
          /\ pinned' = [pinned EXCEPT ![Bd(tg)] = @ + 1]
    /\ pc' = [pc EXCEPT ![t] = "lock"]
    /\ UNCHANGED <<open, lock, quiescedNs, releasing, depth, stopped, dispatching>>

Listed(f, tg) == <<f, tg>> \in quiescedNs

\* mutex_lock and the duplicate check: a target this file already holds
\* returns 0 at once and keeps only the first reference.
QuiesceLock(t) ==
    /\ pc[t] = "lock" /\ lock = None
    /\ IF Listed(FileOf[t], target[t])
         THEN /\ pc' = [pc EXCEPT ![t] = "idle"]
              /\ FputBdev(target[t], 1)
              /\ UNCHANGED <<lock, depth>>
         ELSE /\ pc' = [pc EXCEPT ![t] = "drain"]
              /\ lock' = t
              /\ depth' = [depth EXCEPT ![Bd(target[t])] = @ + 1]
              /\ UNCHANGED pinned
    /\ UNCHANGED <<open, target, quiescedNs, releasing, stopped, dispatching>>

\* No dispatch of the queue is running: what blk_mq_quiesce_queue waits for.
DrainedUnwaited(b) == TRUE
Drained(b) == \A q \in Qids : <<b, q>> \notin dispatching

\* blk_mq_quiesce_queue returns.
QuiesceDrain(t) ==
    /\ pc[t] = "drain" /\ Drained(Bd(target[t]))
    /\ pc' = [pc EXCEPT ![t] = IF Full(target[t]) THEN "add" ELSE "stop"]
    /\ UNCHANGED <<open, target, lock, quiescedNs, releasing, depth, stopped,
                   dispatching, pinned>>

\* blk_mq_stop_hw_queue.
StopHwQueue(t) ==
    /\ pc[t] = "stop"
    /\ stopped' = stopped \union {target[t]}
    /\ pc' = [pc EXCEPT ![t] = "unbrief"]
    /\ UNCHANGED <<open, target, lock, quiescedNs, releasing, depth, dispatching, pinned>>

\* blk_mq_unquiesce_queue: the other hardware queues resume.
EndBriefQuiesce(t) ==
    /\ pc[t] = "unbrief"
    /\ depth' = [depth EXCEPT ![Bd(target[t])] = @ - 1]
    /\ pc' = [pc EXCEPT ![t] = "add"]
    /\ UNCHANGED <<open, target, lock, quiescedNs, releasing, stopped, dispatching, pinned>>

\* list_add and mutex_unlock: the entry keeps the bdev reference.
ListAdd(t) ==
    /\ pc[t] = "add"
    /\ quiescedNs' = quiescedNs \union {<<FileOf[t], target[t]>>}
    /\ Unlock
    /\ pc' = [pc EXCEPT ![t] = "idle"]
    /\ UNCHANGED <<open, target, releasing, depth, stopped, dispatching, pinned>>

-----------------------------------------------------------------------------
(* ROCM_XIO_UNQUIESCE_NS.                                                  *)

UnquiesceNs(t) ==
    /\ pc[t] = "idle" /\ FileOf[t] \in open
    /\ \E tg \in Requests[t] \intersect Targets :
          /\ target' = [target EXCEPT ![t] = tg]
          /\ pinned' = [pinned EXCEPT ![Bd(tg)] = @ + 1]
    /\ pc' = [pc EXCEPT ![t] = "find"]
    /\ UNCHANGED <<open, lock, quiescedNs, releasing, depth, stopped, dispatching>>

\* The critical section that unlinks the entry; -ENOENT when there is none.
UnquiesceFind(t) ==
    /\ pc[t] = "find" /\ lock = None
    /\ IF Listed(FileOf[t], target[t])
         THEN /\ quiescedNs' = quiescedNs \ {<<FileOf[t], target[t]>>}
              /\ pc' = [pc EXCEPT ![t] = "apply"]
              /\ UNCHANGED pinned
         ELSE /\ pc' = [pc EXCEPT ![t] = "idle"]
              /\ FputBdev(target[t], 1)
              /\ UNCHANGED quiescedNs
    /\ UNCHANGED <<open, target, lock, releasing, depth, stopped, dispatching>>

ResumeHctxOnly(tg) ==
    stopped' = stopped \ {tg} /\ UNCHANGED depth

\* What resuming a target does to the block layer.
Resume(tg) ==
    IF Full(tg) THEN depth' = [depth EXCEPT ![Bd(tg)] = @ - 1] /\ UNCHANGED stopped
                ELSE stopped' = stopped \ {tg} /\ UNCHANGED depth

\* blk_mq_unquiesce_queue or blk_mq_start_hw_queue, outside the lock, then
\* the two fputs: the entry's reference and the one this ioctl took.
UnquiesceApply(t) ==
    /\ pc[t] = "apply"
    /\ Resume(target[t])
    /\ FputBdev(target[t], 2)
    /\ pc' = [pc EXCEPT ![t] = "idle"]
    /\ UNCHANGED <<open, target, lock, quiescedNs, releasing, dispatching>>

-----------------------------------------------------------------------------
(* rocm_xio_release: close, or the death of the process.                   *)

OwnedFull(f) == {e \in quiescedNs : e[1] = f /\ Full(e[2])}
Owned(f) == {e \in quiescedNs : e[1] = f}

\* The last reference goes: no ioctl runs on the file any more.  The entries
\* of the file move to a private list under the lock.
Release(f) ==
    /\ f \in open /\ lock = None
    /\ \A t \in Threads : FileOf[t] = f => pc[t] = "idle"
    /\ open' = open \ {f}
    /\ releasing' = releasing \union Owned(f)
    /\ quiescedNs' = quiescedNs \ Owned(f)
    /\ UNCHANGED <<pc, target, lock, depth, stopped, dispatching, pinned>>

\* One entry of that list is resumed and its bdev file put.
ReleaseEntry(f) ==
    \E e \in releasing :
        /\ e[1] = f
        /\ Resume(e[2])
        /\ releasing' = releasing \ {e}
        /\ FputBdev(e[2], 1)
        /\ UNCHANGED <<open, pc, target, lock, quiescedNs, dispatching>>

\* The character device is opened again.
Open(f) ==
    /\ f \notin open /\ \A e \in releasing : e[1] # f
    /\ open' = open \union {f}
    /\ UNCHANGED <<pc, target, lock, quiescedNs, releasing, depth, stopped,
                   dispatching, pinned>>

-----------------------------------------------------------------------------
(* The block layer: a hardware context dispatches when its queue is not    *)
(* quiesced and it is not stopped.                                         *)

Dispatch(tg) ==
    /\ tg \notin dispatching /\ tg \notin stopped /\ depth[Bd(tg)] = 0
    /\ dispatching' = dispatching \union {tg}
    /\ UNCHANGED <<open, pc, target, lock, quiescedNs, releasing, depth, stopped, pinned>>

DispatchDone(tg) ==
    /\ tg \in dispatching
    /\ dispatching' = dispatching \ {tg}
    /\ UNCHANGED <<open, pc, target, lock, quiescedNs, releasing, depth, stopped, pinned>>

QuiesceSteps(t) ==
    \/ QuiesceLock(t) \/ QuiesceDrain(t) \/ StopHwQueue(t)
    \/ EndBriefQuiesce(t) \/ ListAdd(t)

UnquiesceSteps(t) == UnquiesceFind(t) \/ UnquiesceApply(t)

Next ==
    \/ \E t \in Threads : QuiesceNs(t) \/ UnquiesceNs(t) \/ QuiesceSteps(t) \/ UnquiesceSteps(t)
    \/ \E f \in Files : Release(f) \/ ReleaseEntry(f) \/ Open(f)
    \/ \E tg \in Bdevs \X Qids : Dispatch(tg) \/ DispatchDone(tg)

Spec == Init /\ [][Next]_vars

\* An ioctl that has started runs on, a mutex is eventually granted, a
\* released file's list is worked off, and a dispatch of the block layer ends.
Fairness ==
    /\ \A t \in Threads : /\ WF_vars(QuiesceDrain(t) \/ StopHwQueue(t)
                                     \/ EndBriefQuiesce(t) \/ ListAdd(t))
                          /\ SF_vars(QuiesceLock(t) \/ UnquiesceFind(t))
                          /\ WF_vars(UnquiesceApply(t))
    /\ \A f \in Files : WF_vars(ReleaseEntry(f))
    /\ \A tg \in Bdevs \X Qids : WF_vars(DispatchDone(tg))

LiveSpec == Spec /\ Fairness

-----------------------------------------------------------------------------
(* Properties.                                                             *)

Entries == quiescedNs \union releasing
EntriesOn(b) == {e \in Entries : Bd(e[2]) = b}
FullEntries(b) == {e \in Entries : e[2] = <<b, 0>>}

\* The ioctls that run on a namespace, and those of them that hold an unlinked
\* entry's reference besides their own.
RunningOn(b) == {t \in Threads : pc[t] # "idle" /\ Bd(target[t]) = b}
ApplyingOn(b) == {t \in Threads : pc[t] = "apply" /\ Bd(target[t]) = b}

\* At step l of an ioctl on tg a thread holds the queue of b quiesced on its own
\* account: inside the critical section after blk_mq_quiesce_queue, or past the
\* unlink of a whole-queue entry and before its blk_mq_unquiesce_queue.
Holds(l, tg, b) ==
    /\ Bd(tg) = b
    /\ l \in {"drain", "stop", "unbrief"} \/ (l \in {"add", "apply"} /\ Full(tg))

Holding(b) == {t \in Threads : Holds(pc[t], target[t], b)}

\* The block layer's quiesce_depth of a namespace is exactly the number of
\* whole-queue entries plus the ioctls inside their own quiesce window, and
\* every reference on a bdev file belongs to an entry or to a running ioctl: no
\* interleaving of QUIESCE_NS, UNQUIESCE_NS and release raises or lowers either
\* twice for one entry, and each early return puts exactly what it got.
CountsExact ==
    \A b \in Bdevs :
        /\ depth[b] = Cardinality(FullEntries(b)) + Cardinality(Holding(b))
        /\ pinned[b] = Cardinality(EntriesOn(b)) + Cardinality(RunningOn(b))
                       + Cardinality(ApplyingOn(b))

\* What a tracked entry promises its owner: the block layer is not dispatching
\* on the hardware queue that was isolated, or on any of them for qid 0.
Isolated ==
    \A e \in quiescedNs : \A d \in dispatching :
        Bd(d) = Bd(e[2]) => ~Full(e[2]) /\ d # e[2]

\* A caller that dies between QUIESCE_NS and UNQUIESCE_NS leaves no namespace
\* quiesced: once the files are closed every queue runs again, unless a file is
\* opened anew.
CrashResumes ==
    open = {} ~> (\/ open # {}
                  \/ stopped = {} /\ \A b \in Bdevs : depth[b] = 0)
=============================================================================
