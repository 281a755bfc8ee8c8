--------------------------- MODULE KmodResurrect ---------------------------
(***************************************************************************)
(* The life of an NVMe queue ID that a process takes over from the kernel: *)
(* the admin commands nvme-ep sends (deleteQueue, createQueueCommands, the *)
(* cleanup of run), what the kprobe on nvme_submit_user_cmd records of     *)
(* them in poisoned_qids, and the delayed work that gives the queue ID     *)
(* back to the kernel by CREATE_CQ and CREATE_SQ from a snapshot.          *)
(*                                                                         *)
(* A key is a pair <<bdf, qid>>.  The controller and the kernel's NVMe     *)
(* driver (its I/O, its reset) are external.  A session is one process     *)
(* that takes over one key once.                                           *)
(***************************************************************************)
EXTENDS Naturals, Sequences

CONSTANTS
    Bdfs,           \* NVMe controllers
    Qids,           \* I/O queue IDs
    Sessions,       \* the processes
    KeyOf,          \* the key each of them takes over
    DebugSessions,  \* the ones that test ROCM_XIO_DEBUG_RESURRECT_QID
    MaxOom,         \* bound: failed atomic allocations
    NoKey           \* the work has no entry in hand

Keys == Bdfs \X Qids

ASSUME ResurrectAssumption ==
    /\ KeyOf \in [Sessions -> Keys]
    /\ DebugSessions \subseteq Sessions
    /\ MaxOom \in Nat
    /\ NoKey \notin Keys

VARIABLES
    cq, sq,     \* who created the CQ, the SQ of a key the controller has
    ring,       \* are the host ring pointers of the kernel's queue in step
    stopped,    \* the keys whose hctx QUIESCE_NS stopped
    wedged,     \* controllers on which a kernel I/O will time out
    snapshots,  \* nvme_queue_snapshots: the keys that have one
    poisoned,   \* poisoned_qids, newest first: the keys it has entries for
    created,    \* entries with created
    needs,      \* entries with needs_resurrect
    armed,      \* rocm_xio_resurrect_work is pending
    wpc,        \* the step of the running work
    batch, cur, \* its to_resurrect list, and the entry in hand
    oom,        \* allocations that failed so far
    pc,         \* the step of each session
    teardown,   \* the sessions in their cleanup
    lost        \* history: the sessions whose queue the resurrection cannot restore

device == <<cq, sq, ring, stopped, wedged, snapshots>>
entries == <<poisoned, created, needs>>
work == <<wpc, batch, cur, oom>>
resurrectVars == <<device, entries, armed, work, pc, teardown, lost>>

\* The module was loaded before the controller came up, or after it.
ResurrectInit ==
    /\ cq = [k \in Keys |-> "kernel"] /\ sq = [k \in Keys |-> "kernel"]
    /\ ring = [k \in Keys |-> "synced"]
    /\ stopped = {} /\ wedged = {}
    /\ snapshots \in {Keys, {}}
    /\ poisoned = <<>> /\ created = {} /\ needs = {}
    /\ armed = FALSE
    /\ wpc = "idle" /\ batch = {} /\ cur = NoKey /\ oom = 0
    /\ pc = [s \in Sessions |-> "idle"]
    /\ teardown = {} /\ lost = {}

Goto(s, l) == pc' = [pc EXCEPT ![s] = l]

Lose(some) == lost' = lost \union some

-----------------------------------------------------------------------------
(* poisoned_qids.                                                          *)

\* The search through poisoned_qids for the entry of a controller and queue ID.
Listed(k) == \E i \in DOMAIN poisoned : poisoned[i] = k

\* poisoned_qid_mark_created; the atomic allocation of a new entry may fail,
\* which leaves the key untracked.
MarkCreated(k) ==
    \/ /\ poisoned' = IF Listed(k) THEN poisoned ELSE <<k>> \o poisoned
       /\ created' = created \union {k}
       /\ UNCHANGED oom
    \/ /\ ~Listed(k) /\ oom < MaxOom
       /\ oom' = oom + 1
       /\ UNCHANGED <<poisoned, created>>

\* The kprobe of a DELETE_CQ has no registered address to find the controller
\* by: the first entry with the queue ID that is marked created is taken.
DeletedKey(k) ==
    LET Matches(e) == e[2] = k[2] /\ e \in created
        hits == SelectSeq(poisoned, Matches)
    IN  IF hits = <<>> THEN NoKey ELSE Head(hits)

-----------------------------------------------------------------------------
(* A session: run, createQueue, createQueueCommands, deleteQueue.          *)

\* xioQuiesceNvmeNamespace for the queue ID; run() continues without it when the
\* module, the namespace or the ioctl fails.
Quiesce(s) ==
    /\ pc[s] = "idle"
    /\ stopped' \in {stopped, stopped \union {KeyOf[s]}}
    /\ Goto(s, "dsq")
    /\ UNCHANGED <<cq, sq, ring, wedged, snapshots, entries, armed, work, teardown, lost>>

\* createQueue fails before it has deleted anything.
SetupFails(s) ==
    /\ pc[s] = "dsq" /\ s \notin teardown
    /\ Goto(s, "unq")
    /\ UNCHANGED <<device, entries, armed, work, teardown, lost>>

\* The controller may refuse an admin command for reasons of its own.
Refusals == BOOLEAN

\* DELETE_SQ: an error is ignored.
DeleteSq(s) ==
    /\ pc[s] = "dsq"
    /\ \E refused \in Refusals :
         IF refused
           THEN Lose({s}) /\ UNCHANGED <<sq, ring>>
           ELSE /\ sq' = [sq EXCEPT ![KeyOf[s]] = "none"]
                /\ ring' = [ring EXCEPT ![KeyOf[s]] = "stale"]
                /\ UNCHANGED lost
    /\ Goto(s, "dcq")
    /\ UNCHANGED <<cq, stopped, wedged, snapshots, entries, armed, work, teardown>>

\* The kprobe's part of DELETE_CQ, under the spinlock.  In a cleanup it should
\* find the session's own entry.
KprobeDeleteCq(s) ==
    /\ pc[s] = "dcq"
    /\ LET k == DeletedKey(KeyOf[s]) IN
         /\ IF k = NoKey THEN Goto(s, "dcqDev") /\ UNCHANGED needs
                         ELSE Goto(s, "arm") /\ needs' = needs \union {k}
         /\ Lose(IF s \in teardown /\ k # KeyOf[s] THEN {s} ELSE {})
    /\ UNCHANGED <<device, poisoned, created, armed, work, teardown>>

\* mod_delayed_work, after the spinlock.
ScheduleResurrect(s) ==
    /\ pc[s] = "arm"
    /\ armed' = TRUE
    /\ Goto(s, "dcqDev")
    /\ UNCHANGED <<device, entries, work, teardown, lost>>

\* The controller executes DELETE_CQ, which fails while the SQ exists; the
\* error is ignored.
DeleteCq(s) ==
    /\ pc[s] = "dcqDev"
    /\ \E refused \in Refusals :
         /\ cq' = IF sq[KeyOf[s]] = "none" /\ ~refused
                    THEN [cq EXCEPT ![KeyOf[s]] = "none"] ELSE cq
         /\ Lose(IF refused THEN {s} ELSE {})
    /\ Goto(s, IF s \in teardown THEN "unq" ELSE "ccq")
    /\ UNCHANGED <<sq, ring, stopped, wedged, snapshots, entries, armed, work, teardown>>

\* The test-only ioctl, for a key whose queues the caller has deleted: marks the
\* entry created, then deleted, which schedules the work if there is an entry.
DebugResurrect(s) ==
    /\ pc[s] = "ccq" /\ s \in DebugSessions
    /\ MarkCreated(KeyOf[s])
    /\ IF KeyOf[s] \in created'
         THEN needs' = needs \union {KeyOf[s]} /\ armed' = TRUE /\ UNCHANGED lost
         ELSE Lose({s}) /\ UNCHANGED <<needs, armed>>
    /\ Goto(s, "unq")
    /\ UNCHANGED <<device, wpc, batch, cur, teardown>>

\* The kprobe's part of CREATE_CQ and of CREATE_SQ: the address is injected
\* and the entry marked before the controller sees the command.
KprobeCreate(s) ==
    /\ pc[s] \in {"ccq", "csq"}
    /\ MarkCreated(KeyOf[s])
    /\ Goto(s, IF pc[s] = "ccq" THEN "ccqDev" ELSE "csqDev")
    /\ UNCHANGED <<device, needs, armed, wpc, batch, cur, teardown, lost>>

\* A refused CREATE makes createQueue fail and run go to its cleanup, which
\* deletes nothing for a queue that was not created.
CreateCq(s) ==
    /\ pc[s] = "ccqDev"
    /\ \E refused \in Refusals :
         IF cq[KeyOf[s]] = "none" /\ ~refused
           THEN cq' = [cq EXCEPT ![KeyOf[s]] = "user"] /\ Goto(s, "csq") /\ UNCHANGED lost
           ELSE UNCHANGED cq /\ Goto(s, "unq") /\ Lose({s})
    /\ UNCHANGED <<sq, ring, stopped, wedged, snapshots, entries, armed, work, teardown>>

CreateSq(s) ==
    /\ pc[s] = "csqDev"
    /\ \E refused \in Refusals :
         IF sq[KeyOf[s]] = "none" /\ cq[KeyOf[s]] # "none" /\ ~refused
           THEN sq' = [sq EXCEPT ![KeyOf[s]] = "user"] /\ Goto(s, "run") /\ UNCHANGED lost
           ELSE UNCHANGED sq /\ Goto(s, "unq") /\ Lose({s})
    /\ UNCHANGED <<cq, ring, stopped, wedged, snapshots, entries, armed, work, teardown>>

\* The kernels are done: the cleanup opens the controller again and deletes the
\* queue; when the open fails the queue stays.
Finish(s) ==
    /\ pc[s] = "run"
    /\ \/ teardown' = teardown \union {s} /\ Goto(s, "dsq") /\ UNCHANGED lost
       \/ Lose({s}) /\ Goto(s, "unq") /\ UNCHANGED teardown
    /\ UNCHANGED <<device, entries, armed, work>>

\* The process is killed outside of an ioctl; the release of its file restarts
\* the hctx.
Kill(s) ==
    /\ pc[s] \in {"dsq", "dcq", "ccq", "csq", "run", "unq"}
    /\ stopped' = stopped \ {KeyOf[s]}
    /\ Lose(IF pc[s] = "unq" THEN {} ELSE {s})
    /\ Goto(s, "done")
    /\ UNCHANGED <<cq, sq, ring, wedged, snapshots, entries, armed, work, teardown>>

\* xioUnquiesceNvmeNamespace, right after the deletes.
Unquiesce(s) ==
    /\ pc[s] = "unq"
    /\ stopped' = stopped \ {KeyOf[s]}
    /\ Goto(s, "done")
    /\ UNCHANGED <<cq, sq, ring, wedged, snapshots, entries, armed, work, teardown, lost>>

-----------------------------------------------------------------------------
(* rocm_xio_resurrect_work_fn.                                             *)

ReArmNever(failed) == FALSE

\* Entries whose clone could not be allocated keep their flags, and the work
\* is scheduled again.
ReArm(failed) == failed # {}

\* The delay of 250 ms covers the DELETE_CQ that the kprobe saw start, and every
\* mod_delayed_work starts it anew.
DelayElapsed == \A s \in Sessions : pc[s] # "dcqDev"

ResurrectStart ==
    /\ wpc = "idle" /\ armed /\ DelayElapsed
    /\ \E failed \in SUBSET needs :
          /\ failed # {} => oom < MaxOom
          /\ oom' = IF failed = {} THEN oom ELSE oom + 1
          /\ batch' = needs \ failed
          /\ needs' = failed
          /\ created' = created \ (needs \ failed)
          /\ armed' = ReArm(failed)
          \* A work that was due already takes entries whose queue is not deleted yet.
          /\ Lose({s \in Sessions : /\ KeyOf[s] \in needs \ failed
                                    /\ pc[s] \notin {"idle", "unq", "done"}})
    /\ wpc' = "pick"
    /\ UNCHANGED <<device, poisoned, cur, pc, teardown>>

ContinueAnyway(k) == TRUE

\* The controller has no CQ of this ID, so CREATE_CQ succeeds.
Continue(k) == cq[k] = "none"

Owners(k) == {s \in Sessions : KeyOf[s] = k}

\* The next entry: without a snapshot it is dropped; otherwise CREATE_CQ, and
\* the entry is dropped when the controller refuses.
ResurrectCq(k) ==
    /\ wpc = "pick" /\ k \in batch
    /\ batch' = batch \ {k}
    /\ \E refused \in Refusals :
         /\ IF k \in snapshots /\ Continue(k) /\ ~refused
              THEN /\ cq' = [cq EXCEPT ![k] = IF @ = "none" THEN "kernel" ELSE @]
                   /\ cur' = k /\ wpc' = "sq"
              ELSE UNCHANGED <<cq, cur, wpc>>
         /\ Lose(IF k \notin snapshots \/ refused THEN Owners(k) ELSE {})
    /\ UNCHANGED <<sq, ring, stopped, wedged, snapshots, entries, armed, oom, pc, teardown>>

ResurrectSq ==
    /\ wpc = "sq"
    /\ \E refused \in Refusals :
         /\ IF sq[cur] = "none" /\ ~refused
              THEN sq' = [sq EXCEPT ![cur] = "kernel"] /\ wpc' = "reset"
              ELSE UNCHANGED sq /\ wpc' = "pick"
         /\ Lose(IF refused THEN Owners(cur) ELSE {})
    /\ UNCHANGED <<cq, ring, stopped, wedged, snapshots, entries, armed, batch, cur, oom,
                   pc, teardown>>

\* sq_tail, last_sq_tail, cq_head and cq_phase of the live nvme_queue.
WriteBack == ring' = [ring EXCEPT ![cur] = "synced"]

ResurrectReset ==
    /\ wpc = "reset"
    /\ WriteBack
    /\ wpc' = "pick"
    /\ UNCHANGED <<cq, sq, stopped, wedged, snapshots, entries, armed, batch, cur, oom,
                   pc, teardown, lost>>

ResurrectDone ==
    /\ wpc = "pick" /\ batch = {}
    /\ wpc' = "idle" /\ cur' = NoKey
    /\ UNCHANGED <<device, entries, armed, batch, oom, pc, teardown, lost>>

-----------------------------------------------------------------------------
(* The kernel's NVMe driver.                                               *)

Intact(k) == cq[k] = "kernel" /\ sq[k] = "kernel" /\ ring[k] = "synced"

\* An I/O on a queue the controller does not have, or has at other ring
\* positions, will time out.
KernelIo(k) ==
    /\ k \notin stopped
    /\ ~Intact(k)
    /\ wedged' = wedged \union {k[1]}
    /\ UNCHANGED <<cq, sq, ring, stopped, snapshots, entries, armed, work, pc, teardown,
                   lost>>

\* The timeout resets the controller: the driver creates its queues anew, and
\* the kretprobe on nvme_create_queue takes a snapshot of each.
ControllerReset(b) ==
    LET all == {b} \X Qids
        Renew(f, v) == [k \in Keys |-> IF k \in all THEN v ELSE f[k]]
    IN  /\ b \in wedged
        /\ wedged' = wedged \ {b}
        /\ cq' = Renew(cq, "kernel") /\ sq' = Renew(sq, "kernel")
        /\ ring' = Renew(ring, "synced")
        /\ snapshots' = snapshots \union all
        /\ UNCHANGED <<stopped, entries, armed, work, pc, teardown, lost>>

SessionStep(s) ==
    \/ DeleteSq(s) \/ KprobeDeleteCq(s) \/ ScheduleResurrect(s) \/ DeleteCq(s)
    \/ KprobeCreate(s) \/ CreateCq(s) \/ CreateSq(s) \/ Finish(s) \/ Unquiesce(s)

WorkStep ==
    \/ ResurrectStart \/ ResurrectSq \/ ResurrectReset \/ ResurrectDone
    \/ \E k \in Keys : ResurrectCq(k)

ResurrectNext ==
    \/ \E s \in Sessions : \/ Quiesce(s) \/ SetupFails(s) \/ SessionStep(s)
                           \/ DebugResurrect(s) \/ Kill(s)
    \/ WorkStep
    \/ \E k \in Keys : KernelIo(k)
    \/ \E b \in Bdfs : ControllerReset(b)

ResurrectSpec == ResurrectInit /\ [][ResurrectNext]_resurrectVars

\* A session that has begun runs to its end, a pending work runs, and a
\* timed-out I/O resets its controller.
Fairness ==
    /\ \A s \in Sessions : WF_resurrectVars(SessionStep(s))
    /\ WF_resurrectVars(WorkStep)
    /\ \A b \in Bdfs : WF_resurrectVars(ControllerReset(b))

LiveSpec == ResurrectSpec /\ Fairness

-----------------------------------------------------------------------------
(* Properties.                                                             *)

\* The controller's queues of a key belong together: no order of a process's
\* commands, the resurrection and a reset gives a kernel SQ a user's CQ, or the
\* reverse.
PairedQueues ==
    \A k \in Keys : sq[k] # "none" => cq[k] = sq[k]

\* A process that took a queue ID over and has ended leaves it to the kernel: the
\* queue is created again from the snapshot, and no wake-up of the work is lost on
\* the way, also when the clone of an entry could not be allocated and whatever
\* other processes do.  Excepted are the sessions in lost: a command was refused,
\* the process was killed or could not open the controller for its cleanup, there
\* was no snapshot, its entry could not be allocated or another controller's was
\* taken for it, or a work that was already due took the entry before the
\* DELETE_CQ it stands for was executed.
Restored ==
    \A s \in Sessions : pc[s] = "done" ~> (Intact(KeyOf[s]) \/ s \in lost)
=============================================================================
