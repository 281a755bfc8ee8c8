--------------------------- MODULE RdmaEndpoint ---------------------------
(***************************************************************************)
(* The data path of the RDMA endpoint: one GPU thread posts work requests  *)
(* to the send queue of a NIC, rings its doorbell and waits in quiet()     *)
(* until the completion queue shows that they are done.  The kernel is     *)
(* rdma_ep_kernel or rdma_ep_batch_kernel; the four providers differ in    *)
(* how they count what is outstanding, and each is modelled as coded:      *)
(* bnxt and ernic with indices modulo the ring, mlx5 and ionic with        *)
(* free-running counters.                                                  *)
(***************************************************************************)
EXTENDS Integers, FiniteSets

CONSTANTS
    Configs,        \* the runs that are checked, see ConfigType
    Uninitialised,  \* what mlx5's available_slots may hold when it is declared
    Word            \* counters wrap at this power of two (2^16 in mlx5 and bnxt, 2^24 in ionic)

Providers == {"bnxt", "ernic", "mlx5", "ionic"}

\* rdma_ep_kernel, rdma_ep_batch_kernel, and a kernel that calls the QueuePair itself: the
\* last posts batch work requests with ring_db before it calls quiet(), and sets no stop flag.
Kernels == {"single", "batch", "caller"}

\* depth and cqDepth are in entries of the rings (16-byte slots for bnxt's send queue).
ConfigType ==
    [provider : Providers, depth : Nat \ {0}, cqDepth : Nat \ {0},
     batch : Nat \ {0}, iterations : Nat \ {0}, kernel : Kernels]

\* GDA_BNXT_WQE_SLOT_COUNT
BnxtSlotCount == 3

WqeSlots(c) == IF c.provider = "bnxt" THEN BnxtSlotCount ELSE 1

\* validateConfig bounds the batch by the depth of the ring.  The counters wrap at the end of
\* a lap: the rings of mlx5 and ionic are powers of two, and bnxt's divides three times the range
\* of con_indx when --inline-threshold is at most 32 (BnxtSizing, LapsWhole; the default is 28).
ASSUME ConfigAssumption ==
    /\ Configs \subseteq ConfigType
    /\ Uninitialised \subseteq Nat /\ Uninitialised # {}
    /\ Word \in Nat \ {0} /\ \A c \in Configs : (Word * WqeSlots(c)) % c.depth = 0
    /\ \A c \in Configs : c.kernel = "single" => c.batch = 1
    /\ \A c \in Configs : c.kernel = "batch" => c.batch * WqeSlots(c) < c.depth

NotPolling == -1

VARIABLES
    config,     \* the configuration of the run
    pc,         \* where the kernel is
    opsDone,    \* sh_ops_done, or i
    batchCount, \* sh_batch_count, 1 in rdma_ep_kernel
    b,          \* work requests posted in this batch
    stop,       \* *stopRequested
    sq,         \* slot -> number of the work request in it, 0 before the first
    tail,       \* sq.tail, or sq_prod_ for ionic
    head,       \* sq.head, or sq_msn_ for ionic
    posted,     \* work requests written; also mlx5's sq.post
    cons,       \* the consumer index of the completion queue
    available,  \* mlx5's available_slots, NotPolling outside of its poll loop
    guessed,    \* whether that loop has ended before it assigned available_slots
    doorbell,   \* work requests the NIC has been told of
    done,       \* work requests the NIC has completed
    failed,     \* whether one of them failed
    cq          \* index -> the newest completion there, its lap bit and its status

kernelVars == <<config, pc, opsDone, batchCount, b, stop>>
mlx5Vars == <<available, guessed>>
queueVars == <<sq, tail, head, posted, cons, mlx5Vars>>
nicVars == <<doorbell, done, failed, cq>>
vars == <<kernelVars, queueVars, nicVars>>

Init ==
    /\ config \in Configs
    /\ pc = "top" /\ opsDone = 0 /\ batchCount = 0 /\ b = 0 /\ stop = FALSE
    /\ sq = [s \in 0 .. config.depth - 1 |-> 0]
    /\ tail = 0 /\ head = 0 /\ posted = 0 /\ cons = 0 /\ available = NotPolling /\ guessed = FALSE
    /\ doorbell = 0 /\ done = 0 /\ failed = FALSE
    /\ cq = [s \in 0 .. config.cqDepth - 1 |-> [wqe |-> 0, lap |-> 1, ok |-> TRUE]]

(***************************************************************************)
(* The loops of the kernels.                                               *)
(***************************************************************************)
NextBatch ==
    /\ pc = "top"
    /\ LET remaining == config.iterations - opsDone
       IN  IF remaining = 0 \/ stop
           THEN pc' = "end" /\ UNCHANGED <<batchCount, b>>
           ELSE /\ pc' = "space" /\ b' = 0
                /\ batchCount' = IF remaining < config.batch THEN remaining ELSE config.batch
    /\ UNCHANGED <<config, opsDone, stop, queueVars, nicVars>>

\* verify_buffer, and the end of an iteration.
Verify ==
    /\ pc = "verify"
    /\ opsDone' = opsDone + batchCount
    /\ pc' = "top"
    /\ UNCHANGED <<config, batchCount, b, stop, queueVars, nicVars>>

RequestStop ==
    /\ config.kernel # "caller"
    /\ ~stop /\ stop' = TRUE
    /\ UNCHANGED <<config, pc, opsDone, batchCount, b, queueVars, nicVars>>

(***************************************************************************)
(* Waiting for completions.  pc = "space" is poll_cq_until (reserve_sq for *)
(* ionic) called before a work request is written, pc = "quiet" the same   *)
(* function called from quiet().                                           *)
(***************************************************************************)
Polling == pc \in {"space", "quiet"}

RequestedNone == IF pc = "quiet" THEN config.depth ELSE 0

Requested == IF pc = "quiet" THEN config.depth ELSE WqeSlots(config)

Return == pc' = IF pc = "quiet" THEN "verify" ELSE "write"

Resume(enough) == IF enough THEN Return ELSE pc' = pc

CqeReadyFirstLap == cq[cons % config.cqDepth].lap = 0

\* A completion at the consumer index, told from the one a lap ago by the owner, phase
\* or colour bit the NIC flips on every lap.
CqeReady == cq[cons % config.cqDepth].lap = (cons \div config.cqDepth) % 2

CqeOk == cq[cons % config.cqDepth].ok

\* The slots between head and tail; a full ring looks empty.
RingAvailable(h) == config.depth - ((tail - h + config.depth) % config.depth)

ErnicPoll ==
    /\ Polling /\ config.provider = "ernic"
    /\ LET ring == 2 * config.cqDepth
           new  == done % ring # cons
           h    == IF new THEN (head + 1) % config.depth ELSE head
       IN  /\ head' = h
           /\ cons' = IF new THEN (cons + 1) % ring ELSE cons
           /\ Resume(RingAvailable(h) >= Requested)
    /\ UNCHANGED <<config, opsDone, batchCount, b, stop, sq, tail, posted, mlx5Vars, nicVars>>

BnxtHeadNext(con) == (((con + 1) % Word) * BnxtSlotCount) % config.depth

\* con_indx & 0xFFFF, in slots.
BnxtHead(con) == ((con % Word) * BnxtSlotCount) % config.depth

\* cons is cq_cons.  The code keeps it in bnxt_cq_.head only when the loop ends with enough
\* slots; after a stop, every call returns on its first look at the flag and reads neither.
BnxtPoll ==
    /\ Polling /\ config.provider = "bnxt"
    /\ \/ /\ RingAvailable(head) >= Requested
          /\ Return
          /\ UNCHANGED <<head, cons>>
       \/ /\ RingAvailable(head) < Requested /\ CqeReady
          /\ head' = BnxtHead(cq[cons % config.cqDepth].wqe)
          /\ cons' = cons + 1
          /\ pc' = pc
    /\ UNCHANGED <<config, opsDone, batchCount, b, stop, sq, tail, posted, mlx5Vars, nicVars>>

\* The test before the loop, and the entry into it with available_slots uninitialised.
Mlx5Enter ==
    /\ Polling /\ config.provider = "mlx5" /\ available = NotPolling
    /\ \/ posted <= config.depth - Requested /\ Return /\ UNCHANGED available
       \/ posted > config.depth - Requested /\ pc' = pc /\ available' \in Uninitialised
    /\ UNCHANGED <<config, opsDone, batchCount, b, stop, sq, tail, head, posted, cons, guessed, nicVars>>

\* One iteration of the loop; an error completion aborts the kernel (PollAborts).  Without a
\* completion, continue goes to the condition of the do-while with available_slots as it is.
Mlx5Poll ==
    /\ Polling /\ config.provider = "mlx5" /\ available # NotPolling
    /\ CqeReady => CqeOk
    /\ LET sq_head == cq[cons % config.cqDepth].wqe - 1
           slots   == IF CqeReady
                      THEN config.depth - ((tail - (sq_head + 1)) % Word)
                      ELSE available
       IN  /\ cons' = IF CqeReady THEN cons + 1 ELSE cons
           /\ Resume(slots >= Requested)
           /\ available' = IF slots >= Requested THEN NotPolling ELSE slots
           /\ guessed' = (guessed \/ (~CqeReady /\ slots >= Requested))
    /\ UNCHANGED <<config, opsDone, batchCount, b, stop, sq, tail, head, posted, nicVars>>

\* reserve_sq has added to sq_prod_ before it waits; one slot of the ring stays free.
IonicTarget == IF pc = "quiet" THEN tail ELSE tail + 1 - (config.depth - 1)

\* (sq_msn_ - cons) & 0x800000
Behind(msn, target) == (msn - target) % Word >= Word \div 2

\* A queue pair without cq_mask_ would wait on a single rewritten completion instead; the
\* backend asks for no such completion queue, and takes the mask of the one it gets.
IonicPoll ==
    /\ Polling /\ config.provider = "ionic"
    /\ \/ /\ ~Behind(head, IonicTarget)
          /\ Return
          /\ UNCHANGED <<head, cons>>
       \/ /\ Behind(head, IonicTarget) /\ CqeReady /\ CqeOk
          /\ head' = cq[cons % config.cqDepth].wqe % Word
          /\ cons' = cons + 1
          /\ pc' = pc
    /\ UNCHANGED <<config, opsDone, batchCount, b, stop, sq, tail, posted, mlx5Vars, nicVars>>

\* Whether the loop of the provider looks at the completion at all, and at its status: bnxt
\* and ernic do not.
ChecksStatus ==
    \/ config.provider = "mlx5" /\ available # NotPolling
    \/ config.provider = "ionic" /\ Behind(head, IonicTarget)

\* check_cqe_error, and the error bit in poll_wave_cqes: abort().
PollAborts ==
    /\ Polling /\ ChecksStatus /\ CqeReady /\ ~CqeOk
    /\ pc' = "abort"
    /\ UNCHANGED <<config, opsDone, batchCount, b, stop, queueVars, nicVars>>

\* bnxt and ionic look at the stop flag on the first and then every hundredth iteration.
StopAware == config.provider \in {"bnxt", "ionic"}

PollStopped ==
    /\ Polling /\ stop /\ StopAware
    /\ Return
    /\ UNCHANGED <<config, opsDone, batchCount, b, stop, queueVars, nicVars>>

(***************************************************************************)
(* Posting, and the doorbell.                                              *)
(***************************************************************************)
FirstSlot(n) ==
    IF config.provider \in {"bnxt", "ernic"} THEN n ELSE n % config.depth

\* The slots a work request written at index n occupies.
SlotsOf(n) == {(FirstSlot(n) + i) % config.depth : i \in 0 .. WqeSlots(config) - 1}

AdvanceTail ==
    IF config.provider \in {"bnxt", "ernic"}
    THEN (tail + WqeSlots(config)) % config.depth
    ELSE (tail + 1) % Word

\* What the NIC takes from a doorbell: ernic's counts rings, the others carry the tail.
Rung(n) == IF config.provider = "ernic" THEN doorbell + 1 ELSE n

\* Only the batch kernel defers the doorbell, and ionic ignores ring_db.
RingsNow == config.kernel # "batch" \/ config.provider = "ionic"

WriteWqe ==
    /\ pc = "write"
    /\ sq' = [s \in DOMAIN sq |-> IF s \in SlotsOf(tail) THEN posted + 1 ELSE sq[s]]
    /\ tail' = AdvanceTail
    /\ posted' = posted + 1
    /\ b' = b + 1
    /\ doorbell' = IF RingsNow THEN Rung(posted + 1) ELSE doorbell
    /\ pc' = IF b + 1 < batchCount THEN "space" ELSE "doorbell"
    /\ UNCHANGED <<config, opsDone, batchCount, stop, head, cons, mlx5Vars, done, failed, cq>>

\* ring_doorbell_single at the end of a batch.
RingDoorbell ==
    /\ pc = "doorbell"
    /\ doorbell' = IF RingsNow THEN doorbell ELSE Rung(posted)
    /\ pc' = "quiet"
    /\ UNCHANGED <<config, opsDone, batchCount, b, stop, queueVars, done, failed, cq>>

(***************************************************************************)
(* The NIC completes the work requests it has been told of in order, with  *)
(* success or an error, and reports each.                                  *)
(***************************************************************************)
Nic ==
    /\ done < doorbell
    /\ done' = done + 1
    /\ \E ok \in BOOLEAN :
         /\ failed' = (failed \/ ~ok)
         /\ cq' = [cq EXCEPT ![done % config.cqDepth] =
                      [wqe |-> done + 1, lap |-> (done \div config.cqDepth) % 2, ok |-> ok]]
    /\ UNCHANGED <<kernelVars, queueVars, doorbell>>

PollCqUntil ==
    ErnicPoll \/ BnxtPoll \/ Mlx5Enter \/ Mlx5Poll \/ IonicPoll \/ PollAborts \/ PollStopped

Kernel == NextBatch \/ Verify \/ WriteWqe \/ RingDoorbell \/ PollCqUntil

Next == Kernel \/ Nic \/ RequestStop

Spec == Init /\ [][Next]_vars

\* A launched kernel keeps running, and a poll loop keeps looking at the stop flag.
FairSpec == Spec /\ WF_vars(Kernel) /\ WF_vars(PollStopped)

NicFairness == WF_vars(Nic)

-----------------------------------------------------------------------------
\* quiet() returns, and the buffers are verified, only when every work request that was
\* posted has been completed, unless the run is being stopped or mlx5's loop has ended on the
\* value its available_slots was declared with; and for mlx5 and ionic, whose loops abort on an
\* error completion, only when all of them succeeded.
QuietWaits ==
    pc = "verify" /\ ~stop /\ ~guessed =>
        /\ done = posted
        /\ failed => config.provider \in {"bnxt", "ernic"}

\* A work request is never written over one the NIC has not completed yet (poll_cq_until and
\* reserve_sq before every post), with the same exception.
NoOverwrite == [][~guessed => \A s \in DOMAIN sq : sq'[s] # sq[s] => sq[s] <= done]_vars

Ended == pc \in {"end", "abort"}

\* With a NIC that works the kernel comes to its end or aborts; and once a stop is requested it does
\* so whatever the NIC does, for the providers whose poll loops look at the flag; with the same exception.
RunEnds ==
    /\ NicFairness => <>(Ended \/ guessed)
    /\ (stop /\ StopAware) ~> Ended
=============================================================================
