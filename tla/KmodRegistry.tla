---------------------------- MODULE KmodRegistry ----------------------------
(***************************************************************************)
(* The kernel module's two registries and the kprobe that reads them.      *)
(*                                                                         *)
(* A process registers the virtual address of each queue it allocated      *)
(* (queue_addrs) and of each data buffer (vram_buffers). The kprobe on     *)
(* nvme_submit_user_cmd replaces addresses in NVMe commands by what it     *)
(* finds there: PRP1 and PRP2 of CREATE_CQ and CREATE_SQ, the data         *)
(* pointers of I/O commands. A passthrough buffer also keeps a dma-buf     *)
(* attachment, taken in five steps each of which may fail.                 *)
(*                                                                         *)
(* A file is one process's open /dev/rocm-xio, and makes one call at a     *)
(* time. Memory is counted in allocations: the n-th allocation of the      *)
(* system is 1..MaxAllocs, and a physical address is an allocation with    *)
(* an offset. A list is the set of its entries, each with the number of    *)
(* the list_add that put it there: list_add puts the newest entry first,   *)
(* and a traversal takes the entries in that order.                        *)
(***************************************************************************)
EXTENDS Integers

CONSTANTS Files,       \* open file descriptions, one per process
          Vas,         \* the pages of a process's address space
          LowVas,      \* those below 4 GiB
          MaxAllocs,   \* bound on allocations
          OneAtATime,  \* TRUE: a process starts when the others have ended
          None

ASSUME RegistryAssumption ==
    /\ Vas \subseteq Nat
    /\ LowVas \subseteq Vas
    /\ MaxAllocs \in Nat
    /\ OneAtATime \in BOOLEAN
    /\ None \notin Files \union Nat

Allocs == 1..MaxAllocs

\* What a dma-buf attachment consists of.
Resources == {"pdev", "dmabuf", "attach", "pin", "map"}

VARIABLES status,      \* of each file: "new", "open", "closing", "closed"
          mem,         \* each process's page table: Vas to <<alloc, offset>>
          allocs,      \* number of allocations so far
          queue_addrs, \* registered queues
          vram_buffers,\* registered buffers
          listed,      \* number of entries put on a list so far
          held,        \* the resources held for each allocation
          pc,          \* where each file's call is
          job          \* what it works on

vars == <<status, mem, allocs, queue_addrs, vram_buffers, listed, held, pc, job>>

NoJob == [va |-> None, size |-> 0, alloc |-> None, passthrough |-> FALSE,
          step |-> 0, todo |-> {}, prp1 |-> None, prp2 |-> None,
          hijack |-> None, va2 |-> None, data2 |-> None]

Init ==
    /\ status = [f \in Files |-> "new"]
    /\ mem = [f \in Files |-> [va \in Vas |-> None]]
    /\ allocs = 0
    /\ queue_addrs = {}
    /\ vram_buffers = {}
    /\ listed = 0
    /\ held = [a \in Allocs |-> {}]
    /\ pc = [f \in Files |-> "idle"]
    /\ job = [f \in Files |-> NoJob]

Idle(f) == status[f] = "open" /\ pc[f] = "idle"

Open(f) ==
    /\ status[f] = "new"
    /\ OneAtATime => \A g \in Files : status[g] # "open"
    /\ status' = [status EXCEPT ![f] = "open"]
    /\ UNCHANGED <<mem, allocs, queue_addrs, vram_buffers, listed, held, pc, job>>

(***************************************************************************)
(* Lists.                                                                  *)
(***************************************************************************)
\* The range test of the lookups.
Covers(e, va) == va >= e.virt /\ va < e.virt + e.size

ListAddTail(list, e) == list \union {[e EXCEPT !.at = -listed - 1]}

\* list_add.
ListAdd(list, e) == list \union {[e EXCEPT !.at = listed + 1]}

\* What a traversal that stops at the first match returns.
FirstOf(matches) ==
    IF matches = {} THEN {None}
    ELSE {e \in matches : \A d \in matches : d.at <= e.at}

(***************************************************************************)
(* The process: it allocates size pages at va, and frees what it has there.*)
(***************************************************************************)
Allocate(f, va, size) ==
    /\ allocs < MaxAllocs
    /\ \A p \in va..(va + size - 1) : p \in Vas /\ mem[f][p] = None
    /\ allocs' = allocs + 1
    /\ mem' = [mem EXCEPT ![f] =
                 [p \in Vas |-> IF p \in va..(va + size - 1)
                                THEN <<allocs + 1, p - va>> ELSE @[p]]]

\* hipFree or free, without a call of the module (freeQueueSetup).
FreeMemory(f, va) ==
    /\ Idle(f)
    /\ mem[f][va] # None
    /\ mem' = [mem EXCEPT ![f] =
                 [p \in Vas |-> IF @[p] # None /\ @[p][1] = mem[f][va][1]
                                THEN None ELSE @[p]]]
    /\ UNCHANGED <<status, allocs, queue_addrs, vram_buffers, listed, held, pc, job>>

(***************************************************************************)
(* Queue registrations.                                                    *)
(***************************************************************************)
\* REGISTER_QUEUE_ADDR, with the allocation of the queue before it. The
\* entry comes from kmalloc and its owner is not assigned: it is any value.
RegisterQueueAddr(f, va, size, prp2, garbage) ==
    /\ Idle(f)
    /\ Allocate(f, va, size)
    /\ queue_addrs' = ListAdd(queue_addrs,
                              [virt |-> va, size |-> size,
                               alloc |-> allocs + 1, prp2 |-> prp2,
                               owner |-> garbage, at |-> 0])
    /\ listed' = listed + 1
    /\ UNCHANGED <<status, vram_buffers, held, pc, job>>

\* UNREGISTER_QUEUE_ADDR; without a match it returns -ENOENT.
UnregisterQueueAddr(f, va) ==
    /\ Idle(f)
    /\ \E e \in FirstOf({d \in queue_addrs : d.virt = va /\ d.owner = f}) :
         /\ e # None
         /\ queue_addrs' = queue_addrs \ {e}
    /\ UNCHANGED <<status, mem, allocs, vram_buffers, listed, held, pc, job>>

(***************************************************************************)
(* The kprobe on CREATE_CQ and CREATE_SQ: three lookups, each of which     *)
(* takes and drops the list lock.                                          *)
(***************************************************************************)
\* The process uses an address in commands after it has registered it.
Registered(f, va, list) ==
    /\ mem[f][va] # None
    /\ \E e \in list : e.alloc = mem[f][va][1]

LookupQueue(va) == FirstOf({e \in queue_addrs : Covers(e, va)})

\* lookup_queue_phys_addr. An address that is not registered goes to the
\* controller as it is, with prp1 None here.
KprobeCreate(f, va) ==
    /\ Idle(f)
    /\ Registered(f, va, queue_addrs)
    /\ \E e \in LookupQueue(va) :
        /\ pc' = [pc EXCEPT ![f] = IF e = None THEN "injected" ELSE "prp2"]
        /\ job' = [job EXCEPT ![f] =
                     [NoJob EXCEPT
                        !.va = va,
                        !.prp1 = IF e = None THEN None
                                 ELSE <<e.alloc, va - e.virt>>]]
    /\ UNCHANGED <<status, mem, allocs, queue_addrs, vram_buffers, listed, held>>

\* lookup_queue_prp2: kept when it is not zero.
KprobePrp2(f) ==
    /\ pc[f] = "prp2"
    /\ \E e \in LookupQueue(job[f].va) :
         job' = [job EXCEPT ![f].prp2 =
                   IF e # None /\ e.prp2 THEN e.alloc ELSE None]
    /\ pc' = [pc EXCEPT ![f] = "hijack"]
    /\ UNCHANGED <<status, mem, allocs, queue_addrs, vram_buffers, listed, held>>

\* lookup_queue_bdf: the device the hijack is booked on is the entry's.
KprobeHijack(f) ==
    /\ pc[f] = "hijack"
    /\ \E e \in LookupQueue(job[f].va) :
         job' = [job EXCEPT ![f].hijack = IF e = None THEN None ELSE e.alloc]
    /\ pc' = [pc EXCEPT ![f] = "injected"]
    /\ UNCHANGED <<status, mem, allocs, queue_addrs, vram_buffers, listed, held>>

LookupBuffer(va) == FirstOf({e \in vram_buffers : Covers(e, va)})

\* What a data pointer of an I/O command is replaced by. One that is not below
\* 4 GiB, or in no registered buffer, stays as it is: None here.
Replacement(va) ==
    {IF va \notin LowVas \/ e = None THEN None ELSE <<e.alloc, va - e.virt>> :
       e \in LookupBuffer(va)}

\* The kprobe on an I/O command: PRP1 first.
KprobeIo(f, va) ==
    /\ Idle(f)
    /\ Registered(f, va, vram_buffers)
    /\ \E x \in Replacement(va) :
         job' = [job EXCEPT ![f] = [NoJob EXCEPT !.va = va, !.prp1 = x]]
    /\ pc' = [pc EXCEPT ![f] = "io"]
    /\ UNCHANGED <<status, mem, allocs, queue_addrs, vram_buffers, listed, held>>

\* Then PRP2, with a lookup of its own, if the command has one.
KprobeIoPrp2(f, va) ==
    /\ pc[f] = "io"
    /\ Registered(f, va, vram_buffers)
    /\ \E x \in Replacement(va) :
         job' = [job EXCEPT ![f] = [@ EXCEPT !.va2 = va, !.data2 = x]]
    /\ pc' = [pc EXCEPT ![f] = "injected"]
    /\ UNCHANGED <<status, mem, allocs, queue_addrs, vram_buffers, listed, held>>

KprobeIoNoPrp2(f) ==
    /\ pc[f] = "io"
    /\ pc' = [pc EXCEPT ![f] = "injected"]
    /\ UNCHANGED <<status, mem, allocs, queue_addrs, vram_buffers, listed, held, job>>

\* The NVMe driver runs the command and returns to the process.
Submitted(f) ==
    /\ pc[f] = "injected"
    /\ pc' = [pc EXCEPT ![f] = "idle"]
    /\ job' = [job EXCEPT ![f] = NoJob]
    /\ UNCHANGED <<status, mem, allocs, queue_addrs, vram_buffers, listed, held>>

(***************************************************************************)
(* Buffer registrations.                                                   *)
(***************************************************************************)
\* The order get_dmabuf_phys_addr (passthrough) and get_dmabuf_bar_gpa
\* (emulated) acquire their resources in.
Order(passthrough) ==
    IF passthrough THEN <<"pdev", "dmabuf", "attach", "pin", "map">>
                   ELSE <<"dmabuf", "pdev", "attach", "pin", "map">>

\* What the labels of the error path release when a step fails.
UnwindSkipsPdev(passthrough, step) ==
    {Order(passthrough)[i] : i \in 1..(step - 1)} \ {"pdev"}

Unwind(passthrough, step) == {Order(passthrough)[i] : i \in 1..(step - 1)}

\* REGISTER_BUFFER, with the allocation of the buffer before it.
RegisterBuffer(f, va, size, passthrough) ==
    /\ Idle(f)
    /\ Allocate(f, va, size)
    /\ pc' = [pc EXCEPT ![f] = "acquire"]
    /\ job' = [job EXCEPT ![f] =
                 [NoJob EXCEPT !.va = va, !.size = size, !.alloc = allocs + 1,
                               !.passthrough = passthrough, !.step = 1]]
    /\ UNCHANGED <<status, queue_addrs, vram_buffers, listed, held>>

Acquire(f) ==
    LET j == job[f]
    IN  /\ pc[f] = "acquire"
        /\ j.step <= 5
        /\ held' = [held EXCEPT ![j.alloc] =
                      @ \union {Order(j.passthrough)[j.step]}]
        /\ job' = [job EXCEPT ![f].step = @ + 1]
        /\ UNCHANGED <<status, mem, allocs, queue_addrs, vram_buffers, listed, pc>>

\* A step fails, or (after the last) the mapping has more than one segment
\* or none, or the GPU has no VRAM BAR: back out and return the error.
AcquireFails(f) ==
    LET j == job[f]
    IN  /\ pc[f] = "acquire"
        /\ held' = [held EXCEPT ![j.alloc] =
                      @ \ Unwind(j.passthrough, j.step)]
        /\ pc' = [pc EXCEPT ![f] = "idle"]
        /\ job' = [job EXCEPT ![f] = NoJob]
        /\ UNCHANGED <<status, mem, allocs, queue_addrs, vram_buffers, listed>>

\* Only a passthrough buffer stays attached.
KeptAlive(j) ==
    IF j.passthrough THEN held
    ELSE [held EXCEPT ![j.alloc] = @ \ Unwind(FALSE, 6)]

\* The address is known. The emulated path gives everything back already.
Acquired(f) ==
    LET j == job[f]
    IN  /\ pc[f] = "acquire"
        /\ j.step = 6
        /\ held' = KeptAlive(j)
        /\ pc' = [pc EXCEPT ![f] = "entry"]
        /\ UNCHANGED <<status, mem, allocs, queue_addrs, vram_buffers, listed, job>>

\* Unmap, unpin, detach, and put the dma-buf and the device.
Detach(e) ==
    IF e.passthrough THEN [held EXCEPT ![e.alloc] = {}] ELSE held

\* kmalloc and list_add.
BufferListed(f) ==
    /\ pc[f] = "entry"
    /\ vram_buffers' = ListAdd(vram_buffers,
                               [virt |-> job[f].va, size |-> job[f].size,
                                alloc |-> job[f].alloc,
                                passthrough |-> job[f].passthrough,
                                owner |-> f, at |-> 0])
    /\ listed' = listed + 1
    /\ pc' = [pc EXCEPT ![f] = "copy"]
    /\ UNCHANGED <<status, mem, allocs, queue_addrs, held, job>>

BufferNoEntry(f) ==
    /\ pc[f] = "entry"
    /\ held' = Detach(job[f])
    /\ pc' = [pc EXCEPT ![f] = "idle"]
    /\ job' = [job EXCEPT ![f] = NoJob]
    /\ UNCHANGED <<status, mem, allocs, queue_addrs, vram_buffers, listed>>

CopyToUser(f) ==
    /\ pc[f] = "copy"
    /\ pc' = [pc EXCEPT ![f] = "idle"]
    /\ job' = [job EXCEPT ![f] = NoJob]
    /\ UNCHANGED <<status, mem, allocs, queue_addrs, vram_buffers, listed, held>>

\* list_del of this call's own entry, then its clean-up.
CopyToUserFails(f) ==
    /\ pc[f] = "copy"
    /\ \E e \in {d \in vram_buffers : d.alloc = job[f].alloc} :
         /\ vram_buffers' = vram_buffers \ {e}
         /\ job' = [job EXCEPT ![f] = [NoJob EXCEPT !.todo = {e}]]
    /\ pc' = [pc EXCEPT ![f] = "detach"]
    /\ UNCHANGED <<status, mem, allocs, queue_addrs, listed, held>>

\* UNREGISTER_BUFFER: list_del under the lock, the clean-up after it.
UnregisterBuffer(f, va) ==
    /\ Idle(f)
    /\ \E e \in FirstOf({d \in vram_buffers : d.virt = va /\ d.owner = f}) :
         /\ e # None
         /\ vram_buffers' = vram_buffers \ {e}
         /\ job' = [job EXCEPT ![f] = [NoJob EXCEPT !.todo = {e}]]
    /\ pc' = [pc EXCEPT ![f] = "detach"]
    /\ UNCHANGED <<status, mem, allocs, queue_addrs, listed, held>>

\* One entry that a call took off the list.
DetachOne(f) ==
    /\ pc[f] = "detach"
    /\ \E e \in job[f].todo :
        /\ held' = Detach(e)
        /\ job' = [job EXCEPT ![f].todo = @ \ {e}]
    /\ UNCHANGED <<status, mem, allocs, queue_addrs, vram_buffers, listed, pc>>

\* The call returns; release is the file's last.
Detached(f) ==
    /\ pc[f] = "detach"
    /\ job[f].todo = {}
    /\ pc' = [pc EXCEPT ![f] = "idle"]
    /\ job' = [job EXCEPT ![f] = NoJob]
    /\ status' = [status EXCEPT ![f] = IF @ = "closing" THEN "closed" ELSE @]
    /\ UNCHANGED <<mem, allocs, queue_addrs, vram_buffers, listed, held>>

(***************************************************************************)
(* The end of the process: its memory goes, and rocm_xio_release takes     *)
(* the entries whose owner is the file off both lists.                     *)
(***************************************************************************)
Release(f) ==
    /\ Idle(f)
    /\ status' = [status EXCEPT ![f] = "closing"]
    /\ mem' = [mem EXCEPT ![f] = [va \in Vas |-> None]]
    /\ queue_addrs' = {e \in queue_addrs : e.owner # f}
    /\ vram_buffers' = {e \in vram_buffers : e.owner # f}
    /\ pc' = [pc EXCEPT ![f] = "detach"]
    /\ job' = [job EXCEPT ![f] =
                 [NoJob EXCEPT !.todo = {e \in vram_buffers : e.owner = f}]]
    /\ UNCHANGED <<allocs, listed, held>>

QueueCalls(f) ==
    \/ \E va \in Vas, size \in 1..2, prp2 \in BOOLEAN,
          garbage \in Files \union {None} :
             RegisterQueueAddr(f, va, size, prp2, garbage)
    \/ \E va \in Vas : UnregisterQueueAddr(f, va) \/ KprobeCreate(f, va)
    \/ KprobePrp2(f) \/ KprobeHijack(f) \/ Submitted(f)

BufferCalls(f) ==
    \/ \E va \in Vas, size \in 1..2, passthrough \in BOOLEAN :
             RegisterBuffer(f, va, size, passthrough)
    \/ Acquire(f) \/ AcquireFails(f) \/ Acquired(f)
    \/ BufferListed(f) \/ BufferNoEntry(f)
    \/ CopyToUser(f) \/ CopyToUserFails(f)
    \/ \E va \in Vas : UnregisterBuffer(f, va) \/ KprobeIo(f, va) \/ KprobeIoPrp2(f, va)
    \/ KprobeIoNoPrp2(f)
    \/ DetachOne(f) \/ Detached(f)

Next ==
    \E f \in Files :
        \/ Open(f) \/ Release(f)
        \/ \E va \in Vas : FreeMemory(f, va)
        \/ QueueCalls(f) \/ BufferCalls(f)

Spec == Init /\ [][Next]_vars

(***************************************************************************)
(* Properties.                                                             *)
(***************************************************************************)
\* A command goes to the controller with the memory its process has at the
\* address now, whatever older entries the lists still hold, and with PRP2
\* and the device of the same registration (the kprobe's lookups for a queue;
\* for an I/O command both data pointers, wherever in a buffer they point).
InjectedOwn ==
    \A f \in Files :
        pc[f] = "injected" =>
            /\ job[f].prp1 # None =>
                 /\ job[f].prp1 = mem[f][job[f].va]
                 /\ job[f].prp2 \in {None, job[f].prp1[1]}
                 /\ job[f].hijack \in {None, job[f].prp1[1]}
            /\ job[f].data2 # None => job[f].data2 = mem[f][job[f].va2]

\* What is held is exactly what is listed: a passthrough buffer that the kprobe
\* can hand to a controller is pinned and mapped all the way down to the device
\* (get_dmabuf_phys_addr: "caller must keep alive"), and whatever failed on the
\* way, a call that has returned leaves resources held only for such buffers
\* (the error paths of REGISTER_BUFFER, UNREGISTER_BUFFER and release).
AttachmentsExact ==
    /\ \A e \in vram_buffers : e.passthrough => held[e.alloc] = Resources
    /\ \A a \in Allocs :
         held[a] # {} =>
             \/ \E e \in vram_buffers : e.alloc = a /\ e.passthrough
             \/ \E f \in Files :
                   \/ job[f].alloc = a
                   \/ \E e \in job[f].todo : e.alloc = a
=============================================================================
