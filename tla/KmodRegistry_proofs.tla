------------------------ MODULE KmodRegistry_proofs -------------------------
(***************************************************************************)
(* The registries for any number of processes, pages and allocations: what *)
(* is attached is exactly what is listed, and a command carries the memory *)
(* of its process.                                                         *)
(***************************************************************************)
EXTENDS KmodRegistry, TLAPS

-----------------------------------------------------------------------------
(* The inductive invariant.                                                *)

BufferEntry == [virt : Vas, size : 1..2, alloc : Allocs, passthrough : BOOLEAN,
                owner : Files, at : Nat]

QueueEntry == [virt : Vas, size : 1..2, alloc : Allocs, prp2 : BOOLEAN,
               owner : Files \union {None}, at : Nat]

Addr == Allocs \X Int

Job == [va : Vas \union {None}, alloc : Allocs \union {None},
        size : 0..2, passthrough : BOOLEAN, step : 0..6,
        todo : SUBSET BufferEntry,
        prp1 : Addr \union {None}, prp2 : Allocs \union {None},
        hijack : Allocs \union {None}, va2 : Vas \union {None},
        data2 : Addr \union {None}]

\* The steps of REGISTER_BUFFER, and all steps.
Registering == {"acquire", "entry", "copy"}
Steps == Registering \union {"idle", "prp2", "hijack", "io", "injected", "detach"}

RegistryTypes ==
    /\ allocs \in 0..MaxAllocs
    /\ listed \in Nat
    /\ held \in [Allocs -> SUBSET Resources]
    /\ queue_addrs \subseteq QueueEntry
    /\ vram_buffers \subseteq BufferEntry
    /\ pc \in [Files -> Steps]
    /\ job \in [Files -> Job]

\* A call works on an allocation while it registers a buffer, and on entries
\* it took off the list while it detaches them.
JobInv ==
    \A f \in Files :
        /\ pc[f] \in Registering <=> job[f].alloc # None
        /\ pc[f] \in Registering => job[f].va \in Vas /\ job[f].size \in 1..2
        /\ pc[f] # "detach" => job[f].todo = {}
        /\ pc[f] = "acquire" => job[f].step \in 1..6
        /\ \A e \in job[f].todo : e.owner = f /\ e \notin vram_buffers

\* The entries there are: listed, or taken off the list by a call.
Entries == vram_buffers \union UNION {job[f].todo : f \in Files}

\* An allocation has one entry at most, and one call at most that registers it;
\* it has both only after BufferListed.
PlaceInv ==
    /\ \A d, e \in Entries : d.alloc = e.alloc => d = e
    /\ \A e \in Entries : e.alloc <= allocs
    /\ \A f \in Files : job[f].alloc # None =>
         /\ job[f].alloc <= allocs
         /\ \A g \in Files : job[g].alloc = job[f].alloc => g = f
         /\ \A e \in Entries :
              e.alloc = job[f].alloc => pc[f] = "copy" /\ e \in vram_buffers
         /\ pc[f] = "copy" =>
              \E e \in vram_buffers : e.alloc = job[f].alloc /\ e.owner = f

\* What is held for a buffer whose address is known.
Attached(e) == IF e.passthrough THEN Resources ELSE {}

HeldInv ==
    /\ \A f \in Files :
         /\ pc[f] = "acquire" =>
              held[job[f].alloc] = Unwind(job[f].passthrough, job[f].step)
         /\ pc[f] = "entry" => held[job[f].alloc] = Attached(job[f])
    /\ \A e \in Entries : held[e.alloc] = Attached(e)
    /\ \A a \in Allocs :
         held[a] # {} => \/ \E e \in Entries : e.alloc = a
                         \/ \E f \in Files : job[f].alloc = a

AttachInv == RegistryTypes /\ JobInv /\ PlaceInv /\ HeldInv

\* One process at a time has memory, and only its calls run.
AloneInv ==
    /\ mem \in [Files -> [Vas -> Addr \union {None}]]
    /\ status \in [Files -> {"new", "open", "closing", "closed"}]
    /\ \A f, g \in Files : status[f] = "open" /\ status[g] = "open" => f = g
    /\ \A f \in Files : status[f] # "open" =>
         pc[f] \in {"idle", "detach"} /\ \A p \in Vas : mem[f][p] = None
    /\ \A f \in Files, p \in Vas : mem[f][p] # None => mem[f][p][1] <= allocs
    /\ \A e \in queue_addrs : e.alloc <= allocs /\ e.at <= listed
    /\ \A e \in vram_buffers : e.at <= listed

\* The pages that a call registers.
InJob(j, p) == p >= j.va /\ p < j.va + j.size

\* A page of an allocation that has an entry lies where the entry says.
PageInv ==
    \A f \in Files, p \in Vas : mem[f][p] # None =>
        /\ \A r \in queue_addrs : r.alloc = mem[f][p][1] =>
             Covers(r, p) /\ mem[f][p] = <<r.alloc, p - r.virt>>
        /\ \A r \in vram_buffers : r.alloc = mem[f][p][1] =>
             Covers(r, p) /\ mem[f][p] = <<r.alloc, p - r.virt>>
        /\ \A g \in Files : job[g].alloc = mem[f][p][1] =>
             InJob(job[g], p) /\ mem[f][p] = <<job[g].alloc, p - job[g].va>>

\* The memory a call registers is there until it returns.
RegisterInv ==
    \A f \in Files : pc[f] \in Registering =>
        \A p \in Vas : InJob(job[f], p) =>
            mem[f][p] = <<job[f].alloc, p - job[f].va>>

\* Whatever else is listed for a page, the entry of the memory that is there
\* now is newer.
NewestInv ==
    \A f \in Files, p \in Vas : mem[f][p] # None =>
        /\ \A r, e \in queue_addrs :
             r.alloc = mem[f][p][1] /\ Covers(e, p) /\ e # r => e.at < r.at
        /\ \A r, e \in vram_buffers :
             r.alloc = mem[f][p][1] /\ Covers(e, p) /\ e # r => e.at < r.at

\* The kprobe's later lookups find what the first one found, and an I/O
\* command's first pointer is right while it looks up the second.
LookupInv ==
    \A f \in Files :
        /\ pc[f] \in {"prp2", "hijack"} =>
             /\ job[f].va \in Vas
             /\ job[f].prp1 = mem[f][job[f].va]
             /\ job[f].prp1 # None
             /\ \E r \in queue_addrs : r.alloc = job[f].prp1[1]
             /\ job[f].prp2 \in {None, job[f].prp1[1]}
             /\ job[f].hijack = None
             /\ job[f].data2 = None
        /\ pc[f] = "io" =>
             /\ job[f].prp1 # None => job[f].prp1 = mem[f][job[f].va]
             /\ job[f].prp2 = None
             /\ job[f].hijack = None
             /\ job[f].data2 = None

InjectInv ==
    /\ AloneInv /\ PageInv /\ RegisterInv /\ NewestInv /\ LookupInv
    /\ InjectedOwn

-----------------------------------------------------------------------------
(* Attachments.                                                            *)

\* The error path of a step releases what the steps before it acquired, and
\* the five steps together acquire all there is.
LEMMA UnwindSteps ==
    ASSUME NEW pt \in BOOLEAN, NEW n \in 1..6
    PROVE  /\ Unwind(pt, 1) = {}
           /\ Unwind(pt, 6) = Resources
           /\ Unwind(pt, n) \subseteq Resources
           /\ n <= 5 => /\ Order(pt)[n] \in Resources
                        /\ Unwind(pt, n) \union {Order(pt)[n]} = Unwind(pt, n + 1)
<1>1. \A i \in 1..5 : Order(pt)[i] \in Resources
  BY DEF Order, Resources
<1>2. \A x \in Resources : \E i \in 1..5 : Order(pt)[i] = x
  BY DEF Order, Resources
<1>3. Unwind(pt, 1) = {}
  BY DEF Unwind
<1>4. Unwind(pt, 6) = Resources
  <2>1. \A x : x \in Unwind(pt, 6) => x \in Resources
    BY <1>1 DEF Unwind
  <2>2. \A x : x \in Resources => x \in Unwind(pt, 6)
    BY <1>2 DEF Unwind
  <2> QED
    BY Zenon, <2>1, <2>2
<1>5. Unwind(pt, n) \subseteq Resources
  BY <1>1 DEF Unwind
<1>6. ASSUME n <= 5
      PROVE  Unwind(pt, n) \union {Order(pt)[n]} = Unwind(pt, n + 1)
  <2>1. \A i : i \in 1..(n + 1 - 1) <=> i \in 1..(n - 1) \/ i = n
    OBVIOUS
  <2> QED
    BY <2>1 DEF Unwind
<1> QED
  BY <1>1, <1>3, <1>4, <1>5, <1>6

\* The jobs that the calls set up are jobs.
LEMMA JobTypes ==
    /\ NoJob \in Job
    /\ NoJob.alloc = None /\ NoJob.todo = {}
    /\ \A T \in SUBSET BufferEntry :
         /\ [NoJob EXCEPT !.todo = T] \in Job
         /\ [NoJob EXCEPT !.todo = T].todo = T
         /\ [NoJob EXCEPT !.todo = T].alloc = None
<1>1. NoJob.alloc = None /\ NoJob.todo = {}
  BY Zenon DEF NoJob
<1>2. NoJob \in Job
  <2>1. FALSE \in BOOLEAN /\ 0 \in 0..2 /\ 0 \in 0..6 /\ {} \in SUBSET BufferEntry
    OBVIOUS
  <2> QED
    BY Zenon, <2>1 DEF NoJob, Job
<1>3. ASSUME NEW T \in SUBSET BufferEntry
      PROVE  /\ [NoJob EXCEPT !.todo = T] \in Job
             /\ [NoJob EXCEPT !.todo = T].todo = T
             /\ [NoJob EXCEPT !.todo = T].alloc = None
  BY <1>1, <1>2 DEF Job
<1> QED
  BY Zenon, <1>1, <1>2, <1>3

\* The job of REGISTER_BUFFER, field by field.
RegisterJob(v, n, a, pt) ==
    [NoJob EXCEPT !.va = v, !.size = n, !.alloc = a, !.passthrough = pt, !.step = 1]

LEMMA BeginJob ==
    ASSUME NEW v \in Vas, NEW n \in 1..2, NEW a \in Allocs, NEW pt \in BOOLEAN,
           NEW j, j = RegisterJob(v, n, a, pt)
    PROVE  /\ j \in Job
           /\ j.va = v /\ j.size = n /\ j.alloc = a /\ j.step = 1 /\ j.todo = {}
<1>1. j = [va |-> v, size |-> n, alloc |-> a, passthrough |-> pt, step |-> 1,
           todo |-> {}, prp1 |-> None, prp2 |-> None, hijack |-> None,
           va2 |-> None, data2 |-> None]
  BY Zenon DEF RegisterJob, NoJob
<1>2. {} \in SUBSET BufferEntry /\ 1 \in 0..6 /\ n \in 0..2
  OBVIOUS
<1>3. j \in Job
  BY <1>1, <1>2 DEF Job
<1>4. j.va = v /\ j.size = n /\ j.alloc = a /\ j.step = 1 /\ j.todo = {}
  BY <1>1
<1> QED
  BY Zenon, <1>3, <1>4

\* A step that leaves buffers and calls alone.
LEMMA AsideAttach ==
    ASSUME AttachInv, UNCHANGED <<vram_buffers, held, pc, job>>,
           allocs' \in allocs..MaxAllocs, listed' \in Nat, queue_addrs' \subseteq QueueEntry
    PROVE  AttachInv'
<1>1. RegistryTypes'
  BY DEF AttachInv, RegistryTypes
<1>2. Entries' = Entries
  BY Zenon DEF Entries
<1>3. JobInv'
  BY Zenon DEF AttachInv, JobInv
<1>4. PlaceInv'
  <2>1. \A a \in Allocs : a <= allocs => a <= allocs'
    BY DEF AttachInv, RegistryTypes, Allocs
  <2>2. /\ \A e \in Entries : e.alloc \in Allocs
        /\ \A f \in Files : job[f].alloc # None => job[f].alloc \in Allocs
    BY DEF AttachInv, RegistryTypes, Entries, BufferEntry, Job
  <2> QED
    BY <1>2, <2>1, <2>2 DEF AttachInv, PlaceInv
<1>5. HeldInv'
  BY Zenon, <1>2 DEF AttachInv, HeldInv
<1> QED
  BY Zenon, <1>1, <1>3, <1>4, <1>5 DEF AttachInv

\* A step of a call that has no buffer in hand before or after.
LEMMA LookupAttach ==
    ASSUME AttachInv, NEW f \in Files, NEW j \in Job, NEW l \in Steps,
           pc' = [pc EXCEPT ![f] = l], job' = [job EXCEPT ![f] = j],
           l \notin Registering, l # "detach", j.alloc = None, j.todo = {},
           job[f].alloc = None, job[f].todo = {},
           UNCHANGED <<allocs, listed, queue_addrs, vram_buffers, held>>
    PROVE  AttachInv'
<1>t. pc \in [Files -> Steps] /\ job \in [Files -> Job]
  BY Zenon DEF AttachInv, RegistryTypes
<1>j. /\ \A g \in Files : job'[g].alloc = job[g].alloc /\ job'[g].todo = job[g].todo
      /\ \A g \in Files : g # f => job'[g] = job[g] /\ pc'[g] = pc[g]
      /\ pc'[f] = l
  BY Zenon, <1>t
<1>1. RegistryTypes'
  BY Zenon, <1>t DEF AttachInv, RegistryTypes
<1>2. Entries' = Entries
  BY <1>j DEF Entries
<1>3. JobInv'
  BY <1>j DEF AttachInv, JobInv, Registering
<1>4. PlaceInv'
  <2>1. \A g \in Files : job[g].alloc # None => g # f
    BY Zenon
  <2> QED
    BY <1>j, <1>2, <2>1 DEF AttachInv, PlaceInv
<1>5. HeldInv'
  <2>1. \A g \in Files : pc'[g] \in {"acquire", "entry"} => g # f
    BY Zenon, <1>j DEF Registering
  <2> QED
    BY <1>j, <1>2, <2>1 DEF AttachInv, HeldInv, Attached
<1> QED
  BY Zenon, <1>1, <1>3, <1>4, <1>5 DEF AttachInv

\* A call takes entries of its own file off the list, to detach them.
LEMMA TakeOffAttach ==
    ASSUME AttachInv, NEW f \in Files, NEW T \in SUBSET BufferEntry,
           T \subseteq vram_buffers, \A e \in T : e.owner = f,
           pc' = [pc EXCEPT ![f] = "detach"],
           job' = [job EXCEPT ![f] = [NoJob EXCEPT !.todo = T]],
           vram_buffers' = vram_buffers \ T,
           job[f].todo = {},
           \A e \in vram_buffers : job[f].alloc = e.alloc => e \in T,
           job[f].alloc # None => pc[f] = "copy",
           queue_addrs' \subseteq QueueEntry,
           UNCHANGED <<allocs, listed, held>>
    PROVE  AttachInv'
<1>t. /\ pc \in [Files -> Steps] /\ job \in [Files -> Job]
      /\ JobInv /\ PlaceInv /\ HeldInv
  BY Zenon DEF AttachInv, RegistryTypes
<1>j. /\ \A g \in Files : g # f => job'[g] = job[g] /\ pc'[g] = pc[g]
      /\ job'[f].alloc = None /\ job'[f].todo = T /\ pc'[f] = "detach"
      /\ job'[f] \in Job
  BY Zenon, <1>t, JobTypes
<1>1. RegistryTypes'
  <2>1. "detach" \in Steps
    BY Zenon DEF Steps
  <2> QED
    BY Zenon, <1>t, <1>j, <2>1, JobTypes DEF AttachInv, RegistryTypes
<1>2. Entries' = Entries
  <2>1. ASSUME NEW e PROVE e \in Entries' => e \in Entries
    BY <1>j DEF Entries
  <2>2. ASSUME NEW e PROVE e \in Entries => e \in Entries'
    <3>1. CASE e \in T
      BY <1>j, <3>1 DEF Entries
    <3>2. CASE e \in vram_buffers /\ e \notin T
      BY Zenon, <3>2 DEF Entries
    <3>3. CASE \E g \in Files : e \in job[g].todo
      BY <1>j, <3>3 DEF Entries
    <3> QED
      BY Zenon, <3>1, <3>2, <3>3 DEF Entries
  <2> QED
    BY Zenon, <2>1, <2>2
<1>3. JobInv'
  BY <1>t, <1>j DEF JobInv, Registering
<1>4. PlaceInv'
  <2>1. \A d, e \in Entries : d.alloc = e.alloc => d = e
    BY Zenon, <1>t DEF PlaceInv
  <2>2. ASSUME NEW g \in Files, job'[g].alloc # None
        PROVE  /\ job'[g].alloc <= allocs
               /\ \A h \in Files : job'[h].alloc = job'[g].alloc => h = g
               /\ \A e \in Entries :
                    e.alloc = job'[g].alloc => pc'[g] = "copy" /\ e \in vram_buffers'
               /\ pc'[g] = "copy" =>
                    \E e \in vram_buffers' : e.alloc = job'[g].alloc /\ e.owner = g
    <3>1. g # f /\ job'[g] = job[g] /\ pc'[g] = pc[g] /\ job[g].alloc # None
      BY Zenon, <1>j, <2>2
    <3>2. \A e \in T : e.alloc # job[g].alloc
      <4>1. SUFFICES ASSUME NEW e \in T, e.alloc = job[g].alloc
                     PROVE  FALSE
        BY Zenon
      <4>2. e \in Entries
        BY Zenon DEF Entries
      <4>3. pc[g] = "copy"
        BY <1>t, <3>1, <4>1, <4>2 DEF PlaceInv
      <4>4. PICK d \in vram_buffers : d.alloc = job[g].alloc /\ d.owner = g
        BY Zenon, <1>t, <3>1, <4>3 DEF PlaceInv
      <4>5. d = e
        BY Zenon, <2>1, <4>1, <4>2, <4>4 DEF Entries
      <4> QED
        BY Zenon, <3>1, <4>4, <4>5
    <3>3. \A h \in Files : job'[h].alloc = job[g].alloc => h = g
      BY <1>t, <1>j, <3>1 DEF PlaceInv
    <3>4. job[g].alloc <= allocs
      BY Zenon, <1>t, <3>1 DEF PlaceInv
    <3>5. \A e \in Entries : e.alloc = job[g].alloc => pc[g] = "copy" /\ e \in vram_buffers
      BY Zenon, <1>t, <3>1 DEF PlaceInv
    <3>6. pc[g] = "copy" => \E e \in vram_buffers : e.alloc = job[g].alloc /\ e.owner = g
      BY Zenon, <1>t, <3>1 DEF PlaceInv
    <3> QED
      BY Zenon, <3>1, <3>2, <3>3, <3>4, <3>5, <3>6
  <2>3. \A e \in Entries : e.alloc <= allocs
    BY Zenon, <1>t DEF PlaceInv
  <2> QED
    BY <1>2, <2>1, <2>2, <2>3 DEF PlaceInv
<1>5. HeldInv'
  <2>1. \A g \in Files : pc'[g] \in {"acquire", "entry"} => g # f
    BY Zenon, <1>j
  <2>2. ASSUME NEW a \in Allocs, held[a] # {}
        PROVE  (\E e \in Entries : e.alloc = a) \/ \E g \in Files : job'[g].alloc = a
    <3>1. CASE \E e \in Entries : e.alloc = a
      BY Zenon, <3>1
    <3>2. CASE \E g \in Files : job[g].alloc = a
      <4>1. PICK g \in Files : job[g].alloc = a
        BY Zenon, <3>2
      <4>2. CASE g # f
        BY Zenon, <1>j, <4>1, <4>2
      <4>3. CASE g = f
        <5>1. job[f].alloc # None
          BY <4>1, <4>3, RegistryAssumption DEF Allocs
        <5> QED
          BY <1>t, <4>1, <4>3, <5>1 DEF PlaceInv, Entries
      <4> QED
        BY Zenon, <4>2, <4>3
    <3> QED
      BY Zenon, <1>t, <2>2, <3>1, <3>2 DEF HeldInv
  <2>3. \A g \in Files : g # f =>
          /\ pc[g] = "acquire" => held[job[g].alloc] = Unwind(job[g].passthrough, job[g].step)
          /\ pc[g] = "entry" => held[job[g].alloc] = Attached(job[g])
    BY Zenon, <1>t DEF HeldInv
  <2>4. \A e \in Entries : held[e.alloc] = Attached(e)
    BY Zenon, <1>t DEF HeldInv
  <2> QED
    BY <1>j, <1>2, <2>1, <2>2, <2>3, <2>4 DEF HeldInv, Attached
<1> QED
  BY Zenon, <1>1, <1>3, <1>4, <1>5 DEF AttachInv

\* A step of a call between its first resource and its entry: it acquires one
\* more, has them all, or gives up and releases them.
LEMMA StageAttach ==
    ASSUME AttachInv, NEW f \in Files, NEW a \in Allocs, NEW j \in Job,
           NEW l \in {"acquire", "entry", "idle"}, NEW H \in SUBSET Resources,
           pc[f] \in {"acquire", "entry"}, job[f].alloc = a,
           pc' = [pc EXCEPT ![f] = l], job' = [job EXCEPT ![f] = j],
           held' = [held EXCEPT ![a] = H],
           j.todo = {},
           l = "idle" => j.alloc = None /\ H = {},
           l # "idle" => j.alloc = a /\ j.va \in Vas /\ j.size \in 1..2,
           l = "acquire" => j.step \in 1..6 /\ H = Unwind(j.passthrough, j.step),
           l = "entry" => H = Attached(j),
           UNCHANGED <<allocs, listed, queue_addrs, vram_buffers>>
    PROVE  AttachInv'
<1>t. /\ pc \in [Files -> Steps] /\ job \in [Files -> Job]
      /\ held \in [Allocs -> SUBSET Resources]
      /\ JobInv /\ PlaceInv /\ HeldInv
  BY Zenon DEF AttachInv, RegistryTypes
<1>j. /\ \A g \in Files : g # f => job'[g] = job[g] /\ pc'[g] = pc[g]
      /\ job'[f] = j /\ pc'[f] = l
  BY Zenon, <1>t
<1>n. a # None
  BY RegistryAssumption DEF Allocs
<1>u. /\ \A g \in Files : g # f => job[g].alloc # a
      /\ \A e \in Entries : e.alloc # a
  BY <1>t, <1>n DEF PlaceInv
<1>1. RegistryTypes'
  <2>1. l \in Steps
    BY Zenon DEF Steps, Registering
  <2> QED
    BY Zenon, <1>t, <2>1 DEF AttachInv, RegistryTypes
<1>2. Entries' = Entries
  <2>1. job[f].todo = {}
    BY Zenon, <1>t DEF JobInv
  <2>2. \A g \in Files : job'[g].todo = job[g].todo
    BY Zenon, <1>j, <2>1
  <2> QED
    BY <2>2 DEF Entries
<1>3. JobInv'
  <2>1. /\ l \in Registering <=> j.alloc # None
        /\ l \in Registering => j.va \in Vas /\ j.size \in 1..2
    BY Zenon, <1>n DEF Registering
  <2> QED
    BY <1>t, <1>j, <2>1 DEF JobInv
<1>4. PlaceInv'
  <2>1. ASSUME NEW g \in Files, job'[g].alloc # None
        PROVE  /\ job[g].alloc # None
               /\ job'[g].alloc = job[g].alloc
               /\ g # f => pc'[g] = pc[g]
               /\ g = f => pc'[g] # "copy" /\ job[g].alloc = a
    BY Zenon, <1>j, <1>n, <2>1
  <2>2. ASSUME NEW g \in Files, job'[g].alloc # None
        PROVE  /\ job'[g].alloc <= allocs
               /\ \A h \in Files : job'[h].alloc = job'[g].alloc => h = g
               /\ \A e \in Entries :
                    e.alloc = job'[g].alloc => pc'[g] = "copy" /\ e \in vram_buffers
               /\ pc'[g] = "copy" =>
                    \E e \in vram_buffers : e.alloc = job'[g].alloc /\ e.owner = g
    <3>1. job[g].alloc <= allocs
      BY Zenon, <1>t, <2>1, <2>2 DEF PlaceInv
    <3>2. \A h \in Files : job'[h].alloc = job'[g].alloc => h = g
      BY <1>t, <2>1, <2>2 DEF PlaceInv
    <3>3. \A e \in Entries : e.alloc = job[g].alloc => pc'[g] = "copy" /\ e \in vram_buffers
      BY <1>t, <1>u, <2>1, <2>2 DEF PlaceInv
    <3>4. pc'[g] = "copy" =>
            \E e \in vram_buffers : e.alloc = job[g].alloc /\ e.owner = g
      BY <1>t, <2>1, <2>2 DEF PlaceInv
    <3> QED
      BY <2>1, <2>2, <3>1, <3>2, <3>3, <3>4
  <2> QED
    BY <1>t, <1>2, <2>2 DEF PlaceInv
<1>5. HeldInv'
  <2>1. held'[a] = H /\ \A b \in Allocs : b # a => held'[b] = held[b]
    BY Zenon, <1>t
  <2>2. \A e \in Entries : e.alloc \in Allocs
    BY DEF AttachInv, RegistryTypes, Entries, BufferEntry, Job
  <2>3. \A e \in Entries : held'[e.alloc] = Attached(e)
    BY Zenon, <1>t, <1>u, <2>1, <2>2 DEF HeldInv
  <2>4. ASSUME NEW g \in Files, g # f
        PROVE  /\ pc[g] = "acquire" =>
                    held'[job[g].alloc] = Unwind(job[g].passthrough, job[g].step)
               /\ pc[g] = "entry" => held'[job[g].alloc] = Attached(job[g])
    <3>1. pc[g] \in {"acquire", "entry"} => job[g].alloc \in Allocs
      BY <1>t DEF JobInv, Registering, Job
    <3> QED
      BY <1>t, <1>u, <2>1, <2>4, <3>1 DEF HeldInv
  <2>5. /\ l = "acquire" => held'[j.alloc] = Unwind(j.passthrough, j.step)
        /\ l = "entry" => held'[j.alloc] = Attached(j)
    BY Zenon, <2>1
  <2>6. ASSUME NEW b \in Allocs, held'[b] # {}
        PROVE  (\E e \in Entries : e.alloc = b) \/ \E g \in Files : job'[g].alloc = b
    <3>1. CASE b = a
      BY Zenon, <1>j, <2>1, <2>6, <3>1
    <3>2. CASE b # a
      <4>1. held[b] # {}
        BY Zenon, <2>1, <2>6, <3>2
      <4>2. (\E e \in Entries : e.alloc = b) \/ \E g \in Files : job[g].alloc = b
        BY Zenon, <1>t, <4>1 DEF HeldInv
      <4>3. \A g \in Files : job[g].alloc = b => job'[g].alloc = b
        BY Zenon, <1>j, <3>2
      <4> QED
        BY Zenon, <4>2, <4>3
    <3> QED
      BY Zenon, <3>1, <3>2
  <2> QED
    BY <1>j, <1>2, <2>3, <2>4, <2>5, <2>6 DEF HeldInv, Attached
<1> QED
  BY Zenon, <1>1, <1>3, <1>4, <1>5 DEF AttachInv

\* REGISTER_BUFFER begins on an allocation nobody knows yet.
LEMMA BeginAttach ==
    ASSUME AttachInv, NEW f \in Files, NEW j \in Job,
           pc[f] = "idle", pc' = [pc EXCEPT ![f] = "acquire"],
           job' = [job EXCEPT ![f] = j],
           allocs < MaxAllocs, allocs' = allocs + 1,
           j.alloc = allocs + 1, j.va \in Vas, j.size \in 1..2, j.step = 1, j.todo = {},
           UNCHANGED <<listed, queue_addrs, vram_buffers, held>>
    PROVE  AttachInv'
<1>t. /\ pc \in [Files -> Steps] /\ job \in [Files -> Job]
      /\ allocs \in 0..MaxAllocs
      /\ JobInv /\ PlaceInv /\ HeldInv
  BY Zenon DEF AttachInv, RegistryTypes
<1>0. PICK a \in Allocs : a = allocs + 1
  BY <1>t, RegistryAssumption DEF Allocs
<1>j. /\ \A g \in Files : g # f => job'[g] = job[g] /\ pc'[g] = pc[g]
      /\ job'[f] = j /\ pc'[f] = "acquire"
      /\ job[f].alloc = None /\ job[f].todo = {}
  BY <1>t DEF JobInv, Registering
<1>n. a # None
  BY RegistryAssumption DEF Allocs
<1>e. \A e \in Entries : e.alloc \in Allocs
  BY DEF AttachInv, RegistryTypes, Entries, BufferEntry, Job
<1>u. /\ \A g \in Files : job[g].alloc # a
      /\ \A e \in Entries : e.alloc # a
  <2>1. \A g \in Files : job[g].alloc # None => job[g].alloc \in Allocs
    BY Zenon, <1>t DEF Job
  <2> QED
    BY <1>t, <1>0, <1>n, <1>e, <2>1 DEF PlaceInv, Allocs
<1>1. RegistryTypes'
  <2>1. "acquire" \in Steps /\ allocs' \in 0..MaxAllocs
    BY <1>t, RegistryAssumption DEF Steps, Registering
  <2> QED
    BY Zenon, <1>t, <2>1 DEF AttachInv, RegistryTypes
<1>2. Entries' = Entries
  <2>1. \A g \in Files : job'[g].todo = job[g].todo
    BY Zenon, <1>j
  <2> QED
    BY <2>1 DEF Entries
<1>3. JobInv'
  <2>1. j.alloc # None /\ "acquire" \in Registering
    BY Zenon, <1>0, <1>n DEF Registering
  <2> QED
    BY <1>t, <1>j, <2>1 DEF JobInv
<1>4. PlaceInv'
  <2>1. \A b \in Allocs : b <= allocs => b <= allocs'
    BY <1>t DEF Allocs
  <2>2. ASSUME NEW g \in Files, job'[g].alloc # None
        PROVE  /\ job'[g].alloc <= allocs'
               /\ \A h \in Files : job'[h].alloc = job'[g].alloc => h = g
               /\ \A e \in Entries :
                    e.alloc = job'[g].alloc => pc'[g] = "copy" /\ e \in vram_buffers
               /\ pc'[g] = "copy" =>
                    \E e \in vram_buffers : e.alloc = job'[g].alloc /\ e.owner = g
    <3>1. CASE g = f
      BY <1>t, <1>j, <1>u, <1>0, <3>1 DEF Allocs
    <3>2. CASE g # f
      <4>1. job'[g] = job[g] /\ pc'[g] = pc[g] /\ job[g].alloc # None
        BY Zenon, <1>j, <2>2, <3>2
      <4>2. job[g].alloc \in Allocs
        BY Zenon, <1>t, <4>1 DEF Job
      <4>3. \A h \in Files : job'[h].alloc = job[g].alloc => h = g
        BY <1>t, <1>j, <1>u, <1>0, <4>1 DEF PlaceInv
      <4> QED
        BY <1>t, <2>1, <4>1, <4>2, <4>3 DEF PlaceInv
    <3> QED
      BY Zenon, <3>1, <3>2
  <2>3. \A e \in Entries : e.alloc <= allocs'
    BY Zenon, <1>t, <1>e, <2>1 DEF PlaceInv
  <2> QED
    BY <1>t, <1>2, <2>2, <2>3 DEF PlaceInv
<1>5. HeldInv'
  <2>1. held[a] = {}
    BY Zenon, <1>t, <1>u DEF HeldInv
  <2>2. Unwind(j.passthrough, 1) = {}
    BY UnwindSteps DEF Job
  <2>3. \A b \in Allocs : \A g \in Files : job[g].alloc = b => job'[g].alloc = b
    BY <1>j, RegistryAssumption DEF Allocs
  <2>4. ASSUME NEW g \in Files, pc'[g] = "acquire"
        PROVE  held'[job'[g].alloc] = Unwind(job'[g].passthrough, job'[g].step)
    <3>1. CASE g = f
      <4>1. job'[g] = j /\ j.alloc = a /\ j.step = 1 /\ held' = held
        BY Zenon, <1>j, <1>0, <3>1
      <4> QED
        BY Zenon, <2>1, <2>2, <4>1
    <3>2. CASE g # f
      BY <1>t, <1>j, <2>4, <3>2 DEF HeldInv
    <3> QED
      BY Zenon, <3>1, <3>2
  <2>5. ASSUME NEW g \in Files, pc'[g] = "entry"
        PROVE  held'[job'[g].alloc] = Attached(job'[g])
    <3>1. g # f
      BY Zenon, <1>j, <2>5
    <3>2. pc[g] = "entry" /\ job'[g] = job[g]
      BY Zenon, <1>j, <2>5, <3>1
    <3>3. held[job[g].alloc] = Attached(job[g])
      BY Zenon, <1>t, <3>2 DEF HeldInv
    <3> QED
      BY Zenon, <3>2, <3>3
  <2>6. \A e \in Entries' : held'[e.alloc] = Attached(e)
    BY Zenon, <1>t, <1>2 DEF HeldInv
  <2>7. ASSUME NEW b \in Allocs, held'[b] # {}
        PROVE  \/ \E e \in Entries' : e.alloc = b
               \/ \E g \in Files : job'[g].alloc = b
    <3>1. (\E e \in Entries : e.alloc = b) \/ (\E g \in Files : job[g].alloc = b)
      BY Zenon, <1>t, <2>7 DEF HeldInv
    <3> QED
      BY Zenon, <1>2, <2>3, <3>1
  <2> QED
    BY Zenon, <2>4, <2>5, <2>6, <2>7 DEF HeldInv
<1> QED
  BY Zenon, <1>1, <1>3, <1>4, <1>5 DEF AttachInv

\* The buffer is attached: its entry goes on the list.
LEMMA ListedAttach ==
    ASSUME AttachInv, NEW f \in Files, BufferListed(f)
    PROVE  AttachInv'
<1>t. /\ pc \in [Files -> Steps] /\ job \in [Files -> Job]
      /\ listed \in Nat /\ vram_buffers \subseteq BufferEntry
      /\ JobInv /\ PlaceInv /\ HeldInv
  BY Zenon DEF AttachInv, RegistryTypes
<1>0. /\ pc[f] = "entry" /\ pc' = [pc EXCEPT ![f] = "copy"] /\ listed' = listed + 1
      /\ UNCHANGED <<allocs, queue_addrs, held, job>>
  BY Zenon DEF BufferListed
<1>a. PICK a \in Allocs : a = job[f].alloc
  BY <1>t, <1>0 DEF JobInv, Registering, Job
<1>n. a # None
  BY RegistryAssumption DEF Allocs
<1>e. PICK n : n = [virt |-> job[f].va, size |-> job[f].size, alloc |-> job[f].alloc,
                    passthrough |-> job[f].passthrough, owner |-> f, at |-> listed + 1]
  BY Zenon
<1>l. vram_buffers' = vram_buffers \union {n}
  BY <1>e DEF BufferListed, ListAdd
<1>f. n.alloc = a /\ n.owner = f /\ Attached(n) = Attached(job[f])
  BY Zenon, <1>a, <1>e DEF Attached
<1>u. /\ \A g \in Files : g # f => job[g].alloc # a
      /\ \A e \in Entries : e.alloc # a
  BY Zenon, <1>t, <1>0, <1>a, <1>n DEF PlaceInv
<1>j. /\ \A g \in Files : g # f => pc'[g] = pc[g]
      /\ pc'[f] = "copy"
  BY Zenon, <1>t, <1>0
<1>2. Entries' = Entries \union {n}
  BY Zenon, <1>0, <1>l DEF Entries
<1>1. RegistryTypes'
  <2>1. "copy" \in Steps
    BY Zenon DEF Steps, Registering
  <2>2. n \in BufferEntry
    <3>1. job[f].va \in Vas /\ job[f].size \in 1..2 /\ job[f].passthrough \in BOOLEAN /\ listed + 1 \in Nat
      BY <1>t, <1>0 DEF JobInv, Registering, Job
    <3> QED
      BY Zenon, <1>a, <1>e, <3>1 DEF BufferEntry
  <2>3. vram_buffers' \subseteq BufferEntry
    BY Zenon, <1>t, <1>l, <2>2
  <2>4. listed' \in Nat /\ pc' \in [Files -> Steps]
    BY <1>t, <1>0, <2>1
  <2> QED
    BY Zenon, <1>0, <2>3, <2>4 DEF AttachInv, RegistryTypes
<1>3. JobInv'
  <2>1. \A g \in Files : n \notin job[g].todo
    BY Zenon, <1>u, <1>f DEF Entries
  <2>2. "copy" \in Registering /\ "entry" \in Registering
    BY Zenon DEF Registering
  <2> QED
    BY <1>t, <1>0, <1>j, <1>l, <2>1, <2>2 DEF JobInv
<1>4. PlaceInv'
  <2>1. \A d, e \in Entries' : d.alloc = e.alloc => d = e
    BY <1>t, <1>2, <1>u, <1>f DEF PlaceInv
  <2>2. ASSUME NEW g \in Files, job[g].alloc # None
        PROVE  /\ job[g].alloc <= allocs
               /\ \A h \in Files : job[h].alloc = job[g].alloc => h = g
               /\ \A e \in Entries' :
                    e.alloc = job[g].alloc => pc'[g] = "copy" /\ e \in vram_buffers'
               /\ pc'[g] = "copy" =>
                    \E e \in vram_buffers' : e.alloc = job[g].alloc /\ e.owner = g
    <3>1. /\ job[g].alloc <= allocs
          /\ \A h \in Files : job[h].alloc = job[g].alloc => h = g
      BY Zenon, <1>t, <2>2 DEF PlaceInv
    <3>2. CASE g = f
      BY Zenon, <1>a, <1>j, <1>l, <1>2, <1>u, <1>f, <3>1, <3>2
    <3>3. CASE g # f
      <4>1. job[g].alloc # n.alloc
        BY Zenon, <1>u, <1>f, <3>3
      <4> QED
        BY <1>t, <1>j, <1>l, <1>2, <2>2, <3>1, <3>3, <4>1 DEF PlaceInv
    <3> QED
      BY Zenon, <3>2, <3>3
  <2>3. \A e \in Entries' : e.alloc <= allocs
    BY <1>t, <1>2, <1>f, <1>a, <1>n DEF PlaceInv
  <2> QED
    BY <1>0, <2>1, <2>2, <2>3 DEF PlaceInv
<1>5. HeldInv'
  <2>1. held[a] = Attached(n)
    BY Zenon, <1>t, <1>0, <1>a, <1>f DEF HeldInv
  <2>2. \A e \in Entries' : held[e.alloc] = Attached(e)
    BY Zenon, <1>t, <1>2, <1>f, <2>1 DEF HeldInv
  <2>3. \A b \in Allocs : held[b] # {} =>
          (\E e \in Entries' : e.alloc = b) \/ \E g \in Files : job[g].alloc = b
    BY Zenon, <1>t, <1>2 DEF HeldInv
  <2>4. \A g \in Files :
          /\ pc'[g] = "acquire" => held[job[g].alloc] = Unwind(job[g].passthrough, job[g].step)
          /\ pc'[g] = "entry" => held[job[g].alloc] = Attached(job[g])
    BY Zenon, <1>t, <1>j DEF HeldInv
  <2> QED
    BY Zenon, <1>0, <2>2, <2>3, <2>4 DEF HeldInv, Attached
<1> QED
  BY Zenon, <1>1, <1>3, <1>4, <1>5 DEF AttachInv

\* REGISTER_BUFFER returns: the entry stays.
LEMMA CopyAttach ==
    ASSUME AttachInv, NEW f \in Files, CopyToUser(f)
    PROVE  AttachInv'
<1>t. /\ pc \in [Files -> Steps] /\ job \in [Files -> Job]
      /\ JobInv /\ PlaceInv /\ HeldInv
  BY Zenon DEF AttachInv, RegistryTypes
<1>0. /\ pc[f] = "copy" /\ pc' = [pc EXCEPT ![f] = "idle"]
      /\ job' = [job EXCEPT ![f] = NoJob]
      /\ UNCHANGED <<allocs, listed, queue_addrs, vram_buffers, held>>
  BY Zenon DEF CopyToUser
<1>j. /\ \A g \in Files : g # f => job'[g] = job[g] /\ pc'[g] = pc[g]
      /\ job'[f].alloc = None /\ job'[f].todo = {} /\ pc'[f] = "idle"
  BY Zenon, <1>t, <1>0, JobTypes
<1>2. Entries' = Entries
  <2>1. \A g \in Files : job'[g].todo = job[g].todo
    BY Zenon, <1>t, <1>0, <1>j DEF JobInv
  <2> QED
    BY <1>0, <2>1 DEF Entries
<1>1. RegistryTypes'
  <2>1. "idle" \in Steps
    BY Zenon DEF Steps
  <2> QED
    BY Zenon, <1>t, <1>0, <2>1, JobTypes DEF AttachInv, RegistryTypes
<1>3. JobInv'
  <2>1. "idle" \notin Registering
    BY Zenon DEF Registering
  <2> QED
    BY <1>t, <1>0, <1>j, <2>1 DEF JobInv
<1>4. PlaceInv'
  <2>1. \A g \in Files : job'[g].alloc # None =>
          g # f /\ job'[g] = job[g] /\ pc'[g] = pc[g]
    BY Zenon, <1>j
  <2>2. \A g, h \in Files : job'[g].alloc # None /\ job'[h].alloc = job'[g].alloc
          => job[h].alloc = job[g].alloc
    BY Zenon, <2>1
  <2> QED
    BY <1>t, <1>0, <1>2, <2>1, <2>2 DEF PlaceInv
<1>5. HeldInv'
  <2>1. \E e \in Entries : e.alloc = job[f].alloc
    <3>1. job[f].alloc # None
      BY Zenon, <1>t, <1>0 DEF JobInv, Registering
    <3> QED
      BY Zenon, <1>t, <1>0, <3>1 DEF PlaceInv, Entries
  <2>2. \A b \in Allocs : held[b] # {} =>
          (\E e \in Entries : e.alloc = b) \/ \E g \in Files : job'[g].alloc = b
    BY <1>t, <1>j, <2>1 DEF HeldInv
  <2> QED
    BY Zenon, <1>t, <1>0, <1>j, <1>2, <2>2 DEF HeldInv, Attached
<1> QED
  BY Zenon, <1>1, <1>3, <1>4, <1>5 DEF AttachInv

\* An entry off the list is detached.
LEMMA DetachAttach ==
    ASSUME AttachInv, NEW f \in Files, DetachOne(f)
    PROVE  AttachInv'
<1>t. /\ pc \in [Files -> Steps] /\ job \in [Files -> Job]
      /\ held \in [Allocs -> SUBSET Resources]
      /\ JobInv /\ PlaceInv /\ HeldInv
  BY Zenon DEF AttachInv, RegistryTypes
<1>0. /\ pc[f] = "detach"
      /\ UNCHANGED <<allocs, listed, queue_addrs, vram_buffers, pc>>
  BY Zenon DEF DetachOne
<1>e. PICK e \in job[f].todo : /\ held' = Detach(e)
                               /\ job' = [job EXCEPT ![f].todo = @ \ {e}]
  BY Zenon DEF DetachOne
<1>b. e \in BufferEntry /\ e.alloc \in Allocs /\ e \in Entries
  BY <1>t DEF Job, BufferEntry, Entries
<1>j. /\ \A g \in Files : g # f => job'[g] = job[g]
      /\ job'[f] = [job[f] EXCEPT !.todo = job[f].todo \ {e}]
      /\ job'[f] \in Job
      /\ \A g \in Files : job'[g].alloc = job[g].alloc
      /\ job'[f].todo = job[f].todo \ {e}
  <2>1. /\ \A g \in Files : g # f => job'[g] = job[g]
        /\ job'[f] = [job[f] EXCEPT !.todo = job[f].todo \ {e}]
    BY <1>t, <1>e
  <2>2. job'[f] \in Job /\ job'[f].alloc = job[f].alloc /\ job'[f].todo = job[f].todo \ {e}
    BY <1>t, <2>1 DEF Job
  <2> QED
    BY Zenon, <2>1, <2>2
<1>h. held'[e.alloc] = {} /\ \A a \in Allocs : a # e.alloc => held'[a] = held[a]
  <2>1. CASE e.passthrough
    BY Zenon, <1>t, <1>b, <1>e, <2>1 DEF Detach
  <2>2. CASE ~e.passthrough
    BY Zenon, <1>t, <1>b, <1>e, <2>2 DEF Detach, HeldInv, Attached
  <2> QED
    BY Zenon, <2>1, <2>2
<1>2. Entries' = Entries \ {e}
  <2>1. \A g \in Files : g # f => e \notin job[g].todo
    BY <1>t DEF JobInv
  <2>2. e \notin vram_buffers
    BY Zenon, <1>t DEF JobInv
  <2>3. \A g \in Files : job'[g].todo = job[g].todo \ {e}
    BY Zenon, <1>j, <2>1
  <2> QED
    BY <1>0, <2>2, <2>3 DEF Entries
<1>1. RegistryTypes'
  <2>1. held' \in [Allocs -> SUBSET Resources]
    BY Zenon, <1>t, <1>e, <1>b DEF Detach
  <2>2. job' \in [Files -> Job]
    BY Zenon, <1>t, <1>e, <1>j
  <2> QED
    BY Zenon, <1>0, <2>1, <2>2 DEF AttachInv, RegistryTypes
<1>3. JobInv'
  <2>1. \A g \in Files : job'[g].todo \subseteq job[g].todo
    BY Zenon, <1>j
  <2>2. pc[f] \notin Registering
    BY Zenon, <1>0 DEF Registering
  <2>3. \A g \in Files : g # f \/ (pc[g] = "detach" /\ pc[g] \notin Registering)
    BY Zenon, <1>0, <2>2
  <2> QED
    BY <1>t, <1>0, <1>j, <2>1, <2>3 DEF JobInv
<1>4. PlaceInv'
  BY <1>t, <1>0, <1>j, <1>2 DEF PlaceInv
<1>5. HeldInv'
  <2>1. \A d \in Entries : d # e => d.alloc # e.alloc
    BY Zenon, <1>t, <1>b DEF PlaceInv
  <2>2. \A d \in Entries : d.alloc \in Allocs
    BY DEF AttachInv, RegistryTypes, Entries, BufferEntry, Job
  <2>3. \A d \in Entries' : held'[d.alloc] = Attached(d)
    BY Zenon, <1>t, <1>2, <1>h, <2>1, <2>2 DEF HeldInv
  <2>4. ASSUME NEW g \in Files, pc[g] \in {"acquire", "entry"}
        PROVE  g # f /\ job'[g] = job[g] /\ held'[job[g].alloc] = held[job[g].alloc]
    <3>1. g # f /\ job'[g] = job[g]
      BY Zenon, <1>0, <1>j, <2>4
    <3>2. job[g].alloc # None /\ job[g].alloc \in Allocs
      BY <1>t, <2>4 DEF JobInv, Registering, Job
    <3>3. job[g].alloc # e.alloc
      BY Zenon, <1>t, <1>b, <2>4, <3>2 DEF PlaceInv
    <3> QED
      BY Zenon, <1>h, <3>1, <3>2, <3>3
  <2>5. ASSUME NEW a \in Allocs, held'[a] # {}
        PROVE  (\E d \in Entries' : d.alloc = a) \/ \E g \in Files : job'[g].alloc = a
    <3>1. a # e.alloc /\ held[a] # {}
      BY Zenon, <1>h, <2>5
    <3> QED
      BY <1>t, <1>j, <1>2, <3>1 DEF HeldInv
  <2> QED
    BY <1>t, <1>0, <2>3, <2>4, <2>5 DEF HeldInv, Attached
<1> QED
  BY Zenon, <1>1, <1>3, <1>4, <1>5 DEF AttachInv

LEMMA InitAttach == Init => AttachInv
<1> SUFFICES ASSUME Init PROVE AttachInv
  BY Zenon
<1>1. RegistryTypes
  <2>1. "idle" \in Steps
    BY Zenon DEF Steps
  <2>2. allocs \in 0..MaxAllocs /\ listed \in Nat
    BY RegistryAssumption DEF Init
  <2>3. held \in [Allocs -> SUBSET Resources] /\ pc \in [Files -> Steps]
    BY Zenon, <2>1 DEF Init
  <2>4. job \in [Files -> Job] /\ queue_addrs \subseteq QueueEntry /\ vram_buffers \subseteq BufferEntry
    BY Zenon, JobTypes DEF Init
  <2> QED
    BY Zenon, <2>2, <2>3, <2>4 DEF RegistryTypes
<1>2. /\ \A f \in Files : pc[f] = "idle" /\ job[f].alloc = None /\ job[f].todo = {}
      /\ vram_buffers = {}
      /\ \A a \in Allocs : held[a] = {}
  BY Zenon, JobTypes DEF Init
<1>3. Entries = {}
  BY <1>2 DEF Entries
<1>4. JobInv /\ PlaceInv /\ HeldInv
  BY Zenon, <1>2, <1>3 DEF JobInv, PlaceInv, HeldInv, Registering
<1> QED
  BY Zenon, <1>1, <1>4 DEF AttachInv

\* A traversal returns an entry it looked at, or None.
LEMMA FirstOfMatch ==
    ASSUME NEW S, NEW e \in FirstOf(S)
    PROVE  /\ e = None \/ e \in S
           /\ S # {} => e \in S /\ \A d \in S : d.at <= e.at
BY Zenon DEF FirstOf

\* The job of the kprobe after its first lookup, which has no buffer in hand.
LookupJob(v, x) == [NoJob EXCEPT !.va = v, !.prp1 = x]

LEMMA LookupJobTypes ==
    ASSUME NEW v \in Vas, NEW x \in Addr \union {None}
    PROVE  /\ LookupJob(v, x) \in Job
           /\ LookupJob(v, x).alloc = None /\ LookupJob(v, x).todo = {}
           /\ LookupJob(v, x).va = v /\ LookupJob(v, x).prp1 = x
           /\ LookupJob(v, x).prp2 = None /\ LookupJob(v, x).hijack = None
           /\ LookupJob(v, x).data2 = None
<1>1. /\ NoJob \in Job /\ NoJob.alloc = None /\ NoJob.todo = {}
      /\ NoJob.prp2 = None /\ NoJob.hijack = None /\ NoJob.data2 = None
  BY Zenon, JobTypes DEF NoJob
<1>2. PICK j : j = LookupJob(v, x)
  BY Zenon
<1>3. /\ j \in Job /\ j.alloc = None /\ j.todo = {}
      /\ j.va = v /\ j.prp1 = x /\ j.prp2 = None /\ j.hijack = None /\ j.data2 = None
  BY Zenon, <1>1, <1>2 DEF Job, LookupJob
<1> QED
  BY Zenon, <1>2, <1>3

LEMMA QueueCallsAttach ==
    ASSUME AttachInv, NEW f \in Files, QueueCalls(f)
    PROVE  AttachInv'
<1>t. /\ pc \in [Files -> Steps] /\ job \in [Files -> Job] /\ JobInv
      /\ allocs \in 0..MaxAllocs /\ listed \in Nat /\ queue_addrs \subseteq QueueEntry
  BY Zenon DEF AttachInv, RegistryTypes
<1>i. pc[f] \notin Registering /\ pc[f] # "detach" => job[f].alloc = None /\ job[f].todo = {}
  BY Zenon, <1>t DEF JobInv
<1>s. {"idle", "prp2", "hijack", "injected"} \subseteq Steps
      /\ \A l \in {"idle", "prp2", "hijack", "injected"} : l \notin Registering
  BY Zenon DEF Steps, Registering
<1>1. ASSUME NEW va \in Vas, NEW size \in 1..2, NEW prp2 \in BOOLEAN,
             NEW garbage \in Files \union {None},
             RegisterQueueAddr(f, va, size, prp2, garbage)
      PROVE  AttachInv'
  <2>1. allocs' = allocs + 1 /\ allocs < MaxAllocs /\ listed' = listed + 1
    BY Zenon, <1>1 DEF RegisterQueueAddr, Allocate
  <2>2. queue_addrs' = queue_addrs \union
          {[virt |-> va, size |-> size, alloc |-> allocs + 1, prp2 |-> prp2,
            owner |-> garbage, at |-> listed + 1]}
    BY <1>1 DEF RegisterQueueAddr, ListAdd
  <2>3. allocs + 1 \in Allocs /\ listed + 1 \in Nat
    BY <1>t, <2>1, RegistryAssumption DEF Allocs
  <2>4. queue_addrs' \subseteq QueueEntry
    BY <1>t, <2>2, <2>3 DEF QueueEntry
  <2>5. UNCHANGED <<vram_buffers, held, pc, job>>
    BY Zenon, <1>1 DEF RegisterQueueAddr
  <2>6. allocs' \in allocs..MaxAllocs /\ listed' \in Nat
    BY <1>t, <2>1, RegistryAssumption
  <2> QED
    BY Zenon, <2>4, <2>5, <2>6, AsideAttach
<1>2. ASSUME NEW va \in Vas, UnregisterQueueAddr(f, va)
      PROVE  AttachInv'
  <2>1. /\ queue_addrs' \subseteq queue_addrs
        /\ UNCHANGED <<allocs, vram_buffers, listed, held, pc, job>>
    BY Zenon, <1>2 DEF UnregisterQueueAddr
  <2> QED
    BY <1>t, <2>1, AsideAttach
<1>3. ASSUME NEW va \in Vas, KprobeCreate(f, va)
      PROVE  AttachInv'
  <2>1. PICK e \in LookupQueue(va) :
          /\ pc' = [pc EXCEPT ![f] = IF e = None THEN "injected" ELSE "prp2"]
          /\ job' = [job EXCEPT ![f] =
               [NoJob EXCEPT !.va = va,
                             !.prp1 = IF e = None THEN None ELSE <<e.alloc, va - e.virt>>]]
    BY Zenon, <1>3 DEF KprobeCreate
  <2>2. PICK x : x = IF e = None THEN None ELSE <<e.alloc, va - e.virt>>
    BY Zenon
  <2>3. x \in Addr \union {None}
    <3>1. e = None \/ e \in queue_addrs
      BY Zenon, FirstOfMatch DEF LookupQueue
    <3>2. CASE e = None
      BY Zenon, <2>2, <3>2
    <3>3. CASE e # None
      <4>1. e.alloc \in Allocs /\ e.virt \in Vas
        BY Zenon, <1>t, <3>1, <3>3 DEF QueueEntry
      <4>2. va - e.virt \in Int
        <5>1. va \in Nat /\ e.virt \in Nat
          BY Zenon, <4>1, RegistryAssumption
        <5> QED
          BY <5>1
      <4> QED
        BY Zenon, <2>2, <3>3, <4>1, <4>2 DEF Addr
    <3> QED
      BY Zenon, <3>2, <3>3
  <2>4. PICK l \in {"injected", "prp2"} : pc' = [pc EXCEPT ![f] = l]
    BY Zenon, <2>1
  <2>5. PICK j : j = LookupJob(va, x)
    BY Zenon
  <2>6. j \in Job /\ j.alloc = None /\ j.todo = {}
    BY Zenon, <2>3, <2>5, LookupJobTypes
  <2>7. job' = [job EXCEPT ![f] = j]
    BY Zenon, <2>1, <2>2, <2>5 DEF LookupJob
  <2>8. /\ pc[f] = "idle"
        /\ UNCHANGED <<allocs, listed, queue_addrs, vram_buffers, held>>
    BY Zenon, <1>3 DEF KprobeCreate, Idle
  <2> QED
    BY Zenon, <1>i, <1>s, <2>4, <2>6, <2>7, <2>8, LookupAttach
<1>4. ASSUME KprobePrp2(f)
      PROVE  AttachInv'
  <2>1. PICK e \in LookupQueue(job[f].va) :
          job' = [job EXCEPT ![f].prp2 = IF e # None /\ e.prp2 THEN e.alloc ELSE None]
    BY Zenon, <1>4 DEF KprobePrp2
  <2>2. PICK x : x = IF e # None /\ e.prp2 THEN e.alloc ELSE None
    BY Zenon
  <2>3. e = None \/ e \in queue_addrs
    BY Zenon, FirstOfMatch DEF LookupQueue
  <2>4. x \in Allocs \union {None}
    BY Zenon, <1>t, <2>2, <2>3 DEF QueueEntry
  <2>5. PICK j : j = [job[f] EXCEPT !.prp2 = x]
    BY Zenon
  <2>6. j \in Job /\ j.alloc = job[f].alloc /\ j.todo = job[f].todo
    BY <1>t, <2>4, <2>5 DEF Job
  <2>7. job' = [job EXCEPT ![f] = j]
    BY Zenon, <2>1, <2>2, <2>5
  <2>8. /\ pc[f] = "prp2" /\ pc' = [pc EXCEPT ![f] = "hijack"]
        /\ UNCHANGED <<allocs, listed, queue_addrs, vram_buffers, held>>
    BY Zenon, <1>4 DEF KprobePrp2
  <2> QED
    BY Zenon, <1>i, <1>s, <2>6, <2>7, <2>8, LookupAttach
<1>5. ASSUME KprobeHijack(f)
      PROVE  AttachInv'
  <2>1. PICK e \in LookupQueue(job[f].va) :
          job' = [job EXCEPT ![f].hijack = IF e = None THEN None ELSE e.alloc]
    BY Zenon, <1>5 DEF KprobeHijack
  <2>2. PICK x : x = IF e = None THEN None ELSE e.alloc
    BY Zenon
  <2>3. e = None \/ e \in queue_addrs
    BY Zenon, FirstOfMatch DEF LookupQueue
  <2>4. x \in Allocs \union {None}
    BY Zenon, <1>t, <2>2, <2>3 DEF QueueEntry
  <2>5. PICK j : j = [job[f] EXCEPT !.hijack = x]
    BY Zenon
  <2>6. j \in Job /\ j.alloc = job[f].alloc /\ j.todo = job[f].todo
    BY <1>t, <2>4, <2>5 DEF Job
  <2>7. job' = [job EXCEPT ![f] = j]
    BY Zenon, <2>1, <2>2, <2>5
  <2>8. /\ pc[f] = "hijack" /\ pc' = [pc EXCEPT ![f] = "injected"]
        /\ UNCHANGED <<allocs, listed, queue_addrs, vram_buffers, held>>
    BY Zenon, <1>5 DEF KprobeHijack
  <2> QED
    BY Zenon, <1>i, <1>s, <2>6, <2>7, <2>8, LookupAttach
<1>6. ASSUME Submitted(f)
      PROVE  AttachInv'
  <2>1. /\ pc[f] = "injected" /\ pc' = [pc EXCEPT ![f] = "idle"]
        /\ job' = [job EXCEPT ![f] = NoJob]
        /\ UNCHANGED <<allocs, listed, queue_addrs, vram_buffers, held>>
    BY Zenon, <1>6 DEF Submitted
  <2> QED
    BY Zenon, <1>i, <1>s, <2>1, JobTypes, LookupAttach
<1> QED
  BY Zenon, <1>1, <1>2, <1>3, <1>4, <1>5, <1>6 DEF QueueCalls

\* The steps of REGISTER_BUFFER up to its entry.
LEMMA RegisterAttach ==
    ASSUME AttachInv, NEW f \in Files,
           \/ \E va \in Vas, size \in 1..2, passthrough \in BOOLEAN :
                RegisterBuffer(f, va, size, passthrough)
           \/ Acquire(f) \/ AcquireFails(f) \/ Acquired(f) \/ BufferNoEntry(f)
    PROVE  AttachInv'
<1>t. /\ pc \in [Files -> Steps] /\ job \in [Files -> Job]
      /\ held \in [Allocs -> SUBSET Resources]
      /\ JobInv /\ PlaceInv /\ HeldInv /\ allocs \in 0..MaxAllocs
  BY Zenon DEF AttachInv, RegistryTypes
<1>r. pc[f] \in {"acquire", "entry"} =>
        /\ job[f].alloc \in Allocs /\ job[f].va \in Vas /\ job[f].size \in 1..2
        /\ job[f].todo = {}
  BY <1>t DEF JobInv, Registering, Job
<1>j. /\ job[f].passthrough \in BOOLEAN
      /\ pc[f] = "acquire" => job[f].step \in 1..6
  BY Zenon, <1>t DEF JobInv, Job
<1>x. PICK j0 \in Job, l0 \in {"acquire", "entry", "idle"}, H0 \in SUBSET Resources :
        j0 = NoJob /\ l0 = "idle" /\ H0 = {} /\ j0.alloc = None /\ j0.todo = {}
  BY Zenon, JobTypes
<1>1. ASSUME NEW va \in Vas, NEW size \in 1..2, NEW passthrough \in BOOLEAN,
             RegisterBuffer(f, va, size, passthrough)
      PROVE  AttachInv'
  <2>a. allocs < MaxAllocs
    BY Zenon, <1>1 DEF RegisterBuffer, Allocate
  <2>0. PICK a \in Allocs : a = allocs + 1
    BY <1>t, <2>a, RegistryAssumption DEF Allocs
  <2>1. PICK j : j = RegisterJob(va, size, a, passthrough)
    BY Zenon
  <2>2. /\ pc[f] = "idle" /\ pc' = [pc EXCEPT ![f] = "acquire"]
        /\ job' = [job EXCEPT ![f] = j]
        /\ allocs < MaxAllocs /\ allocs' = allocs + 1
        /\ UNCHANGED <<listed, queue_addrs, vram_buffers, held>>
    <3>1. RegisterJob(va, size, a, passthrough)
            = [NoJob EXCEPT !.va = va, !.size = size, !.alloc = allocs + 1,
                            !.passthrough = passthrough, !.step = 1]
      BY Zenon, <2>0 DEF RegisterJob
    <3> QED
      BY Zenon, <1>1, <2>1, <3>1 DEF RegisterBuffer, Allocate, Idle
  <2>3. j \in Job /\ j.va = va /\ j.size = size /\ j.alloc = a /\ j.step = 1 /\ j.todo = {}
    BY <2>1, BeginJob
  <2>4. /\ j \in Job /\ j.alloc = allocs + 1 /\ j.va \in Vas /\ j.size \in 1..2
        /\ j.step = 1 /\ j.todo = {}
    BY Zenon, <2>0, <2>3
  <2> QED
    BY Zenon, <2>2, <2>4, BeginAttach
<1>2. ASSUME Acquire(f)
      PROVE  AttachInv'
  <2>1. PICK a \in Allocs : a = job[f].alloc
    BY Zenon, <1>2, <1>r DEF Acquire
  <2>2. PICK n \in 1..5 : n = job[f].step
    BY <1>2, <1>j DEF Acquire
  <2>3. PICK H : H = held[a] \union {Order(job[f].passthrough)[n]}
    BY Zenon
  <2>4. PICK j : j = [job[f] EXCEPT !.step = n + 1]
    BY Zenon
  <2>5. /\ held' = [held EXCEPT ![a] = H] /\ job' = [job EXCEPT ![f] = j]
        /\ UNCHANGED <<allocs, listed, queue_addrs, vram_buffers>>
    BY Zenon, <1>2, <2>1, <2>2, <2>3, <2>4 DEF Acquire
  <2>6. pc[f] = "acquire" /\ pc' = [pc EXCEPT ![f] = "acquire"]
    BY Zenon, <1>2, <1>t DEF Acquire
  <2>7. /\ j \in Job /\ j.alloc = a /\ j.va = job[f].va /\ j.size = job[f].size
        /\ j.todo = job[f].todo
        /\ j.passthrough = job[f].passthrough /\ j.step = n + 1
    BY <1>t, <2>1, <2>2, <2>4 DEF Job
  <2>8. held[a] = Unwind(job[f].passthrough, n)
    BY Zenon, <1>t, <2>1, <2>2, <2>6 DEF HeldInv
  <2>9. H \in SUBSET Resources /\ H = Unwind(j.passthrough, j.step)
    BY <1>j, <2>3, <2>7, <2>8, UnwindSteps
  <2>10. PICK l \in {"acquire", "entry", "idle"} : l = "acquire"
    BY Zenon
  <2>11. pc[f] \in {"acquire", "entry"} /\ pc' = [pc EXCEPT ![f] = l]
    BY Zenon, <2>6, <2>10
  <2>12. job[f].alloc = a /\ j.todo = {} /\ j.va \in Vas /\ j.size \in 1..2
    BY Zenon, <1>r, <2>1, <2>6, <2>7
  <2>13. /\ l = "idle" => j.alloc = None /\ H = {}
         /\ l # "idle" => j.alloc = a /\ j.va \in Vas /\ j.size \in 1..2
         /\ l = "acquire" => j.step \in 1..6 /\ H = Unwind(j.passthrough, j.step)
         /\ l = "entry" => H = Attached(j)
    BY <2>7, <2>9, <2>10, <2>12
  <2> QED
    BY Zenon, <2>5, <2>7, <2>9, <2>11, <2>12, <2>13, StageAttach
<1>3. ASSUME AcquireFails(f)
      PROVE  AttachInv'
  <2>1. PICK a \in Allocs : a = job[f].alloc
    BY Zenon, <1>3, <1>r DEF AcquireFails
  <2>2. /\ pc[f] = "acquire" /\ pc' = [pc EXCEPT ![f] = l0]
        /\ job' = [job EXCEPT ![f] = j0]
        /\ UNCHANGED <<allocs, listed, queue_addrs, vram_buffers>>
    BY Zenon, <1>3, <1>x DEF AcquireFails
  <2>3. held[a] = Unwind(job[f].passthrough, job[f].step)
    BY Zenon, <1>t, <2>1, <2>2 DEF HeldInv
  <2>4. held' = [held EXCEPT ![a] = H0]
    BY Zenon, <1>3, <1>x, <2>1, <2>3 DEF AcquireFails
  <2> QED
    BY Zenon, <1>x, <2>1, <2>2, <2>4, StageAttach
<1>4. ASSUME Acquired(f)
      PROVE  AttachInv'
  <2>1. PICK a \in Allocs : a = job[f].alloc
    BY Zenon, <1>4, <1>r DEF Acquired
  <2>2. PICK j \in Job : j = job[f]
    BY Zenon, <1>t
  <2>3. /\ pc[f] = "acquire" /\ pc' = [pc EXCEPT ![f] = "entry"] /\ j.step = 6
        /\ job' = [job EXCEPT ![f] = j]
        /\ UNCHANGED <<allocs, listed, queue_addrs, vram_buffers>>
    BY Zenon, <1>4, <1>t, <2>2 DEF Acquired
  <2>4. held[a] = Resources
    BY Zenon, <1>t, <1>j, <2>1, <2>2, <2>3, UnwindSteps DEF HeldInv
  <2>5. PICK H \in SUBSET Resources : H = Attached(j)
    BY Zenon DEF Attached
  <2>6. held' = [held EXCEPT ![a] = H]
    <3>1. CASE j.passthrough
      BY Zenon, <1>4, <1>t, <2>1, <2>2, <2>4, <2>5, <3>1 DEF Acquired, KeptAlive, Attached
    <3>2. CASE ~j.passthrough
      <4>1. FALSE \in BOOLEAN /\ 6 \in 1..6
        OBVIOUS
      <4>2. Resources \ Unwind(FALSE, 6) = {}
        BY Zenon, <4>1, UnwindSteps
      <4> QED
        BY Zenon, <1>4, <1>t, <2>1, <2>2, <2>4, <2>5, <3>2, <4>2 DEF Acquired, KeptAlive, Attached
    <3> QED
      BY Zenon, <3>1, <3>2
  <2> QED
    BY ZenonT(30), <1>r, <2>1, <2>2, <2>3, <2>5, <2>6, StageAttach
<1>5. ASSUME BufferNoEntry(f)
      PROVE  AttachInv'
  <2>1. PICK a \in Allocs : a = job[f].alloc
    BY Zenon, <1>5, <1>r DEF BufferNoEntry
  <2>2. /\ pc[f] = "entry" /\ pc' = [pc EXCEPT ![f] = l0]
        /\ job' = [job EXCEPT ![f] = j0]
        /\ UNCHANGED <<allocs, listed, queue_addrs, vram_buffers>>
    BY Zenon, <1>5, <1>x DEF BufferNoEntry
  <2>3. held[a] = Attached(job[f])
    BY Zenon, <1>t, <2>1, <2>2 DEF HeldInv
  <2>4. held' = [held EXCEPT ![a] = H0]
    BY Zenon, <1>5, <1>t, <1>x, <2>1, <2>3 DEF BufferNoEntry, Detach, Attached
  <2> QED
    BY Zenon, <1>x, <2>1, <2>2, <2>4, StageAttach
<1> QED
  BY Zenon, <1>1, <1>2, <1>3, <1>4, <1>5

\* The calls that take entries off the list.
LEMMA RemoveAttach ==
    ASSUME AttachInv, NEW f \in Files,
           \/ CopyToUserFails(f) \/ Release(f)
           \/ \E va \in Vas : UnregisterBuffer(f, va)
    PROVE  AttachInv'
<1>t. /\ pc \in [Files -> Steps] /\ job \in [Files -> Job]
      /\ vram_buffers \subseteq BufferEntry /\ queue_addrs \subseteq QueueEntry
      /\ JobInv /\ PlaceInv
  BY Zenon DEF AttachInv, RegistryTypes
<1>i. pc[f] = "idle" => job[f].alloc = None /\ job[f].todo = {}
  BY Zenon, <1>t DEF JobInv, Registering
<1>n. \A e \in vram_buffers : e.alloc # None
  BY <1>t, RegistryAssumption DEF BufferEntry, Allocs
<1>1. CASE CopyToUserFails(f)
  <2>1. PICK e \in vram_buffers :
          /\ e.alloc = job[f].alloc /\ vram_buffers' = vram_buffers \ {e}
          /\ job' = [job EXCEPT ![f] = [NoJob EXCEPT !.todo = {e}]]
    BY Zenon, <1>1 DEF CopyToUserFails
  <2>2. /\ pc[f] = "copy" /\ pc' = [pc EXCEPT ![f] = "detach"]
        /\ UNCHANGED <<allocs, listed, queue_addrs, held>>
    BY Zenon, <1>1 DEF CopyToUserFails
  <2>3. \A d \in vram_buffers : job[f].alloc = d.alloc => d = e
    BY Zenon, <1>t, <2>1 DEF PlaceInv, Entries
  <2>4. e.owner = f
    BY Zenon, <1>t, <1>n, <2>1, <2>2, <2>3 DEF PlaceInv
  <2>5. PICK T \in SUBSET BufferEntry : T = {e}
    BY Zenon, <1>t
  <2>6. job[f].todo = {}
    BY Zenon, <1>t, <2>2 DEF JobInv
  <2>7. /\ job' = [job EXCEPT ![f] = [NoJob EXCEPT !.todo = T]]
        /\ vram_buffers' = vram_buffers \ T /\ T \subseteq vram_buffers
        /\ \A d \in T : d.owner = f
        /\ \A d \in vram_buffers : job[f].alloc = d.alloc => d \in T
    BY Zenon, <2>1, <2>3, <2>4, <2>5
  <2> QED
    BY Zenon, <1>t, <2>2, <2>6, <2>7, TakeOffAttach
<1>2. CASE Release(f)
  <2>1. PICK T \in SUBSET BufferEntry : T = {e \in vram_buffers : e.owner = f}
    BY Zenon, <1>t
  <2>2. /\ job' = [job EXCEPT ![f] = [NoJob EXCEPT !.todo = T]]
        /\ vram_buffers' = vram_buffers \ T /\ T \subseteq vram_buffers
        /\ \A e \in T : e.owner = f
    BY Zenon, <1>2, <2>1 DEF Release
  <2>3. /\ pc[f] = "idle" /\ pc' = [pc EXCEPT ![f] = "detach"]
        /\ UNCHANGED <<allocs, listed, held>>
    BY Zenon, <1>2 DEF Release, Idle
  <2>4. /\ job[f].alloc = None /\ job[f].todo = {}
        /\ \A e \in vram_buffers : job[f].alloc # e.alloc
    BY Zenon, <1>i, <1>n, <2>3
  <2>5. queue_addrs' \subseteq QueueEntry
    BY Zenon, <1>t, <1>2 DEF Release
  <2> QED
    <3>1. /\ job[f].alloc # None => pc[f] = "copy"
          /\ \A e \in vram_buffers : job[f].alloc = e.alloc => e \in T
          /\ job[f].todo = {}
      BY Zenon, <2>4
    <3> QED
      BY Zenon, <2>2, <2>3, <2>5, <3>1, TakeOffAttach
<1>3. ASSUME NEW va \in Vas, UnregisterBuffer(f, va)
      PROVE  AttachInv'
  <2>1. PICK e \in FirstOf({d \in vram_buffers : d.virt = va /\ d.owner = f}) :
          /\ e # None /\ vram_buffers' = vram_buffers \ {e}
          /\ job' = [job EXCEPT ![f] = [NoJob EXCEPT !.todo = {e}]]
    BY Zenon, <1>3 DEF UnregisterBuffer
  <2>2. e \in vram_buffers /\ e.owner = f
    BY <2>1, FirstOfMatch
  <2>3. /\ pc[f] = "idle" /\ pc' = [pc EXCEPT ![f] = "detach"]
        /\ UNCHANGED <<allocs, listed, queue_addrs, held>>
    BY Zenon, <1>3 DEF UnregisterBuffer, Idle
  <2>4. PICK T \in SUBSET BufferEntry : T = {e}
    BY Zenon, <1>t, <2>2
  <2>5. /\ job' = [job EXCEPT ![f] = [NoJob EXCEPT !.todo = T]]
        /\ vram_buffers' = vram_buffers \ T /\ T \subseteq vram_buffers
        /\ \A d \in T : d.owner = f
    BY Zenon, <2>1, <2>2, <2>4
  <2>6. /\ job[f].alloc = None /\ job[f].todo = {}
        /\ \A d \in vram_buffers : job[f].alloc # d.alloc
    BY Zenon, <1>i, <1>n, <2>3
  <2>7. queue_addrs' \subseteq QueueEntry
    BY Zenon, <1>t, <2>3
  <2>8. /\ job[f].alloc # None => pc[f] = "copy"
        /\ \A d \in vram_buffers : job[f].alloc = d.alloc => d \in T
        /\ job[f].todo = {}
    BY Zenon, <2>6
  <2> QED
    BY Zenon, <2>3, <2>5, <2>7, <2>8, TakeOffAttach
<1> QED
  BY Zenon, <1>1, <1>2, <1>3

\* What replaces a pointer is an address.
LEMMA ReplacementTypes ==
    ASSUME AttachInv, NEW va \in Vas, NEW x \in Replacement(va)
    PROVE  x \in Addr \union {None}
<1>1. PICK e \in LookupBuffer(va) :
        x = IF va \notin LowVas \/ e = None THEN None ELSE <<e.alloc, va - e.virt>>
  BY Zenon DEF Replacement
<1>2. CASE va \notin LowVas \/ e = None
  BY Zenon, <1>1, <1>2
<1>3. CASE va \in LowVas /\ e # None
  <2>1. e \in BufferEntry
    BY Zenon, <1>3, FirstOfMatch DEF LookupBuffer, AttachInv, RegistryTypes
  <2>2. e.alloc \in Allocs /\ va \in Nat /\ e.virt \in Nat
    BY Zenon, <2>1, RegistryAssumption DEF BufferEntry
  <2>3. va - e.virt \in Int
    BY <2>2
  <2> QED
    BY Zenon, <1>1, <1>3, <2>2, <2>3 DEF Addr
<1> QED
  BY Zenon, <1>2, <1>3

LEMMA BufferCallsAttach ==
    ASSUME AttachInv, NEW f \in Files, BufferCalls(f)
    PROVE  AttachInv'
<1>t. /\ pc \in [Files -> Steps] /\ job \in [Files -> Job] /\ JobInv
      /\ vram_buffers \subseteq BufferEntry
  BY Zenon DEF AttachInv, RegistryTypes
<1>s. /\ {"idle", "io", "injected"} \subseteq Steps
      /\ \A l \in {"idle", "io", "injected"} : l \notin Registering
  BY Zenon DEF Steps, Registering
<1>i. pc[f] \notin Registering /\ pc[f] # "detach" => job[f].alloc = None /\ job[f].todo = {}
  BY Zenon, <1>t DEF JobInv
<1>1. ASSUME NEW va \in Vas, KprobeIo(f, va)
      PROVE  AttachInv'
  <2>1. PICK x \in Replacement(va) :
          job' = [job EXCEPT ![f] = [NoJob EXCEPT !.va = va, !.prp1 = x]]
    BY Zenon, <1>1 DEF KprobeIo
  <2>4. x \in Addr \union {None}
    BY Zenon, ReplacementTypes
  <2>5. PICK j : j = LookupJob(va, x)
    BY Zenon
  <2>6. j \in Job /\ j.alloc = None /\ j.todo = {}
    BY Zenon, <2>4, <2>5, LookupJobTypes
  <2>7. job' = [job EXCEPT ![f] = j]
    BY Zenon, <2>1, <2>5 DEF LookupJob
  <2>8. /\ pc[f] = "idle" /\ pc' = [pc EXCEPT ![f] = "io"]
        /\ UNCHANGED <<allocs, listed, queue_addrs, vram_buffers, held>>
    BY Zenon, <1>1 DEF KprobeIo, Idle
  <2> QED
    BY Zenon, <1>i, <1>s, <2>6, <2>7, <2>8, LookupAttach
<1>3. ASSUME NEW va \in Vas, KprobeIoPrp2(f, va)
      PROVE  AttachInv'
  <2>1. PICK x \in Replacement(va) :
          job' = [job EXCEPT ![f] = [@ EXCEPT !.va2 = va, !.data2 = x]]
    BY Zenon, <1>3 DEF KprobeIoPrp2
  <2>4. x \in Addr \union {None}
    BY Zenon, ReplacementTypes
  <2>5. PICK j : j = [job[f] EXCEPT !.va2 = va, !.data2 = x]
    BY Zenon
  <2>6. j \in Job /\ j.alloc = job[f].alloc /\ j.todo = job[f].todo
    BY <1>t, <2>4, <2>5 DEF Job
  <2>7. job' = [job EXCEPT ![f] = j]
    BY Zenon, <1>t, <2>1, <2>5
  <2>8. /\ pc[f] = "io" /\ pc' = [pc EXCEPT ![f] = "injected"]
        /\ UNCHANGED <<allocs, listed, queue_addrs, vram_buffers, held>>
    BY Zenon, <1>3 DEF KprobeIoPrp2
  <2> QED
    BY Zenon, <1>i, <1>s, <2>6, <2>7, <2>8, LookupAttach
<1>4. CASE KprobeIoNoPrp2(f)
  <2>1. /\ pc[f] = "io" /\ pc' = [pc EXCEPT ![f] = "injected"]
        /\ UNCHANGED <<allocs, listed, queue_addrs, vram_buffers, held>>
    BY Zenon, <1>4 DEF KprobeIoNoPrp2
  <2>2. PICK j \in Job : j = job[f] /\ job' = [job EXCEPT ![f] = j]
    BY Zenon, <1>t, <1>4 DEF KprobeIoNoPrp2
  <2> QED
    BY Zenon, <1>i, <1>s, <2>1, <2>2, LookupAttach
<1>2. CASE Detached(f)
  <2>1. /\ job[f].todo = {} /\ pc[f] = "detach" /\ pc' = [pc EXCEPT ![f] = "idle"]
        /\ job' = [job EXCEPT ![f] = NoJob]
        /\ UNCHANGED <<allocs, listed, queue_addrs, vram_buffers, held>>
    BY Zenon, <1>2 DEF Detached
  <2>2. job[f].alloc = None
    BY Zenon, <1>t, <2>1 DEF JobInv, Registering
  <2> QED
    BY Zenon, <1>s, <2>1, <2>2, JobTypes, LookupAttach
<1> QED
  BY Zenon, <1>1, <1>2, <1>3, <1>4, RegisterAttach, RemoveAttach, ListedAttach, CopyAttach,
     DetachAttach DEF BufferCalls

LEMMA NextAttach == AttachInv /\ [Next]_vars => AttachInv'
<1> SUFFICES ASSUME AttachInv, [Next]_vars PROVE AttachInv'
  BY Zenon
<1>t. /\ allocs \in 0..MaxAllocs /\ listed \in Nat /\ queue_addrs \subseteq QueueEntry
  BY Zenon DEF AttachInv, RegistryTypes
<1>a. allocs \in allocs..MaxAllocs
  BY <1>t, RegistryAssumption
<1>1. CASE UNCHANGED vars
  BY Zenon, <1>1, <1>t, <1>a, AsideAttach DEF vars
<1>2. ASSUME NEW f \in Files, Open(f) \/ \E va \in Vas : FreeMemory(f, va)
      PROVE  AttachInv'
  <2>1. UNCHANGED <<allocs, listed, queue_addrs, vram_buffers, held, pc, job>>
    BY Zenon, <1>2 DEF Open, FreeMemory
  <2> QED
    BY Zenon, <1>t, <1>a, <2>1, AsideAttach
<1>3. ASSUME NEW f \in Files, Release(f) \/ QueueCalls(f) \/ BufferCalls(f)
      PROVE  AttachInv'
  BY Zenon, <1>3, RemoveAttach, QueueCallsAttach, BufferCallsAttach
<1> QED
  BY Zenon, <1>1, <1>2, <1>3 DEF Next

\* AttachmentsExact for any number of processes, with or without each other: in
\* every state a listed passthrough buffer is attached all the way, and nothing
\* is held beyond the listed buffers and what a call in progress is about to
\* list or release, whichever steps failed on the way.
THEOREM AttachmentsStayExact == Spec => []AttachmentsExact
<1>1. AttachInv => AttachmentsExact
  <2> SUFFICES ASSUME AttachInv PROVE AttachmentsExact
    BY Zenon
  <2>1. HeldInv
    BY Zenon DEF AttachInv
  <2>2. \A e \in vram_buffers : e.passthrough => held[e.alloc] = Resources
    BY Zenon, <2>1 DEF HeldInv, Entries, Attached
  <2>3. ASSUME NEW a \in Allocs, held[a] # {}
        PROVE  \/ \E e \in vram_buffers : e.alloc = a /\ e.passthrough
               \/ \E f \in Files : \/ job[f].alloc = a
                                   \/ \E e \in job[f].todo : e.alloc = a
    <3>1. CASE \E f \in Files : job[f].alloc = a
      BY Zenon, <3>1
    <3>2. ASSUME NEW e \in Entries, e.alloc = a, e \in vram_buffers
          PROVE  e.passthrough
      BY Zenon, <2>1, <2>3, <3>2 DEF HeldInv, Attached
    <3>3. CASE \E e \in Entries : e.alloc = a
      BY Zenon, <3>2, <3>3 DEF Entries
    <3> QED
      BY Zenon, <2>1, <2>3, <3>1, <3>3 DEF HeldInv
  <2> QED
    BY Zenon, <2>2, <2>3 DEF AttachmentsExact
<1> QED
  BY <1>1, InitAttach, NextAttach, PTL DEF Spec

-----------------------------------------------------------------------------
(* Injected addresses.                                                     *)

\* A step of one call that leaves memory and queue registrations alone, lists
\* no buffer, and goes on with the allocation it works on or drops it.
LEMMA CallInject ==
    ASSUME AttachInv, AttachInv', InjectInv, NEW f \in Files,
           UNCHANGED <<mem, allocs, listed, queue_addrs>>,
           vram_buffers' \subseteq vram_buffers,
           status' \in [Files -> {"new", "open", "closing", "closed"}],
           \A g \in Files : status'[g] = "open" <=> status[g] = "open",
           \A g \in Files : g # f => job'[g] = job[g] /\ pc'[g] = pc[g],
           pc'[f] \in {"idle", "detach"} \/ status[f] = "open",
           job'[f].alloc # None =>
               /\ job'[f].alloc = job[f].alloc /\ job'[f].va = job[f].va
               /\ job'[f].size = job[f].size,
           pc'[f] \in {"prp2", "hijack"} =>
               /\ job'[f].va \in Vas
               /\ job'[f].prp1 = mem[f][job'[f].va]
               /\ job'[f].prp1 # None
               /\ \E r \in queue_addrs : r.alloc = job'[f].prp1[1]
               /\ job'[f].prp2 \in {None, job'[f].prp1[1]}
               /\ job'[f].hijack = None
               /\ job'[f].data2 = None,
           pc'[f] = "io" =>
               /\ job'[f].prp1 # None => job'[f].prp1 = mem[f][job'[f].va]
               /\ job'[f].prp2 = None
               /\ job'[f].hijack = None
               /\ job'[f].data2 = None,
           pc'[f] = "injected" =>
               /\ job'[f].prp1 # None =>
                    /\ job'[f].prp1 = mem[f][job'[f].va]
                    /\ job'[f].prp2 \in {None, job'[f].prp1[1]}
                    /\ job'[f].hijack \in {None, job'[f].prp1[1]}
               /\ job'[f].data2 # None => job'[f].data2 = mem[f][job'[f].va2]
    PROVE  InjectInv'
<1>p. AloneInv /\ PageInv /\ RegisterInv /\ NewestInv /\ LookupInv /\ InjectedOwn
  BY Zenon DEF InjectInv
<1>j. \A g \in Files : /\ pc[g] \in Registering <=> job[g].alloc # None
                       /\ pc'[g] \in Registering <=> job'[g].alloc # None
  BY Zenon DEF AttachInv, JobInv
<1>1. AloneInv'
  BY <1>p DEF AloneInv
<1>2. PageInv'
  <2>1. SUFFICES ASSUME NEW h \in Files, NEW p \in Vas, mem[h][p] # None
                 PROVE  /\ \A r \in queue_addrs : r.alloc = mem[h][p][1] =>
                             Covers(r, p) /\ mem[h][p] = <<r.alloc, p - r.virt>>
                        /\ \A r \in vram_buffers' : r.alloc = mem[h][p][1] =>
                             Covers(r, p) /\ mem[h][p] = <<r.alloc, p - r.virt>>
                        /\ \A g \in Files : job'[g].alloc = mem[h][p][1] =>
                             InJob(job'[g], p) /\ mem[h][p] = <<job'[g].alloc, p - job'[g].va>>
    BY DEF PageInv, Covers, InJob
  <2>2. mem[h][p][1] # None
    BY <1>p, <2>1, RegistryAssumption DEF AloneInv, Addr, Allocs
  <2>3. \A g \in Files : job'[g].alloc = mem[h][p][1] =>
          /\ job'[g].alloc = job[g].alloc /\ job'[g].va = job[g].va
          /\ job'[g].size = job[g].size
    BY Zenon, <2>2
  <2> QED
    BY <1>p, <2>1, <2>3 DEF PageInv, InJob
<1>3. RegisterInv'
  <2>1. \A g \in Files : pc'[g] \in Registering =>
          /\ pc[g] \in Registering /\ job'[g].alloc = job[g].alloc
          /\ job'[g].va = job[g].va /\ job'[g].size = job[g].size
    BY Zenon, <1>j
  <2> QED
    BY <1>p, <2>1 DEF RegisterInv, InJob
<1>4. NewestInv'
  BY <1>p DEF NewestInv, Covers
<1>5. LookupInv'
  BY <1>p DEF LookupInv
<1>6. InjectedOwn'
  BY <1>p DEF InjectedOwn
<1> QED
  BY Zenon, <1>1, <1>2, <1>3, <1>4, <1>5, <1>6 DEF InjectInv

\* The first queue entry that covers a page is the one of the memory there.
LEMMA LookupFindsQueue ==
    ASSUME AttachInv, InjectInv, NEW f \in Files, NEW va \in Vas, mem[f][va] # None,
           NEW r \in queue_addrs, r.alloc = mem[f][va][1], NEW e \in LookupQueue(va)
    PROVE  e = r /\ <<e.alloc, va - e.virt>> = mem[f][va]
<1>p. PageInv /\ NewestInv
  BY Zenon DEF InjectInv
<1>t. queue_addrs \subseteq QueueEntry
  BY Zenon DEF AttachInv, RegistryTypes
<1>1. Covers(r, va) /\ mem[f][va] = <<r.alloc, va - r.virt>>
  BY Zenon, <1>p DEF PageInv
<1>2. e \in queue_addrs /\ Covers(e, va) /\ r.at <= e.at
  BY <1>1, FirstOfMatch DEF LookupQueue
<1>3. e # r => e.at < r.at
  BY Zenon, <1>p, <1>2 DEF NewestInv
<1>4. e.at \in Nat /\ r.at \in Nat
  BY Zenon, <1>t, <1>2 DEF QueueEntry
<1>5. e = r
  BY <1>2, <1>3, <1>4
<1> QED
  BY Zenon, <1>1, <1>5

\* The first buffer that covers a page is the one of the memory there.
LEMMA LookupFindsBuffer ==
    ASSUME AttachInv, InjectInv, NEW f \in Files, NEW va \in Vas, mem[f][va] # None,
           NEW r \in vram_buffers, r.alloc = mem[f][va][1], NEW e \in LookupBuffer(va)
    PROVE  e = r /\ <<e.alloc, va - e.virt>> = mem[f][va]
<1>p. PageInv /\ NewestInv
  BY Zenon DEF InjectInv
<1>t. vram_buffers \subseteq BufferEntry
  BY Zenon DEF AttachInv, RegistryTypes
<1>1. Covers(r, va) /\ mem[f][va] = <<r.alloc, va - r.virt>>
  BY Zenon, <1>p DEF PageInv
<1>2. e \in vram_buffers /\ Covers(e, va) /\ r.at <= e.at
  BY <1>1, FirstOfMatch DEF LookupBuffer
<1>3. e # r => e.at < r.at
  BY Zenon, <1>p, <1>2 DEF NewestInv
<1>4. e.at \in Nat /\ r.at \in Nat
  BY Zenon, <1>t, <1>2 DEF BufferEntry
<1>5. e = r
  BY <1>2, <1>3, <1>4
<1> QED
  BY Zenon, <1>1, <1>5

\* A data pointer is replaced by the memory the process has there.
LEMMA ReplacementOwn ==
    ASSUME AttachInv, InjectInv, NEW f \in Files, NEW va \in Vas,
           Registered(f, va, vram_buffers), NEW x \in Replacement(va), x # None
    PROVE  x = mem[f][va]
<1>0. PICK e \in LookupBuffer(va) :
        x = IF va \notin LowVas \/ e = None THEN None ELSE <<e.alloc, va - e.virt>>
  BY Zenon DEF Replacement
<1>1. x = <<e.alloc, va - e.virt>>
  <2>1. CASE va \notin LowVas \/ e = None
    BY Zenon, <1>0, <2>1
  <2>2. CASE ~(va \notin LowVas \/ e = None)
    BY Zenon, <1>0, <2>2
  <2> QED
    BY Zenon, <2>1, <2>2
<1>2. mem[f][va] # None
  BY Zenon DEF Registered
<1>3. PICK r \in vram_buffers : r.alloc = mem[f][va][1]
  BY Zenon DEF Registered
<1>4. <<e.alloc, va - e.virt>> = mem[f][va]
  BY <1>2, <1>3, LookupFindsBuffer
<1> QED
  BY Zenon, <1>1, <1>4

\* The kprobe's lookups.
LEMMA KprobeInject ==
    ASSUME AttachInv, AttachInv', InjectInv, NEW f \in Files,
           \/ \E va \in Vas :
                KprobeCreate(f, va) \/ KprobeIo(f, va) \/ KprobeIoPrp2(f, va)
           \/ KprobePrp2(f) \/ KprobeHijack(f) \/ KprobeIoNoPrp2(f)
    PROVE  InjectInv'
<1>t. /\ pc \in [Files -> Steps] /\ job \in [Files -> Job]
      /\ queue_addrs \subseteq QueueEntry /\ vram_buffers \subseteq BufferEntry
      /\ AloneInv /\ LookupInv
  BY Zenon DEF AttachInv, RegistryTypes, InjectInv
<1>s. /\ status \in [Files -> {"new", "open", "closing", "closed"}]
      /\ pc[f] \notin {"idle", "detach"} => status[f] = "open"
  BY Zenon, <1>t DEF AloneInv
<1>m. \A va \in Vas : mem[f][va] \in Addr \union {None}
  BY Zenon, <1>t DEF AloneInv
<1>1. ASSUME NEW va \in Vas, KprobeCreate(f, va)
      PROVE  InjectInv'
  <2>1. PICK e \in LookupQueue(va) :
          /\ pc' = [pc EXCEPT ![f] = IF e = None THEN "injected" ELSE "prp2"]
          /\ job' = [job EXCEPT ![f] =
               [NoJob EXCEPT !.va = va,
                             !.prp1 = IF e = None THEN None ELSE <<e.alloc, va - e.virt>>]]
    BY Zenon, <1>1 DEF KprobeCreate
  <2>2. /\ status[f] = "open" /\ mem[f][va] # None
        /\ UNCHANGED <<status, mem, allocs, queue_addrs, vram_buffers, listed>>
    BY Zenon, <1>1 DEF KprobeCreate, Idle, Registered
  <2>3. PICK r \in queue_addrs : r.alloc = mem[f][va][1]
    BY ZenonT(30), <1>1 DEF KprobeCreate, Registered
  <2>4. e = r /\ <<e.alloc, va - e.virt>> = mem[f][va]
    BY <2>2, <2>3, LookupFindsQueue
  <2>5. PICK x \in Addr \union {None} : x = IF e = None THEN None ELSE mem[f][va]
    BY Zenon, <1>m
  <2>6. PICK j : j = LookupJob(va, x)
    BY Zenon
  <2>7. /\ j.alloc = None /\ j.va = va /\ j.prp1 = x /\ j.prp2 = None /\ j.hijack = None
        /\ j.data2 = None
    BY <2>6, LookupJobTypes
  <2>8. /\ job'[f] = j
        /\ \A g \in Files : g # f => job'[g] = job[g] /\ pc'[g] = pc[g]
    BY Zenon, <1>t, <2>1, <2>4, <2>5, <2>6 DEF LookupJob
  <2>9. /\ pc'[f] \in {"prp2", "injected"}
        /\ pc'[f] = "prp2" => x = mem[f][va]
        /\ x # None => x = mem[f][va]
    BY Zenon, <1>t, <2>1, <2>5
  <2> QED
    BY <1>s, <2>2, <2>3, <2>7, <2>8, <2>9, CallInject
<1>2. ASSUME NEW va \in Vas, KprobeIo(f, va)
      PROVE  InjectInv'
  <2>1. PICK x \in Replacement(va) :
          job' = [job EXCEPT ![f] = [NoJob EXCEPT !.va = va, !.prp1 = x]]
    BY Zenon, <1>2 DEF KprobeIo
  <2>2. /\ status[f] = "open" /\ Registered(f, va, vram_buffers)
        /\ pc' = [pc EXCEPT ![f] = "io"]
        /\ UNCHANGED <<status, mem, allocs, queue_addrs, vram_buffers, listed>>
    BY Zenon, <1>2 DEF KprobeIo, Idle
  <2>3. /\ x \in Addr \union {None}
        /\ x # None => x = mem[f][va]
    BY Zenon, <2>2, ReplacementTypes, ReplacementOwn
  <2>6. PICK j : j = LookupJob(va, x)
    BY Zenon
  <2>7. /\ j.alloc = None /\ j.va = va /\ j.prp1 = x /\ j.prp2 = None /\ j.hijack = None
        /\ j.data2 = None
    BY <2>3, <2>6, LookupJobTypes
  <2>8. /\ job'[f] = j /\ pc'[f] = "io"
        /\ \A g \in Files : g # f => job'[g] = job[g] /\ pc'[g] = pc[g]
    BY Zenon, <1>t, <2>1, <2>2, <2>6 DEF LookupJob
  <2> QED
    BY Zenon, <1>s, <2>2, <2>3, <2>7, <2>8, CallInject
<1>5. ASSUME NEW va \in Vas, KprobeIoPrp2(f, va)
      PROVE  InjectInv'
  <2>1. PICK x \in Replacement(va) :
          job' = [job EXCEPT ![f] = [@ EXCEPT !.va2 = va, !.data2 = x]]
    BY Zenon, <1>5 DEF KprobeIoPrp2
  <2>2. /\ pc[f] = "io" /\ Registered(f, va, vram_buffers)
        /\ pc' = [pc EXCEPT ![f] = "injected"]
        /\ UNCHANGED <<status, mem, allocs, queue_addrs, vram_buffers, listed>>
    BY Zenon, <1>5 DEF KprobeIoPrp2
  <2>3. x # None => x = mem[f][va]
    BY Zenon, <2>2, ReplacementOwn
  <2>4. PICK j \in Job : j = job[f]
    BY Zenon, <1>t
  <2>5. /\ j.prp1 # None => j.prp1 = mem[f][j.va]
        /\ j.prp2 = None /\ j.hijack = None
    BY Zenon, <1>t, <2>2, <2>4 DEF LookupInv
  <2>6. /\ job'[f] = [j EXCEPT !.va2 = va, !.data2 = x] /\ pc'[f] = "injected"
        /\ \A g \in Files : g # f => job'[g] = job[g] /\ pc'[g] = pc[g]
    BY Zenon, <1>t, <2>1, <2>2, <2>4
  <2>7. /\ job'[f].va = j.va /\ job'[f].size = j.size /\ job'[f].alloc = j.alloc
        /\ job'[f].prp1 = j.prp1 /\ job'[f].prp2 = j.prp2 /\ job'[f].hijack = j.hijack
        /\ job'[f].va2 = va /\ job'[f].data2 = x
    BY Zenon, <2>4, <2>6 DEF Job
  <2> QED
    <3>1. /\ job'[f].prp1 # None => job'[f].prp1 = mem[f][job'[f].va]
          /\ job'[f].prp2 = None /\ job'[f].hijack = None
          /\ job'[f].data2 # None => job'[f].data2 = mem[f][job'[f].va2]
      BY Zenon, <2>3, <2>5, <2>7
    <3>2. /\ job'[f].alloc = job[f].alloc /\ job'[f].va = job[f].va
          /\ job'[f].size = job[f].size
      BY Zenon, <2>4, <2>7
    <3>3. status[f] = "open" /\ pc'[f] \notin {"prp2", "hijack", "io"}
      BY Zenon, <1>s, <2>2, <2>6
    <3> QED
      BY Zenon, <1>s, <2>2, <2>6, <3>1, <3>2, <3>3, CallInject
<1>6. CASE KprobeIoNoPrp2(f)
  <2>1. /\ pc[f] = "io" /\ pc' = [pc EXCEPT ![f] = "injected"]
        /\ UNCHANGED <<status, mem, allocs, queue_addrs, vram_buffers, listed, job>>
    BY Zenon, <1>6 DEF KprobeIoNoPrp2
  <2>2. /\ job[f].prp1 # None => job[f].prp1 = mem[f][job[f].va]
        /\ job[f].prp2 = None /\ job[f].hijack = None /\ job[f].data2 = None
    BY Zenon, <1>t, <2>1 DEF LookupInv
  <2>3. /\ pc'[f] = "injected" /\ job' = job
        /\ \A g \in Files : g # f => job'[g] = job[g] /\ pc'[g] = pc[g]
    BY Zenon, <1>t, <2>1
  <2> QED
    BY Zenon, <1>s, <2>1, <2>2, <2>3, CallInject
<1>3. CASE KprobePrp2(f)
  <2>1. PICK e \in LookupQueue(job[f].va) :
          job' = [job EXCEPT ![f].prp2 = IF e # None /\ e.prp2 THEN e.alloc ELSE None]
    BY Zenon, <1>3 DEF KprobePrp2
  <2>2. /\ pc[f] = "prp2" /\ pc' = [pc EXCEPT ![f] = "hijack"]
        /\ UNCHANGED <<status, mem, allocs, queue_addrs, vram_buffers, listed>>
    BY Zenon, <1>3 DEF KprobePrp2
  <2>3. PICK j : j = job[f]
    BY Zenon
  <2>4. /\ j \in Job /\ j.va \in Vas /\ j.prp1 = mem[f][j.va] /\ j.prp1 # None
        /\ j.hijack = None /\ j.data2 = None
    BY Zenon, <1>t, <2>2, <2>3 DEF LookupInv
  <2>5. PICK r \in queue_addrs : r.alloc = j.prp1[1]
    BY Zenon, <1>t, <2>2, <2>3 DEF LookupInv
  <2>6. e = r
    BY <2>3, <2>4, <2>5, LookupFindsQueue
  <2>7. PICK x \in {None, j.prp1[1]} : x = IF e # None /\ e.prp2 THEN e.alloc ELSE None
    BY Zenon, <2>5, <2>6
  <2>8. /\ job'[f] = [j EXCEPT !.prp2 = x] /\ pc'[f] = "hijack"
        /\ \A g \in Files : g # f => job'[g] = job[g] /\ pc'[g] = pc[g]
    BY Zenon, <1>t, <2>1, <2>2, <2>3, <2>7
  <2>9. /\ job'[f].va = j.va /\ job'[f].alloc = j.alloc /\ job'[f].prp1 = j.prp1
        /\ job'[f].prp2 = x /\ job'[f].hijack = j.hijack
        /\ job'[f].size = j.size /\ job'[f].data2 = j.data2
    BY Zenon, <2>4, <2>8 DEF Job
  <2> QED
    <3>1. /\ job'[f].va \in Vas /\ job'[f].prp1 = mem[f][job'[f].va] /\ job'[f].prp1 # None
          /\ job'[f].prp2 \in {None, job'[f].prp1[1]} /\ job'[f].hijack = None
          /\ job'[f].data2 = None
      BY Zenon, <2>4, <2>7, <2>9
    <3>2. \E q \in queue_addrs : q.alloc = job'[f].prp1[1]
      BY Zenon, <2>5, <2>9
    <3>3. /\ job'[f].alloc = job[f].alloc /\ job'[f].va = job[f].va
          /\ job'[f].size = job[f].size
      BY Zenon, <2>3, <2>9
    <3>4. status[f] = "open"
      BY Zenon, <1>s, <2>2
    <3> QED
      BY Zenon, <1>s, <2>2, <2>8, <3>1, <3>2, <3>3, <3>4, CallInject
<1>4. CASE KprobeHijack(f)
  <2>1. PICK e \in LookupQueue(job[f].va) :
          job' = [job EXCEPT ![f].hijack = IF e = None THEN None ELSE e.alloc]
    BY Zenon, <1>4 DEF KprobeHijack
  <2>2. /\ pc[f] = "hijack" /\ pc' = [pc EXCEPT ![f] = "injected"]
        /\ UNCHANGED <<status, mem, allocs, queue_addrs, vram_buffers, listed>>
    BY Zenon, <1>4 DEF KprobeHijack
  <2>3. PICK j : j = job[f]
    BY Zenon
  <2>4. /\ j \in Job /\ j.va \in Vas /\ j.prp1 = mem[f][j.va] /\ j.prp1 # None
        /\ j.prp2 \in {None, j.prp1[1]} /\ j.data2 = None
    BY Zenon, <1>t, <2>2, <2>3 DEF LookupInv
  <2>5. PICK r \in queue_addrs : r.alloc = j.prp1[1]
    BY Zenon, <1>t, <2>2, <2>3 DEF LookupInv
  <2>6. e = r
    BY <2>3, <2>4, <2>5, LookupFindsQueue
  <2>7. PICK x \in {None, j.prp1[1]} : x = IF e = None THEN None ELSE e.alloc
    BY Zenon, <2>5, <2>6
  <2>8. /\ job'[f] = [j EXCEPT !.hijack = x] /\ pc'[f] = "injected"
        /\ \A g \in Files : g # f => job'[g] = job[g] /\ pc'[g] = pc[g]
    BY Zenon, <1>t, <2>1, <2>2, <2>3, <2>7
  <2>9. /\ job'[f].va = j.va /\ job'[f].alloc = j.alloc /\ job'[f].prp1 = j.prp1
        /\ job'[f].prp2 = j.prp2 /\ job'[f].hijack = x
        /\ job'[f].size = j.size /\ job'[f].data2 = j.data2
    BY Zenon, <2>4, <2>8 DEF Job
  <2>10. pc'[f] \notin {"prp2", "hijack", "io"} /\ status[f] = "open"
    BY Zenon, <1>s, <2>2, <2>8
  <2>11. /\ status' \in [Files -> {"new", "open", "closing", "closed"}]
         /\ \A g \in Files : status'[g] = "open" <=> status[g] = "open"
         /\ vram_buffers' \subseteq vram_buffers
    BY Zenon, <1>s, <2>2
  <2>12. /\ job'[f].alloc = job[f].alloc /\ job'[f].va = job[f].va
         /\ job'[f].size = job[f].size
    BY Zenon, <2>3, <2>9
  <2>13. /\ job'[f].prp1 = mem[f][job'[f].va]
         /\ job'[f].prp2 \in {None, job'[f].prp1[1]}
         /\ job'[f].hijack \in {None, job'[f].prp1[1]}
         /\ job'[f].data2 = None
    BY Zenon, <2>4, <2>9
  <2> QED
    BY Zenon, <2>2, <2>8, <2>10, <2>11, <2>12, <2>13, CallInject
<1> QED
  BY Zenon, <1>1, <1>2, <1>3, <1>4, <1>5, <1>6

\* The steps of the calls that look nothing up and list nothing.
LEMMA CallsInject ==
    ASSUME AttachInv, AttachInv', InjectInv, NEW f \in Files,
           \/ Submitted(f) \/ Acquire(f) \/ AcquireFails(f) \/ Acquired(f)
           \/ BufferNoEntry(f) \/ CopyToUser(f) \/ CopyToUserFails(f)
           \/ (\E va \in Vas : UnregisterBuffer(f, va))
           \/ DetachOne(f) \/ Detached(f)
    PROVE  InjectInv'
<1>t. /\ pc \in [Files -> Steps] /\ job \in [Files -> Job]
      /\ vram_buffers \subseteq BufferEntry
  BY Zenon DEF AttachInv, RegistryTypes
<1>s. /\ status \in [Files -> {"new", "open", "closing", "closed"}]
      /\ pc[f] \notin {"idle", "detach"} => status[f] = "open"
  BY Zenon DEF AloneInv, InjectInv
<1>1. UNCHANGED <<mem, allocs, listed, queue_addrs>> /\ vram_buffers' \subseteq vram_buffers
  BY Zenon DEF Submitted, Acquire, AcquireFails, Acquired, BufferNoEntry, CopyToUser,
         CopyToUserFails, UnregisterBuffer, DetachOne, Detached
<1>2. /\ status' \in [Files -> {"new", "open", "closing", "closed"}]
      /\ \A g \in Files : status'[g] = "open" <=> status[g] = "open"
  <2>1. CASE Detached(f)
    BY Zenon, <1>s, <2>1 DEF Detached
  <2>2. CASE ~Detached(f)
    <3>1. UNCHANGED status
      BY Zenon, <2>2 DEF Submitted, Acquire, AcquireFails, Acquired, BufferNoEntry, CopyToUser,
                  CopyToUserFails, UnregisterBuffer, DetachOne
    <3> QED
      BY Zenon, <1>s, <3>1
  <2> QED
    BY Zenon, <2>1, <2>2
<1>3. \E l \in {"idle", "detach", "acquire", "entry"}, j \in Job :
        /\ pc' = [pc EXCEPT ![f] = l] /\ job' = [job EXCEPT ![f] = j]
        /\ l \in {"acquire", "entry"} => pc[f] = "acquire"
        /\ j.alloc # None => j.alloc = job[f].alloc /\ j.va = job[f].va /\ j.size = job[f].size
  <2>1. CASE Submitted(f) \/ AcquireFails(f) \/ BufferNoEntry(f) \/ CopyToUser(f) \/ Detached(f)
    <3>1. pc' = [pc EXCEPT ![f] = "idle"] /\ job' = [job EXCEPT ![f] = NoJob]
      BY Zenon, <2>1 DEF Submitted, AcquireFails, BufferNoEntry, CopyToUser, Detached
    <3>2. \E l \in {"idle", "detach", "acquire", "entry"} : l = "idle"
      BY Zenon
    <3> QED
      BY ZenonT(30), <3>1, <3>2, JobTypes
  <2>2. CASE CopyToUserFails(f) \/ \E va \in Vas : UnregisterBuffer(f, va)
    <3>1. pc' = [pc EXCEPT ![f] = "detach"]
      BY Zenon, <2>2 DEF CopyToUserFails, UnregisterBuffer
    <3>2. PICK e \in vram_buffers : job' = [job EXCEPT ![f] = [NoJob EXCEPT !.todo = {e}]]
      <4>1. CASE CopyToUserFails(f)
        BY Zenon, <4>1 DEF CopyToUserFails
      <4>2. ASSUME NEW va \in Vas, UnregisterBuffer(f, va)
            PROVE  \E e \in vram_buffers : job' = [job EXCEPT ![f] = [NoJob EXCEPT !.todo = {e}]]
        <5>1. PICK e \in FirstOf({d \in vram_buffers : d.virt = va /\ d.owner = f}) :
                e # None /\ job' = [job EXCEPT ![f] = [NoJob EXCEPT !.todo = {e}]]
          BY Zenon, <4>2 DEF UnregisterBuffer
        <5>2. e \in vram_buffers
          BY Zenon, <5>1, FirstOfMatch
        <5> QED
          BY Zenon, <5>1, <5>2
      <4> QED
        BY Zenon, <2>2, <4>1, <4>2
    <3>3. PICK T \in SUBSET BufferEntry : T = {e}
      BY Zenon, <1>t
    <3>4. PICK j \in Job : j = [NoJob EXCEPT !.todo = T] /\ j.alloc = None
      BY Zenon, JobTypes
    <3> QED
      BY Zenon, <3>1, <3>2, <3>3, <3>4
  <2>3. CASE Acquire(f)
    <3>1. pc[f] = "acquire" /\ pc' = [pc EXCEPT ![f] = "acquire"]
      BY Zenon, <2>3, <1>t DEF Acquire
    <3>2. PICK j \in Job : j = job[f] /\ j.step \in 0..5
      BY <2>3, <1>t DEF Acquire, Job
    <3>3. PICK k : k = [j EXCEPT !.step = j.step + 1]
      BY Zenon
    <3>4. k \in Job /\ k.alloc = j.alloc /\ k.va = j.va /\ k.size = j.size
      BY <3>2, <3>3 DEF Job
    <3>5. job' = [job EXCEPT ![f] = k]
      BY Zenon, <2>3, <3>2, <3>3 DEF Acquire
    <3> QED
      BY Zenon, <3>1, <3>2, <3>4, <3>5
  <2>4. CASE Acquired(f)
    <3>1. pc[f] = "acquire" /\ pc' = [pc EXCEPT ![f] = "entry"]
      BY Zenon, <2>4 DEF Acquired
    <3>2. PICK j \in Job : j = job[f] /\ job' = [job EXCEPT ![f] = j]
      BY Zenon, <2>4, <1>t DEF Acquired
    <3> QED
      BY Zenon, <3>1, <3>2
  <2>5. CASE DetachOne(f)
    <3>1. pc' = [pc EXCEPT ![f] = "detach"]
      BY Zenon, <2>5, <1>t DEF DetachOne
    <3>2. PICK e \in job[f].todo : job' = [job EXCEPT ![f].todo = @ \ {e}]
      BY Zenon, <2>5 DEF DetachOne
    <3>3. PICK j \in Job : j = job[f]
      BY Zenon, <1>t
    <3>4. PICK k : k = [j EXCEPT !.todo = j.todo \ {e}]
      BY Zenon
    <3>5. k \in Job /\ k.alloc = j.alloc /\ k.va = j.va /\ k.size = j.size
      BY Zenon, <3>4 DEF Job
    <3>6. job' = [job EXCEPT ![f] = k]
      BY Zenon, <3>2, <3>3, <3>4
    <3> QED
      BY Zenon, <3>1, <3>3, <3>5, <3>6
  <2> QED
    BY Zenon, <2>1, <2>2, <2>3, <2>4, <2>5
<1>4. PICK l \in {"idle", "detach", "acquire", "entry"}, j \in Job :
        /\ pc' = [pc EXCEPT ![f] = l] /\ job' = [job EXCEPT ![f] = j]
        /\ l \in {"acquire", "entry"} => pc[f] = "acquire"
        /\ j.alloc # None => j.alloc = job[f].alloc /\ j.va = job[f].va /\ j.size = job[f].size
  BY Zenon, <1>3
<1>5. /\ \A g \in Files : g # f => job'[g] = job[g] /\ pc'[g] = pc[g]
      /\ job'[f] = j /\ pc'[f] = l
  BY Zenon, <1>t, <1>4
<1>6. pc'[f] \in {"idle", "detach"} \/ status[f] = "open"
  BY Zenon, <1>s, <1>4, <1>5
<1>7. pc'[f] \notin {"prp2", "hijack", "io", "injected"}
  BY Zenon, <1>5
<1> QED
  BY <1>1, <1>2, <1>4, <1>5, <1>6, <1>7, CallInject

\* A process that starts has no memory yet.
LEMMA OpenInject ==
    ASSUME InjectInv, OneAtATime, NEW f \in Files, Open(f)
    PROVE  InjectInv'
<1>1. /\ status' = [status EXCEPT ![f] = "open"]
      /\ \A g \in Files : status[g] # "open"
      /\ UNCHANGED <<mem, allocs, listed, queue_addrs, vram_buffers, pc, job>>
  BY Zenon DEF Open
<1>2. AloneInv'
  BY Zenon, <1>1 DEF InjectInv, AloneInv
<1> QED
  BY <1>1, <1>2 DEF InjectInv, PageInv, RegisterInv, NewestInv, LookupInv, InjectedOwn, Covers,
                    InJob

\* The steps of the process in between its calls that take memory or queue
\* entries away: no call of it looks at them, and no other process has any.
LEMMA ShrinkInject ==
    ASSUME AttachInv, InjectInv, NEW f \in Files,
           \/ Release(f)
           \/ \E va \in Vas : FreeMemory(f, va) \/ UnregisterQueueAddr(f, va)
    PROVE  InjectInv'
<1>t. /\ pc \in [Files -> Steps] /\ job \in [Files -> Job] /\ JobInv
  BY Zenon DEF AttachInv, RegistryTypes
<1>p. AloneInv /\ PageInv /\ RegisterInv /\ NewestInv /\ LookupInv /\ InjectedOwn
  BY Zenon DEF InjectInv
<1>m. /\ mem \in [Files -> [Vas -> Addr \union {None}]]
      /\ status \in [Files -> {"new", "open", "closing", "closed"}]
  BY Zenon, <1>p DEF AloneInv
<1>1. /\ Idle(f) /\ UNCHANGED <<allocs, listed>>
      /\ queue_addrs' \subseteq queue_addrs /\ vram_buffers' \subseteq vram_buffers
  BY Zenon DEF Release, FreeMemory, UnregisterQueueAddr
<1>2. /\ mem' \in [Files -> [Vas -> Addr \union {None}]]
      /\ \A g \in Files : g # f => mem'[g] = mem[g]
      /\ \A p \in Vas : mem'[f][p] # None => mem'[f][p] = mem[f][p]
  <2>1. CASE Release(f)
    BY Zenon, <1>m, <2>1 DEF Release
  <2>2. ASSUME NEW va \in Vas, FreeMemory(f, va)
        PROVE  /\ mem' \in [Files -> [Vas -> Addr \union {None}]]
               /\ \A g \in Files : g # f => mem'[g] = mem[g]
               /\ \A p \in Vas : mem'[f][p] # None => mem'[f][p] = mem[f][p]
    BY Zenon, <1>m, <2>2 DEF FreeMemory
  <2>3. CASE \E va \in Vas : UnregisterQueueAddr(f, va)
    BY Zenon, <1>m, <2>3 DEF UnregisterQueueAddr
  <2> QED
    BY Zenon, <2>1, <2>2, <2>3
<1>3. /\ \A g \in Files : g # f => pc'[g] = pc[g] /\ job'[g] = job[g]
      /\ pc'[f] \in {"idle", "detach"} /\ job'[f].alloc = None
  <2>1. CASE Release(f)
    <3>1. PICK T : T = {e \in vram_buffers : e.owner = f}
      BY Zenon
    <3>2. T \in SUBSET BufferEntry
      BY Zenon, <3>1 DEF AttachInv, RegistryTypes
    <3>3. PICK j : j = [NoJob EXCEPT !.todo = T]
      BY Zenon
    <3>4. j.alloc = None
      BY Zenon, <3>2, <3>3, JobTypes
    <3>5. pc' = [pc EXCEPT ![f] = "detach"] /\ job' = [job EXCEPT ![f] = j]
      BY Zenon, <2>1, <3>1, <3>3 DEF Release
    <3> QED
      BY Zenon, <1>t, <3>4, <3>5
  <2>2. CASE UNCHANGED <<pc, job>>
    BY Zenon, <1>1, <1>t, <2>2 DEF Idle, JobInv, Registering
  <2> QED
    BY Zenon, <2>1, <2>2 DEF FreeMemory, UnregisterQueueAddr
<1>4. /\ \A g \in Files : g # f => status'[g] = status[g]
      /\ status' \in [Files -> {"new", "open", "closing", "closed"}]
      /\ status'[f] # "open" => \A p \in Vas : mem'[f][p] = None
  <2>1. CASE Release(f)
    BY Zenon, <1>m, <2>1 DEF Release
  <2>2. CASE UNCHANGED status
    BY Zenon, <1>1, <1>m, <2>2 DEF Idle
  <2> QED
    BY Zenon, <2>1, <2>2 DEF FreeMemory, UnregisterQueueAddr
<1>5. \A g \in Files : g # f => /\ pc[g] \in {"idle", "detach"} /\ status[g] # "open"
                               /\ \A p \in Vas : mem[g][p] = None
  BY Zenon, <1>1, <1>p DEF Idle, AloneInv
<1>6. \A g \in Files : pc'[g] \in {"idle", "detach"}
  BY Zenon, <1>3, <1>5
<1>7. AloneInv'
  <2>1. \A g \in Files, p \in Vas : mem'[g][p] # None => g = f /\ mem'[g][p] = mem[g][p]
    BY <1>2, <1>5
  <2>2. \A g \in Files, p \in Vas : mem'[g][p] # None => mem'[g][p][1] <= allocs
    BY <1>p, <2>1 DEF AloneInv
  <2>3. \A g \in Files : status'[g] # "open" => \A p \in Vas : mem'[g][p] = None
    BY Zenon, <1>4, <1>5, <2>1
  <2>4. \A g, h \in Files : status'[g] = "open" /\ status'[h] = "open" => g = h
    BY Zenon, <1>4, <1>5
  <2>5. /\ \A e \in queue_addrs' : e.alloc <= allocs /\ e.at <= listed
        /\ \A e \in vram_buffers' : e.at <= listed
    BY Zenon, <1>p, <1>1 DEF AloneInv
  <2> QED
    BY Zenon, <1>1, <1>2, <1>4, <1>6, <2>2, <2>3, <2>4, <2>5 DEF AloneInv
<1>8. PageInv'
  <2>1. SUFFICES ASSUME NEW h \in Files, NEW p \in Vas, mem'[h][p] # None
                 PROVE  /\ \A r \in queue_addrs' : r.alloc = mem'[h][p][1] =>
                             Covers(r, p) /\ mem'[h][p] = <<r.alloc, p - r.virt>>
                        /\ \A r \in vram_buffers' : r.alloc = mem'[h][p][1] =>
                             Covers(r, p) /\ mem'[h][p] = <<r.alloc, p - r.virt>>
                        /\ \A g \in Files : job'[g].alloc = mem'[h][p][1] =>
                             InJob(job'[g], p) /\ mem'[h][p] = <<job'[g].alloc, p - job'[g].va>>
    BY Zenon DEF PageInv, Covers, InJob
  <2>2. mem'[h][p] = mem[h][p] /\ mem[h][p] # None
    BY Zenon, <1>2, <2>1
  <2>3. mem[h][p][1] # None
    BY <1>m, <2>2, RegistryAssumption DEF Addr, Allocs
  <2>4. \A g \in Files : job'[g].alloc = mem[h][p][1] => job'[g] = job[g]
    BY Zenon, <1>3, <2>3
  <2> QED
    BY <1>p, <1>1, <2>2, <2>4 DEF PageInv
<1>9. NewestInv'
  <2>1. \A h \in Files, p \in Vas : mem'[h][p] # None =>
          mem'[h][p] = mem[h][p] /\ mem[h][p] # None
    BY Zenon, <1>2
  <2> QED
    BY <1>p, <1>1, <2>1 DEF NewestInv, Covers
<1>10. RegisterInv' /\ LookupInv' /\ InjectedOwn'
  BY Zenon, <1>6 DEF RegisterInv, LookupInv, InjectedOwn, Registering
<1> QED
  BY Zenon, <1>7, <1>8, <1>9, <1>10 DEF InjectInv

\* An allocation is new, and fills pages that had no memory.
LEMMA AllocateFacts ==
    ASSUME AttachInv, AloneInv, NEW f \in Files, NEW va \in Vas, NEW size \in 1..2,
           Allocate(f, va, size)
    PROVE  /\ mem' \in [Files -> [Vas -> Addr \union {None}]]
           /\ allocs' = allocs + 1 /\ allocs \in Nat /\ allocs + 1 \in Allocs
           /\ \A g \in Files : g # f => mem'[g] = mem[g]
           /\ \A p \in va..(va + size - 1) :
                p \in Vas /\ mem'[f][p] = <<allocs + 1, p - va>>
           /\ \A p \in Vas : p \notin va..(va + size - 1) => mem'[f][p] = mem[f][p]
<1>1. /\ allocs \in Nat /\ MaxAllocs \in Nat /\ allocs + 1 \in Allocs
      /\ va \in Nat /\ Vas \subseteq Nat
  BY RegistryAssumption DEF AttachInv, RegistryTypes, Allocate, Allocs
<1>2. mem \in [Files -> [Vas -> Addr \union {None}]]
  BY Zenon DEF AloneInv
<1>3. PICK m : m = [p \in Vas |-> IF p \in va..(va + size - 1)
                                  THEN <<allocs + 1, p - va>> ELSE mem[f][p]]
  BY Zenon
<1>4. mem' = [mem EXCEPT ![f] = m]
  BY Zenon, <1>2, <1>3 DEF Allocate
<1>5. m \in [Vas -> Addr \union {None}]
  <2>1. \A p \in Vas : p - va \in Int
    BY <1>1
  <2> QED
    BY <1>1, <1>2, <1>3, <2>1 DEF Addr
<1> QED
  BY <1>1, <1>2, <1>3, <1>4, <1>5 DEF Allocate

\* Nothing that exists is of the allocation that comes next.
LEMMA NextAlloc ==
    ASSUME AttachInv, AloneInv
    PROVE  /\ \A e \in queue_addrs : e.alloc # allocs + 1
           /\ \A e \in vram_buffers : e.alloc # allocs + 1
           /\ \A g \in Files : job[g].alloc # allocs + 1
           /\ \A g \in Files, p \in Vas : mem[g][p] # None => mem[g][p][1] # allocs + 1
<1>1. /\ allocs \in Nat /\ vram_buffers \subseteq BufferEntry /\ queue_addrs \subseteq QueueEntry
      /\ job \in [Files -> Job] /\ PlaceInv
  BY DEF AttachInv, RegistryTypes
<1>2. Allocs \subseteq Nat /\ None \notin Nat
  BY RegistryAssumption DEF Allocs
<1>3. \A e \in queue_addrs : e.alloc # allocs + 1
  BY <1>1, <1>2 DEF AloneInv, QueueEntry
<1>4. \A e \in vram_buffers : e.alloc # allocs + 1
  BY <1>1, <1>2 DEF PlaceInv, Entries, BufferEntry
<1>5. \A g \in Files : job[g].alloc # allocs + 1
  BY <1>1, <1>2 DEF PlaceInv, Job
<1>6. \A g \in Files, p \in Vas : mem[g][p] # None => mem[g][p][1] # allocs + 1
  BY <1>1, <1>2 DEF AloneInv, Addr
<1> QED
  BY Zenon, <1>3, <1>4, <1>5, <1>6

\* A new queue's entry is the newest, and of an allocation nothing else has.
LEMMA QueueInject ==
    ASSUME AttachInv, InjectInv, NEW f \in Files, NEW va \in Vas, NEW size \in 1..2,
           NEW prp2, NEW garbage, RegisterQueueAddr(f, va, size, prp2, garbage)
    PROVE  InjectInv'
<1>p. AloneInv /\ PageInv /\ NewestInv
  BY Zenon DEF InjectInv
<1>t. /\ listed \in Nat /\ queue_addrs \subseteq QueueEntry
      /\ va \in Nat /\ Vas \subseteq Nat
  BY Zenon, RegistryAssumption DEF AttachInv, RegistryTypes
<1>1. /\ Idle(f) /\ Allocate(f, va, size) /\ listed' = listed + 1
      /\ UNCHANGED <<status, vram_buffers, pc, job>>
  BY Zenon DEF RegisterQueueAddr
<1>2. PICK q : /\ queue_addrs' = queue_addrs \union {q}
               /\ q.virt = va /\ q.size = size /\ q.alloc = allocs + 1
               /\ q.at = listed + 1
  <2>1. PICK d : d = [virt |-> va, size |-> size, alloc |-> allocs + 1,
                      prp2 |-> prp2, owner |-> garbage, at |-> 0]
    BY Zenon
  <2>2. PICK q : q = [d EXCEPT !.at = listed + 1]
    BY Zenon
  <2>3. queue_addrs' = queue_addrs \union {q}
    BY Zenon, <2>1, <2>2 DEF RegisterQueueAddr, ListAdd
  <2>4. q.virt = va /\ q.size = size /\ q.alloc = allocs + 1 /\ q.at = listed + 1
    BY Zenon, <2>1, <2>2
  <2> QED
    BY Zenon, <2>3, <2>4
<1>3. /\ mem' \in [Files -> [Vas -> Addr \union {None}]]
      /\ allocs' = allocs + 1 /\ allocs \in Nat
      /\ \A g \in Files : g # f => mem'[g] = mem[g]
      /\ \A p \in va..(va + size - 1) :
           p \in Vas /\ mem'[f][p] = <<allocs + 1, p - va>>
      /\ \A p \in Vas : p \notin va..(va + size - 1) => mem'[f][p] = mem[f][p]
  BY Zenon, <1>p, <1>1, AllocateFacts
<1>4. /\ \A e \in queue_addrs : e.alloc # allocs + 1
      /\ \A e \in vram_buffers : e.alloc # allocs + 1
      /\ \A g \in Files : job[g].alloc # allocs + 1
      /\ \A g \in Files, p \in Vas : mem[g][p] # None => mem[g][p][1] # allocs + 1
  BY Zenon, <1>p, NextAlloc
<1>5. \A g \in Files : g # f => /\ pc[g] \in {"idle", "detach"} /\ status[g] # "open"
                               /\ \A p \in Vas : mem[g][p] = None
  BY Zenon, <1>1, <1>p DEF Idle, AloneInv
<1>6. \A g \in Files : pc'[g] \in {"idle", "detach"}
  BY Zenon, <1>1, <1>5 DEF Idle
<1>7. \A h \in Files, p \in Vas : mem'[h][p] # None =>
        \/ h = f /\ p \in va..(va + size - 1) /\ mem'[h][p] = <<allocs + 1, p - va>>
        \/ h = f /\ p \notin va..(va + size - 1) /\ mem'[h][p] = mem[h][p]
  BY <1>3, <1>5
<1>8. \A p \in Vas : Covers(q, p) <=> p \in va..(va + size - 1)
  BY <1>2, <1>t DEF Covers
<1>9. AloneInv'
  <2>1. \A h \in Files, p \in Vas : mem'[h][p] # None => mem'[h][p][1] <= allocs + 1
    <3> SUFFICES ASSUME NEW h \in Files, NEW p \in Vas, mem'[h][p] # None
                 PROVE  mem'[h][p][1] <= allocs + 1
      BY Zenon
    <3>1. CASE mem'[h][p] = <<allocs + 1, p - va>>
      BY <3>1, <1>3
    <3>2. CASE mem'[h][p] = mem[h][p]
      <4>1. mem[h][p] \in Addr /\ mem[h][p][1] <= allocs
        BY <3>2, <1>p DEF AloneInv
      <4>2. mem[h][p][1] \in Int
        BY <4>1, RegistryAssumption DEF Addr, Allocs
      <4> QED
        BY <3>2, <4>1, <4>2, <1>3
    <3> QED
      BY Zenon, <3>1, <3>2, <1>7
  <2>2. \A h \in Files : status'[h] # "open" => \A p \in Vas : mem'[h][p] = None
    BY <1>1, <1>3, <1>5 DEF Idle
  <2>3. \A e \in queue_addrs' : e.alloc <= allocs + 1 /\ e.at <= listed + 1
    <3>1. \A e \in queue_addrs : e.alloc \in Int /\ e.at \in Int
      BY <1>t, RegistryAssumption DEF QueueEntry, Allocs
    <3>2. \A e \in queue_addrs : e.alloc <= allocs /\ e.at <= listed
      BY Zenon, <1>p DEF AloneInv
    <3> QED
      BY <3>1, <3>2, <1>2, <1>3, <1>t
  <2>4. \A e \in vram_buffers : e.at <= listed + 1
    <3>1. \A e \in vram_buffers : e.at \in Int /\ e.at <= listed
      BY <1>p DEF AloneInv, AttachInv, RegistryTypes, BufferEntry
    <3> QED
      BY <3>1, <1>t
  <2>5. /\ status \in [Files -> {"new", "open", "closing", "closed"}]
        /\ \A g, h \in Files : status[g] = "open" /\ status[h] = "open" => g = h
    BY Zenon, <1>p DEF AloneInv
  <2> QED
    BY Zenon, <1>1, <1>3, <1>6, <2>1, <2>2, <2>3, <2>4, <2>5 DEF AloneInv
<1>10. PageInv'
  <2>1. SUFFICES ASSUME NEW h \in Files, NEW p \in Vas, mem'[h][p] # None
                 PROVE  /\ \A r \in queue_addrs' : r.alloc = mem'[h][p][1] =>
                             Covers(r, p) /\ mem'[h][p] = <<r.alloc, p - r.virt>>
                        /\ \A r \in vram_buffers : r.alloc = mem'[h][p][1] =>
                             Covers(r, p) /\ mem'[h][p] = <<r.alloc, p - r.virt>>
                        /\ \A g \in Files : job[g].alloc = mem'[h][p][1] =>
                             InJob(job[g], p) /\ mem'[h][p] = <<job[g].alloc, p - job[g].va>>
    BY <1>1 DEF PageInv, Covers, InJob
  <2>2. CASE p \in va..(va + size - 1) /\ mem'[h][p] = <<allocs + 1, p - va>>
    BY <2>2, <1>2, <1>4, <1>8
  <2>3. CASE mem'[h][p] = mem[h][p]
    <3>1. mem[h][p] # None
      BY Zenon, <2>1, <2>3
    <3>2. /\ \A r \in queue_addrs : r.alloc = mem[h][p][1] =>
               Covers(r, p) /\ mem[h][p] = <<r.alloc, p - r.virt>>
          /\ \A r \in vram_buffers : r.alloc = mem[h][p][1] =>
               Covers(r, p) /\ mem[h][p] = <<r.alloc, p - r.virt>>
          /\ \A g \in Files : job[g].alloc = mem[h][p][1] =>
               InJob(job[g], p) /\ mem[h][p] = <<job[g].alloc, p - job[g].va>>
      BY Zenon, <3>1, <1>p DEF PageInv
    <3>3. q.alloc # mem[h][p][1]
      BY Zenon, <3>1, <1>2, <1>4
    <3> QED
      BY Zenon, <2>3, <3>2, <3>3, <1>2
  <2> QED
    BY Zenon, <2>1, <2>2, <2>3, <1>7
<1>11. NewestInv'
  <2>1. SUFFICES ASSUME NEW h \in Files, NEW p \in Vas, mem'[h][p] # None
                 PROVE  /\ \A r, e \in queue_addrs' :
                             r.alloc = mem'[h][p][1] /\ Covers(e, p) /\ e # r => e.at < r.at
                        /\ \A r, e \in vram_buffers :
                             r.alloc = mem'[h][p][1] /\ Covers(e, p) /\ e # r => e.at < r.at
    BY Zenon, <1>1 DEF NewestInv, Covers
  <2>2. CASE mem'[h][p] = <<allocs + 1, p - va>>
    <3>1. \A e \in queue_addrs : e.at \in Int /\ e.at <= listed
      BY <1>t, <1>p DEF QueueEntry, AloneInv
    <3>2. \A e \in queue_addrs : e.at < q.at
      BY <3>1, <1>2, <1>t
    <3> QED
      BY <2>2, <3>2, <1>2, <1>4
  <2>3. CASE p \notin va..(va + size - 1) /\ mem'[h][p] = mem[h][p]
    <3>1. ~Covers(q, p) /\ q.alloc # mem[h][p][1]
      BY Zenon, <2>1, <2>3, <1>2, <1>4, <1>8
    <3> QED
      BY <2>1, <2>3, <3>1, <1>2, <1>p DEF NewestInv
  <2> QED
    BY Zenon, <2>1, <2>2, <2>3, <1>7
<1>12. RegisterInv' /\ LookupInv' /\ InjectedOwn'
  BY Zenon, <1>6 DEF RegisterInv, LookupInv, InjectedOwn, Registering
<1> QED
  BY Zenon, <1>9, <1>10, <1>11, <1>12 DEF InjectInv

\* A new buffer's pages are the only ones of its allocation.
LEMMA BufferInject ==
    ASSUME AttachInv, InjectInv, NEW f \in Files, NEW va \in Vas, NEW size \in 1..2,
           NEW passthrough \in BOOLEAN, RegisterBuffer(f, va, size, passthrough)
    PROVE  InjectInv'
<1>p. AloneInv /\ PageInv /\ NewestInv
  BY Zenon DEF InjectInv
<1>t. /\ pc \in [Files -> Steps] /\ job \in [Files -> Job] /\ JobInv
      /\ va \in Nat /\ Vas \subseteq Nat
  BY RegistryAssumption DEF AttachInv, RegistryTypes
<1>1. /\ Idle(f) /\ Allocate(f, va, size) /\ pc' = [pc EXCEPT ![f] = "acquire"]
      /\ UNCHANGED <<status, queue_addrs, vram_buffers, listed>>
  BY Zenon DEF RegisterBuffer
<1>2. PICK j : /\ job' = [job EXCEPT ![f] = j]
               /\ j.va = va /\ j.size = size /\ j.alloc = allocs + 1
  <2>1. PICK j : j = [NoJob EXCEPT !.va = va, !.size = size, !.alloc = allocs + 1,
                                   !.passthrough = passthrough, !.step = 1]
    BY Zenon
  <2>2. j.va = va /\ j.size = size /\ j.alloc = allocs + 1
    BY Zenon, <2>1 DEF NoJob
  <2>3. job' = [job EXCEPT ![f] = j]
    BY Zenon, <2>1 DEF RegisterBuffer
  <2> QED
    BY Zenon, <2>2, <2>3
<1>3. /\ mem' \in [Files -> [Vas -> Addr \union {None}]]
      /\ allocs' = allocs + 1 /\ allocs \in Nat
      /\ \A g \in Files : g # f => mem'[g] = mem[g]
      /\ \A p \in va..(va + size - 1) :
           p \in Vas /\ mem'[f][p] = <<allocs + 1, p - va>>
      /\ \A p \in Vas : p \notin va..(va + size - 1) => mem'[f][p] = mem[f][p]
  BY Zenon, <1>p, <1>1, AllocateFacts
<1>4. /\ \A e \in queue_addrs : e.alloc # allocs + 1
      /\ \A e \in vram_buffers : e.alloc # allocs + 1
      /\ \A g \in Files : job[g].alloc # allocs + 1
      /\ \A g \in Files, p \in Vas : mem[g][p] # None => mem[g][p][1] # allocs + 1
  BY Zenon, <1>p, NextAlloc
<1>5. \A g \in Files : g # f => /\ pc[g] \in {"idle", "detach"} /\ status[g] # "open"
                               /\ \A p \in Vas : mem[g][p] = None
  BY Zenon, <1>1, <1>p DEF Idle, AloneInv
<1>6. /\ \A g \in Files : g # f => pc'[g] \in {"idle", "detach"} /\ job'[g] = job[g]
      /\ pc'[f] = "acquire" /\ job'[f] = j
  BY Zenon, <1>1, <1>2, <1>5, <1>t
<1>7. \A h \in Files, p \in Vas : mem'[h][p] # None =>
        \/ h = f /\ p \in va..(va + size - 1) /\ mem'[h][p] = <<allocs + 1, p - va>>
        \/ h = f /\ mem'[h][p] = mem[h][p]
  BY <1>3, <1>5
<1>8. \A p \in Vas : InJob(j, p) <=> p \in va..(va + size - 1)
  BY <1>2, <1>t DEF InJob
<1>9. AloneInv'
  <2>1. \A h \in Files, p \in Vas : mem'[h][p] # None => mem'[h][p][1] <= allocs + 1
    <3> SUFFICES ASSUME NEW h \in Files, NEW p \in Vas, mem'[h][p] # None
                 PROVE  mem'[h][p][1] <= allocs + 1
      BY Zenon
    <3>1. CASE mem'[h][p] = <<allocs + 1, p - va>>
      BY <3>1, <1>3
    <3>2. CASE mem'[h][p] = mem[h][p]
      <4>1. mem[h][p] \in Addr /\ mem[h][p][1] <= allocs
        BY <3>2, <1>p DEF AloneInv
      <4>2. mem[h][p][1] \in Int
        BY <4>1, RegistryAssumption DEF Addr, Allocs
      <4> QED
        BY <3>2, <4>1, <4>2, <1>3
    <3> QED
      BY Zenon, <3>1, <3>2, <1>7
  <2>2. \A h \in Files : status[h] # "open" =>
          pc'[h] \in {"idle", "detach"} /\ \A p \in Vas : mem'[h][p] = None
    BY <1>1, <1>3, <1>5, <1>6 DEF Idle
  <2>3. \A e \in queue_addrs : e.alloc <= allocs + 1 /\ e.at <= listed
    <3>1. \A e \in queue_addrs : e.alloc \in Int
      BY RegistryAssumption DEF AttachInv, RegistryTypes, QueueEntry, Allocs
    <3>2. \A e \in queue_addrs : e.alloc <= allocs /\ e.at <= listed
      BY Zenon, <1>p DEF AloneInv
    <3> QED
      BY <3>1, <3>2, <1>3
  <2>5. /\ status \in [Files -> {"new", "open", "closing", "closed"}]
        /\ \A g, h \in Files : status[g] = "open" /\ status[h] = "open" => g = h
        /\ \A e \in vram_buffers : e.at <= listed
    BY Zenon, <1>p DEF AloneInv
  <2> QED
    BY Zenon, <1>1, <1>3, <2>1, <2>2, <2>3, <2>5 DEF AloneInv
<1>10. PageInv'
  <2>1. SUFFICES ASSUME NEW h \in Files, NEW p \in Vas, mem'[h][p] # None
                 PROVE  /\ \A r \in queue_addrs : r.alloc = mem'[h][p][1] =>
                             Covers(r, p) /\ mem'[h][p] = <<r.alloc, p - r.virt>>
                        /\ \A r \in vram_buffers : r.alloc = mem'[h][p][1] =>
                             Covers(r, p) /\ mem'[h][p] = <<r.alloc, p - r.virt>>
                        /\ \A g \in Files : job'[g].alloc = mem'[h][p][1] =>
                             InJob(job'[g], p) /\ mem'[h][p] = <<job'[g].alloc, p - job'[g].va>>
    BY <1>1 DEF PageInv, Covers, InJob
  <2>2. CASE p \in va..(va + size - 1) /\ mem'[h][p] = <<allocs + 1, p - va>>
    <3>1. mem'[h][p][1] = allocs + 1
      BY <2>2
    <3>2. \A g \in Files : job'[g].alloc = allocs + 1 => job'[g] = j
      BY Zenon, <1>4, <1>6
    <3> QED
      BY Zenon, <2>2, <3>1, <3>2, <1>2, <1>4, <1>8
  <2>3. CASE mem'[h][p] = mem[h][p]
    <3>1. mem[h][p] # None
      BY Zenon, <2>1, <2>3
    <3>2. /\ \A r \in queue_addrs : r.alloc = mem[h][p][1] =>
               Covers(r, p) /\ mem[h][p] = <<r.alloc, p - r.virt>>
          /\ \A r \in vram_buffers : r.alloc = mem[h][p][1] =>
               Covers(r, p) /\ mem[h][p] = <<r.alloc, p - r.virt>>
          /\ \A g \in Files : job[g].alloc = mem[h][p][1] =>
               InJob(job[g], p) /\ mem[h][p] = <<job[g].alloc, p - job[g].va>>
      BY Zenon, <3>1, <1>p DEF PageInv
    <3>3. j.alloc # mem[h][p][1]
      BY Zenon, <3>1, <1>2, <1>4
    <3>4. \A g \in Files : job'[g].alloc = mem[h][p][1] => job'[g] = job[g]
      BY Zenon, <3>3, <1>6
    <3> QED
      BY <2>3, <3>2, <3>4
  <2> QED
    BY Zenon, <2>1, <2>2, <2>3, <1>7
<1>11. NewestInv'
  <2>1. SUFFICES ASSUME NEW h \in Files, NEW p \in Vas, mem'[h][p] # None
                 PROVE  /\ \A r, e \in queue_addrs :
                             r.alloc = mem'[h][p][1] /\ Covers(e, p) /\ e # r => e.at < r.at
                        /\ \A r, e \in vram_buffers :
                             r.alloc = mem'[h][p][1] /\ Covers(e, p) /\ e # r => e.at < r.at
    BY Zenon, <1>1 DEF NewestInv, Covers
  <2>2. CASE mem'[h][p] = <<allocs + 1, p - va>>
    <3>1. mem'[h][p][1] = allocs + 1
      BY <2>2
    <3> QED
      BY Zenon, <3>1, <1>4
  <2>3. CASE mem'[h][p] = mem[h][p]
    BY Zenon, <2>1, <2>3, <1>p DEF NewestInv
  <2> QED
    BY Zenon, <2>1, <2>2, <2>3, <1>7
<1>12. RegisterInv' /\ LookupInv' /\ InjectedOwn'
  <2>1. \A p \in Vas : InJob(j, p) => mem'[f][p] = <<j.alloc, p - j.va>>
    BY Zenon, <1>2, <1>3, <1>8
  <2>2. \A g \in Files : pc'[g] \in Registering => g = f
    BY Zenon, <1>6 DEF Registering
  <2>3. RegisterInv'
    BY <1>6, <2>1, <2>2 DEF RegisterInv, InJob
  <2> QED
    BY Zenon, <2>3, <1>6 DEF LookupInv, InjectedOwn
<1> QED
  BY Zenon, <1>9, <1>10, <1>11, <1>12 DEF InjectInv

\* The entry of a buffer is the newest, and the memory it is for is there.
LEMMA ListedInject ==
    ASSUME AttachInv, InjectInv, NEW f \in Files, BufferListed(f)
    PROVE  InjectInv'
<1>p. AloneInv /\ PageInv /\ RegisterInv /\ NewestInv /\ LookupInv /\ InjectedOwn
  BY Zenon DEF InjectInv
<1>t. /\ pc \in [Files -> Steps] /\ JobInv /\ PlaceInv /\ listed \in Nat
      /\ vram_buffers \subseteq BufferEntry /\ queue_addrs \subseteq QueueEntry
  BY Zenon DEF AttachInv, RegistryTypes
<1>1. /\ pc[f] = "entry" /\ pc' = [pc EXCEPT ![f] = "copy"] /\ listed' = listed + 1
      /\ UNCHANGED <<status, mem, allocs, queue_addrs, job>>
  BY Zenon DEF BufferListed
<1>2. PICK b : /\ vram_buffers' = vram_buffers \union {b}
               /\ b.virt = job[f].va /\ b.size = job[f].size
               /\ b.alloc = job[f].alloc /\ b.at = listed + 1
  <2>1. PICK d : d = [virt |-> job[f].va, size |-> job[f].size, alloc |-> job[f].alloc,
                      passthrough |-> job[f].passthrough, owner |-> f, at |-> 0]
    BY Zenon
  <2>2. PICK b : b = [d EXCEPT !.at = listed + 1]
    BY Zenon
  <2>3. vram_buffers' = vram_buffers \union {b}
    BY Zenon, <2>1, <2>2 DEF BufferListed, ListAdd
  <2>4. /\ b.virt = job[f].va /\ b.size = job[f].size
        /\ b.alloc = job[f].alloc /\ b.at = listed + 1
    BY Zenon, <2>1, <2>2
  <2> QED
    BY Zenon, <2>3, <2>4
<1>3. /\ status[f] = "open"
      /\ \A h \in Files, p \in Vas : mem[h][p] # None => h = f
  BY Zenon, <1>1, <1>p DEF AloneInv
<1>4. \A p \in Vas : Covers(b, p) => mem[f][p] = <<job[f].alloc, p - job[f].va>>
  <2>1. \A p \in Vas : Covers(b, p) => InJob(job[f], p)
    BY Zenon, <1>2 DEF Covers, InJob
  <2> QED
    BY Zenon, <1>1, <1>p, <2>1 DEF RegisterInv, Registering
<1>b. \A p \in Vas : InJob(job[f], p) => Covers(b, p)
  BY Zenon, <1>2 DEF Covers, InJob
<1>5. \A r \in vram_buffers : r.alloc # job[f].alloc
  BY Zenon, <1>1, <1>t DEF PlaceInv, Entries, JobInv, Registering
<1>6. /\ \A e \in vram_buffers : e.at \in Int /\ e.at <= listed
      /\ \A e \in queue_addrs : e.at \in Int /\ e.at <= listed
  BY <1>t, <1>p DEF AloneInv, BufferEntry, QueueEntry
<1>7. AloneInv'
  <2>1. /\ \A e \in vram_buffers' : e.at <= listed + 1
        /\ \A e \in queue_addrs : e.at <= listed + 1
    BY <1>2, <1>6, <1>t
  <2>2. \A g \in Files : status[g] # "open" => pc'[g] = pc[g]
    BY Zenon, <1>1, <1>3, <1>t
  <2> QED
    BY Zenon, <1>1, <1>p, <2>1, <2>2 DEF AloneInv
<1>8. PageInv'
  <2>1. SUFFICES ASSUME NEW h \in Files, NEW p \in Vas, mem[h][p] # None
                 PROVE  /\ \A r \in queue_addrs : r.alloc = mem[h][p][1] =>
                             Covers(r, p) /\ mem[h][p] = <<r.alloc, p - r.virt>>
                        /\ \A r \in vram_buffers' : r.alloc = mem[h][p][1] =>
                             Covers(r, p) /\ mem[h][p] = <<r.alloc, p - r.virt>>
                        /\ \A g \in Files : job[g].alloc = mem[h][p][1] =>
                             InJob(job[g], p) /\ mem[h][p] = <<job[g].alloc, p - job[g].va>>
    BY <1>1 DEF PageInv, Covers, InJob
  <2> QED
    BY <2>1, <1>2, <1>b, <1>p DEF PageInv
<1>9. NewestInv'
  <2>1. SUFFICES ASSUME NEW h \in Files, NEW p \in Vas, mem[h][p] # None
                 PROVE  /\ \A r, e \in queue_addrs :
                             r.alloc = mem[h][p][1] /\ Covers(e, p) /\ e # r => e.at < r.at
                        /\ \A r, e \in vram_buffers' :
                             r.alloc = mem[h][p][1] /\ Covers(e, p) /\ e # r => e.at < r.at
    BY <1>1 DEF NewestInv, Covers
  <2>2. \A e \in vram_buffers : e.at < b.at
    BY <1>2, <1>6, <1>t
  <2>3. Covers(b, p) => \A r \in vram_buffers : r.alloc # mem[h][p][1]
    BY <2>1, <1>2, <1>3, <1>4, <1>5
  <2> QED
    BY <2>1, <2>2, <2>3, <1>2, <1>p DEF NewestInv
<1>10. RegisterInv'
  BY Zenon, <1>1, <1>p, <1>t DEF RegisterInv, Registering
<1>11. LookupInv' /\ InjectedOwn'
  <2>1. \A g \in Files : pc'[g] \in {"prp2", "hijack", "io", "injected"} => pc'[g] = pc[g]
    BY Zenon, <1>1, <1>t
  <2> QED
    BY <2>1, <1>1, <1>p DEF LookupInv, InjectedOwn
<1> QED
  BY Zenon, <1>7, <1>8, <1>9, <1>10, <1>11 DEF InjectInv

LEMMA InitInject == Init => AttachInv /\ InjectInv
<1> SUFFICES ASSUME Init PROVE InjectInv
  BY Zenon, InitAttach
<1>1. AloneInv
  BY Zenon DEF Init, AloneInv
<1>2. \A f \in Files : pc[f] = "idle" /\ \A p \in Vas : mem[f][p] = None
  BY Zenon DEF Init
<1> QED
  BY Zenon, <1>1, <1>2 DEF InjectInv, PageInv, RegisterInv, Registering, NewestInv, LookupInv, InjectedOwn

LEMMA NextInject ==
    ASSUME OneAtATime
    PROVE  AttachInv /\ InjectInv /\ [Next]_vars => AttachInv' /\ InjectInv'
<1> SUFFICES ASSUME AttachInv, InjectInv, [Next]_vars PROVE InjectInv'
  BY Zenon, NextAttach
<1>a. AttachInv'
  BY Zenon, NextAttach
<1>1. ASSUME NEW f \in Files, Open(f) PROVE InjectInv'
  BY Zenon, <1>1, OpenInject
<1>2. ASSUME NEW f \in Files,
             Release(f) \/ \E va \in Vas : FreeMemory(f, va)
      PROVE  InjectInv'
  BY Zenon, <1>2, ShrinkInject
<1>3. ASSUME NEW f \in Files, QueueCalls(f) PROVE InjectInv'
  BY Zenon, <1>3, <1>a, QueueInject, ShrinkInject, KprobeInject, CallsInject DEF QueueCalls
<1>4. ASSUME NEW f \in Files, BufferCalls(f) PROVE InjectInv'
  BY Zenon, <1>4, <1>a, BufferInject, ListedInject, KprobeInject, CallsInject DEF BufferCalls
<1>5. CASE UNCHANGED vars
  <2>1. UNCHANGED <<status, mem, allocs, queue_addrs, vram_buffers, listed, pc, job>>
    BY Zenon, <1>5 DEF vars
  <2>2. AloneInv'
    BY Zenon, <2>1 DEF InjectInv, AloneInv
  <2>3. PageInv'
    BY <2>1 DEF InjectInv, PageInv, Covers
  <2>4. NewestInv'
    BY <2>1 DEF InjectInv, NewestInv, Covers
  <2>5. RegisterInv' /\ LookupInv' /\ InjectedOwn'
    BY Zenon, <2>1 DEF InjectInv, RegisterInv, LookupInv, InjectedOwn
  <2> QED
    BY Zenon, <2>2, <2>3, <2>4, <2>5 DEF InjectInv
<1> QED
  BY Zenon, <1>1, <1>2, <1>3, <1>4, <1>5 DEF Next

\* With one process at a time, whatever it frees without a call of the module,
\* and whatever entries the processes before it left on the lists (their owner
\* is not assigned, so release may miss them), the kprobe's three lookups give
\* each command the memory its process has at the address now, with PRP2 and
\* the device of the same registration.
THEOREM InjectedStaysOwn ==
    ASSUME OneAtATime
    PROVE  Spec => []InjectedOwn
<1>1. AttachInv /\ InjectInv => InjectedOwn
  BY Zenon DEF InjectInv
<1> QED
  BY InitInject, NextInject, <1>1, PTL DEF Spec
=============================================================================
