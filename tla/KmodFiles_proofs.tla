-------------------------- MODULE KmodFiles_proofs --------------------------
(***************************************************************************)
(* Proofs about KmodQuiesce.  The counts of the block layer are those of   *)
(* the entries and the ioctls in progress, whatever the threads ask for.   *)
(* That a tracked queue is not dispatched on needs more of the callers: a  *)
(* stopped hardware context is a flag and not a count, so it holds when no *)
(* two threads name the same one.                                          *)
(*                                                                         *)
(* Proofs about KmodContig: the reference count of a DMA allocation is the *)
(* number of its holders, so what somebody holds was not freed and what    *)
(* nobody holds was.                                                       *)
(*                                                                         *)
(* The invariant rests on two facts the code never states: the list, the   *)
(* release's private list and a pending FREE share one reference, and only *)
(* the owner's threads and mappings hold others.  It holds until a thread  *)
(* overtakes an ALLOC_CONTIG_QUEUE: the failure path of that ioctl frees   *)
(* whatever the kref says.                                                 *)
(***************************************************************************)
EXTENDS KmodQuiesce, KmodContig, FiniteSetTheorems, TLAPS

\* The steps between mutex_lock and mutex_unlock of QUIESCE_NS.
Critical == {"drain", "stop", "unbrief", "add"}

TypeInv ==
    /\ pc \in [Threads -> Critical \union {"idle", "lock", "find", "apply"}]
    /\ DOMAIN target = Threads
    /\ \A t \in Threads : pc[t] # "idle" => target[t] \in Targets
    /\ depth \in [Bdevs -> Int] /\ pinned \in [Bdevs -> Int]
    /\ Entries \subseteq Files \X Targets /\ IsFiniteSet(Entries)
    /\ open \subseteq Files
    /\ dispatching \subseteq Bdevs \X Qids

\* Who holds the mutex has not listed its entry yet, and nobody else can.
LockInv ==
    \A t \in Threads :
        /\ pc[t] \in Critical <=> lock = t
        /\ pc[t] \in Critical => <<FileOf[t], target[t]>> \notin quiescedNs
        /\ pc[t] \in {"stop", "unbrief"} => ~Full(target[t])

\* Ioctls run on open files; a listed entry's file is open, one on the private
\* list of a release belongs to a file that is not.
OpenInv ==
    /\ \A t \in Threads : pc[t] # "idle" => FileOf[t] \in open
    /\ \A e \in quiescedNs : e[1] \in open
    /\ \A e \in releasing : e[1] \notin open

CountInv == TypeInv /\ LockInv /\ OpenInv /\ CountsExact

-----------------------------------------------------------------------------

\* No two threads name the same hardware queue.
OwnQueues ==
    \A t, u \in Threads : \A tg \in Requests[t] \intersect Requests[u] : t = u \/ Full(tg)

\* Every target in use was asked for by a thread of its file.
AskedInv ==
    /\ \A t \in Threads : pc[t] # "idle" => target[t] \in Requests[t]
    /\ \A e \in Entries : \E t \in Threads : e[1] = FileOf[t] /\ e[2] \in Requests[t]

\* From the stop of a hardware queue to its restart its flag is set.
StoppedInv ==
    /\ \A t \in Threads : pc[t] \in {"unbrief", "add"} /\ ~Full(target[t]) => target[t] \in stopped
    /\ \A e \in quiescedNs : ~Full(e[2]) => e[2] \in stopped
    /\ \A t \in Threads : pc[t] = "apply" /\ ~Full(target[t]) => <<FileOf[t], target[t]>> \notin quiescedNs

\* After the drain nothing dispatches: on the whole queue while it is quiesced,
\* on the stopped hardware queue afterwards.
DrainedInv ==
    \A t \in Threads :
        /\ pc[t] \in {"stop", "unbrief"} => Drained(Bd(target[t]))
        /\ pc[t] = "add" /\ Full(target[t]) => Drained(Bd(target[t]))
        /\ pc[t] = "add" /\ ~Full(target[t]) => target[t] \notin dispatching

IsolationInv == AskedInv /\ StoppedInv /\ DrainedInv /\ Isolated

-----------------------------------------------------------------------------
(* Counting.                                                               *)

\* A target has a namespace and a queue ID, and is full if that is 0.
LEMMA TargetParts ==
    ASSUME NEW tg \in Targets
    PROVE  /\ Bd(tg) \in Bdevs /\ tg[2] \in Nat
           /\ \A b : tg = <<b, 0>> <=> Bd(tg) = b /\ Full(tg)
  BY QuiesceAssumption DEF Targets, Bd, Full

\* The entry a thread makes for a target.
LEMMA ThreadEntry ==
    ASSUME NEW t \in Threads, NEW tg \in Targets
    PROVE  \E e \in Files \X Targets : e = <<FileOf[t], tg>> /\ e[2] = tg
  <1>1. FileOf[t] \in Files
    BY Zenon, QuiesceAssumption
  <1>2. <<FileOf[t], tg>> \in Files \X Targets
    BY Zenon, <1>1
  <1>3. <<FileOf[t], tg>>[2] = tg
    BY Zenon
  <1> QED  BY Zenon, <1>2, <1>3

\* Sets that differ in one element at most differ in its count.
LEMMA OneElement ==
    ASSUME NEW S, NEW T, IsFiniteSet(S), NEW x, S \ {x} = T \ {x}
    PROVE  /\ IsFiniteSet(T)
           /\ Cardinality(S) \in Nat
           /\ Cardinality(T) = Cardinality(S) + (IF x \in T THEN 1 ELSE 0) - (IF x \in S THEN 1 ELSE 0)
  <1>1. IsFiniteSet(S \ {x}) /\ Cardinality(S) \in Nat
    BY Zenon, FS_RemoveElement, FS_CardinalityType
  <1>2. /\ Cardinality(S \ {x}) \in Nat
        /\ Cardinality(S) = Cardinality(S \ {x}) + (IF x \in S THEN 1 ELSE 0)
    <2>1. CASE x \in S
      BY <2>1, <1>1, FS_RemoveElement, FS_CardinalityType
    <2>2. CASE x \notin S
      <3>1. S \ {x} = S
        BY Zenon, <2>2
      <3> QED  BY <2>2, <3>1, <1>1
    <2> QED  BY Zenon, <2>1, <2>2
  <1>3. /\ IsFiniteSet(T)
        /\ Cardinality(T) = Cardinality(S \ {x}) + (IF x \in T THEN 1 ELSE 0)
    <2>1. CASE x \in T
      <3>1. T = (S \ {x}) \union {x} /\ x \notin S \ {x}
        BY Zenon, <2>1
      <3> QED  BY Zenon, <2>1, <3>1, <1>1, FS_AddElement
    <2>2. CASE x \notin T
      <3>1. S \ {x} = T
        BY Zenon, <2>2
      <3> QED  BY <2>2, <3>1, <1>1, <1>2
    <2> QED  BY Zenon, <2>1, <2>2
  <1> QED  BY <1>2, <1>3

\* What a step adds to a count for one element.
Delta(before, after) == (IF after THEN 1 ELSE 0) - (IF before THEN 1 ELSE 0)

\* A step of one thread or on one entry keeps the counts exact if it moves
\* depth and pinned by what it changes for that thread and that entry.
LEMMA CountStep ==
    ASSUME TypeInv, CountsExact, NEW t, NEW e,
           \A u \in Threads : u # t => pc'[u] = pc[u] /\ target'[u] = target[u],
           Entries' \ {e} = Entries \ {e},
           \A b \in Bdevs :
               /\ depth'[b] = depth[b] + Delta(e \in FullEntries(b), e \in FullEntries(b)')
                                       + Delta(t \in Holding(b), t \in Holding(b)')
               /\ pinned'[b] = pinned[b] + Delta(e \in EntriesOn(b), e \in EntriesOn(b)')
                                         + Delta(t \in RunningOn(b), t \in RunningOn(b)')
                                         + Delta(t \in ApplyingOn(b), t \in ApplyingOn(b)')
    PROVE  CountsExact' /\ IsFiniteSet(Entries')
  <1>1. IsFiniteSet(Entries')
    BY Zenon, OneElement DEF TypeInv
  <1>2. SUFFICES ASSUME NEW b \in Bdevs
                 PROVE  /\ depth'[b] = Cardinality(FullEntries(b)') + Cardinality(Holding(b)')
                        /\ pinned'[b] = Cardinality(EntriesOn(b)') + Cardinality(RunningOn(b)')
                                        + Cardinality(ApplyingOn(b)')
    BY Zenon, <1>1 DEF CountsExact
  <1>3. /\ IsFiniteSet(FullEntries(b)) /\ IsFiniteSet(EntriesOn(b))
        /\ IsFiniteSet(Holding(b)) /\ IsFiniteSet(RunningOn(b)) /\ IsFiniteSet(ApplyingOn(b))
    <2>1. FullEntries(b) \subseteq Entries /\ EntriesOn(b) \subseteq Entries
      BY Zenon DEF FullEntries, EntriesOn
    <2>2. Holding(b) \subseteq Threads /\ RunningOn(b) \subseteq Threads /\ ApplyingOn(b) \subseteq Threads
      BY Zenon DEF Holding, RunningOn, ApplyingOn
    <2> QED  BY Zenon, <2>1, <2>2, FS_Subset, QuiesceAssumption DEF TypeInv
  <1>4. /\ FullEntries(b) \ {e} = FullEntries(b)' \ {e}
        /\ EntriesOn(b) \ {e} = EntriesOn(b)' \ {e}
    BY Zenon DEF FullEntries, EntriesOn
  <1>5. /\ Holding(b) \ {t} = Holding(b)' \ {t}
        /\ RunningOn(b) \ {t} = RunningOn(b)' \ {t}
        /\ ApplyingOn(b) \ {t} = ApplyingOn(b)' \ {t}
    BY Zenon DEF Holding, RunningOn, ApplyingOn
  <1>6. /\ Cardinality(FullEntries(b)) \in Nat
        /\ Cardinality(FullEntries(b)')
               = Cardinality(FullEntries(b)) + Delta(e \in FullEntries(b), e \in FullEntries(b)')
    BY Zenon, <1>3, <1>4, OneElement DEF Delta
  <1>7. /\ Cardinality(EntriesOn(b)) \in Nat
        /\ Cardinality(EntriesOn(b)')
               = Cardinality(EntriesOn(b)) + Delta(e \in EntriesOn(b), e \in EntriesOn(b)')
    BY Zenon, <1>3, <1>4, OneElement DEF Delta
  <1>8. /\ Cardinality(Holding(b)) \in Nat
        /\ Cardinality(Holding(b)')
               = Cardinality(Holding(b)) + Delta(t \in Holding(b), t \in Holding(b)')
    BY Zenon, <1>3, <1>5, OneElement DEF Delta
  <1>9. /\ Cardinality(RunningOn(b)) \in Nat
        /\ Cardinality(RunningOn(b)')
               = Cardinality(RunningOn(b)) + Delta(t \in RunningOn(b), t \in RunningOn(b)')
    BY Zenon, <1>3, <1>5, OneElement DEF Delta
  <1>10. /\ Cardinality(ApplyingOn(b)) \in Nat
         /\ Cardinality(ApplyingOn(b)')
                = Cardinality(ApplyingOn(b)) + Delta(t \in ApplyingOn(b), t \in ApplyingOn(b)')
    BY Zenon, <1>3, <1>5, OneElement DEF Delta
  <1>11. /\ depth[b] = Cardinality(FullEntries(b)) + Cardinality(Holding(b))
         /\ pinned[b] = Cardinality(EntriesOn(b)) + Cardinality(RunningOn(b)) + Cardinality(ApplyingOn(b))
    BY Zenon DEF CountsExact
  <1> QED  BY <1>6, <1>7, <1>8, <1>9, <1>10, <1>11 DEF Delta

-----------------------------------------------------------------------------
(* The counts: one lemma for each action.                                  *)

\* Nothing is open, listed or counted in the beginning.
LEMMA InitCountInv == Init => CountInv
  <1> SUFFICES ASSUME Init PROVE CountInv
    BY Zenon
  <1>1. TypeInv
    BY FS_EmptySet DEF Init, TypeInv, Entries
  <1>2. LockInv /\ OpenInv
    BY Zenon, QuiesceAssumption DEF Init, LockInv, OpenInv, Critical
  <1>3. CountsExact
    <2>1. \A b : /\ FullEntries(b) = {} /\ EntriesOn(b) = {}
                 /\ Holding(b) = {} /\ RunningOn(b) = {} /\ ApplyingOn(b) = {}
      BY Zenon DEF Init, FullEntries, EntriesOn, Holding, Holds, RunningOn, ApplyingOn, Entries
    <2>2. \A b \in Bdevs : depth[b] = 0 /\ pinned[b] = 0
      BY Zenon DEF Init
    <2> QED  BY <2>1, <2>2, FS_EmptySet DEF CountsExact
  <1> QED  BY Zenon, <1>1, <1>2, <1>3 DEF CountInv

\* An ioctl starts with a reference on the namespace it names.
LEMMA StartCounts ==
    ASSUME CountInv, NEW t \in Threads, QuiesceNs(t) \/ UnquiesceNs(t)
    PROVE  CountInv'
  <1>1. PICK tg \in Requests[t] :
          /\ tg \in Targets
          /\ target' = [target EXCEPT ![t] = tg]
          /\ pinned' = [pinned EXCEPT ![Bd(tg)] = @ + 1]
    <2>1. CASE QuiesceNs(t)
      <3>1. PICK tg \in Requests[t] :
              /\ InRange(tg)
              /\ target' = [target EXCEPT ![t] = tg]
              /\ pinned' = [pinned EXCEPT ![Bd(tg)] = @ + 1]
        BY Zenon, <2>1 DEF QuiesceNs
      <3>2. tg \in Targets
        BY <3>1, QuiesceAssumption DEF InRange, Targets
      <3> QED  BY Zenon, <3>1, <3>2
    <2>2. CASE UnquiesceNs(t)
      BY Zenon, <2>2 DEF UnquiesceNs
    <2> QED  BY Zenon, <2>1, <2>2
  <1>2. PICK l \in {"lock", "find"} :
          /\ pc[t] = "idle" /\ FileOf[t] \in open
          /\ pc' = [pc EXCEPT ![t] = l]
          /\ UNCHANGED <<open, lock, quiescedNs, releasing, depth, stopped, dispatching>>
    BY Zenon DEF QuiesceNs, UnquiesceNs
  <1>3. Bd(tg) \in Bdevs
    BY Zenon, <1>1, TargetParts
  <1>4. TypeInv'
    BY <1>1, <1>2, <1>3 DEF CountInv, TypeInv, Entries, Critical
  <1>5. LockInv' /\ OpenInv'
    BY Zenon, <1>1, <1>2 DEF CountInv, TypeInv, LockInv, OpenInv, Critical
  <1>6. CountsExact'
    <2>1. \A u \in Threads : u # t => pc'[u] = pc[u] /\ target'[u] = target[u]
      BY Zenon, <1>1, <1>2 DEF CountInv, TypeInv
    <2>2. Entries' = Entries
      BY Zenon, <1>2 DEF Entries
    <2>3. pc'[t] = l /\ target'[t] = tg
      BY Zenon, <1>1, <1>2 DEF CountInv, TypeInv
    <2>4. \A b : FullEntries(b)' = FullEntries(b) /\ EntriesOn(b)' = EntriesOn(b)
      BY Zenon, <2>2 DEF FullEntries, EntriesOn
    <2>5. \A b : /\ t \notin Holding(b) /\ t \notin RunningOn(b) /\ t \notin ApplyingOn(b)
                 /\ t \notin Holding(b)' /\ t \notin ApplyingOn(b)'
                 /\ t \in RunningOn(b)' <=> Bd(tg) = b
      BY Zenon, <1>2, <2>3 DEF Holding, Holds, RunningOn, ApplyingOn
    <2>6. \A b \in Bdevs : /\ depth'[b] = depth[b] /\ depth[b] \in Int /\ pinned[b] \in Int
                           /\ pinned'[b] = pinned[b] + (IF Bd(tg) = b THEN 1 ELSE 0)
      BY <1>1, <1>2, <1>3 DEF CountInv, TypeInv
    <2>7. \A b \in Bdevs :
            /\ depth'[b] = depth[b] + Delta(t \in FullEntries(b), t \in FullEntries(b)')
                                    + Delta(t \in Holding(b), t \in Holding(b)')
            /\ pinned'[b] = pinned[b] + Delta(t \in EntriesOn(b), t \in EntriesOn(b)')
                                      + Delta(t \in RunningOn(b), t \in RunningOn(b)')
                                      + Delta(t \in ApplyingOn(b), t \in ApplyingOn(b)')
      BY <2>4, <2>5, <2>6 DEF Delta
    <2> QED  BY Zenon, <2>1, <2>2, <2>7, CountStep DEF CountInv
  <1> QED  BY Zenon, <1>4, <1>5, <1>6 DEF CountInv

\* A step of thread t that moves it to l and leaves the entries alone.
LEMMA MoveCounts ==
    ASSUME CountInv, NEW t \in Threads, NEW tg, tg = target[t], NEW l, l = pc'[t],
           \A u \in Threads : u # t => pc'[u] = pc[u],
           target' = target, Entries' = Entries,
           \A b \in Bdevs :
               /\ depth'[b] = depth[b] + Delta(Holds(pc[t], tg, b), Holds(l, tg, b))
               /\ pinned'[b] = pinned[b]
                               + Delta(pc[t] # "idle" /\ Bd(tg) = b, l # "idle" /\ Bd(tg) = b)
                               + Delta(pc[t] = "apply" /\ Bd(tg) = b, l = "apply" /\ Bd(tg) = b)
    PROVE  CountsExact'
  <1>1. \A b : FullEntries(b)' = FullEntries(b) /\ EntriesOn(b)' = EntriesOn(b)
    BY Zenon DEF FullEntries, EntriesOn
  <1>2. \A b : /\ t \in Holding(b) <=> Holds(pc[t], tg, b)
               /\ t \in Holding(b)' <=> Holds(l, tg, b)
               /\ t \in RunningOn(b) <=> pc[t] # "idle" /\ Bd(tg) = b
               /\ t \in RunningOn(b)' <=> l # "idle" /\ Bd(tg) = b
               /\ t \in ApplyingOn(b) <=> pc[t] = "apply" /\ Bd(tg) = b
               /\ t \in ApplyingOn(b)' <=> l = "apply" /\ Bd(tg) = b
    BY Zenon DEF Holding, RunningOn, ApplyingOn, Holds
  <1>3. \A b \in Bdevs : depth[b] \in Int /\ pinned[b] \in Int
    BY Zenon DEF CountInv, TypeInv
  <1>4. ASSUME NEW b \in Bdevs
        PROVE  /\ depth'[b] = depth[b] + Delta(t \in FullEntries(b), t \in FullEntries(b)')
                                       + Delta(t \in Holding(b), t \in Holding(b)')
               /\ pinned'[b] = pinned[b] + Delta(t \in EntriesOn(b), t \in EntriesOn(b)')
                                         + Delta(t \in RunningOn(b), t \in RunningOn(b)')
                                         + Delta(t \in ApplyingOn(b), t \in ApplyingOn(b)')
    BY <1>1, <1>2, <1>3 DEF Delta
  <1> QED  BY <1>4, CountStep DEF CountInv

\* mutex_lock: a target the file already holds returns, else depth goes up.
LEMMA QuiesceLockCounts ==
    ASSUME CountInv, NEW t \in Threads, QuiesceLock(t)
    PROVE  CountInv'
  <1>1. /\ pc[t] = "lock" /\ lock = None /\ target' = target
        /\ UNCHANGED <<open, quiescedNs, releasing, dispatching>>
    BY Zenon DEF QuiesceLock
  <1>2. PICK tg \in Targets : tg = target[t] /\ Bd(tg) \in Bdevs
    BY Zenon, <1>1, TargetParts DEF CountInv, TypeInv
  <1>3. Entries' = Entries
    BY Zenon, <1>1 DEF Entries
  <1>4. CASE Listed(FileOf[t], tg)
    <2>1. /\ pc' = [pc EXCEPT ![t] = "idle"]
          /\ pinned' = [pinned EXCEPT ![Bd(tg)] = @ - 1]
          /\ lock' = lock /\ depth' = depth
      BY Zenon, <1>2, <1>4 DEF QuiesceLock, FputBdev
    <2>2. TypeInv'
      BY <1>1, <1>2, <1>3, <2>1 DEF CountInv, TypeInv, Critical
    <2>3. LockInv' /\ OpenInv'
      BY Zenon, <1>1, <2>1 DEF CountInv, TypeInv, LockInv, OpenInv, Critical
    <2>4. pc'[t] = "idle" /\ \A u \in Threads : u # t => pc'[u] = pc[u]
      BY Zenon, <2>1 DEF CountInv, TypeInv
    <2>5. ASSUME NEW b \in Bdevs
          PROVE  /\ depth'[b] = depth[b] + Delta(Holds(pc[t], tg, b), Holds("idle", tg, b))
                 /\ pinned'[b] = pinned[b]
                                 + Delta(pc[t] # "idle" /\ Bd(tg) = b, "idle" # "idle" /\ Bd(tg) = b)
                                 + Delta(pc[t] = "apply" /\ Bd(tg) = b, "idle" = "apply" /\ Bd(tg) = b)
      BY <1>1, <1>2, <2>1 DEF CountInv, TypeInv, Holds, Delta
    <2>6. CountsExact'
      BY <1>1, <1>2, <1>3, <2>4, <2>5, MoveCounts
    <2> QED  BY Zenon, <2>2, <2>3, <2>6 DEF CountInv
  <1>5. CASE ~Listed(FileOf[t], tg)
    <2>1. /\ pc' = [pc EXCEPT ![t] = "drain"]
          /\ depth' = [depth EXCEPT ![Bd(tg)] = @ + 1]
          /\ lock' = t /\ pinned' = pinned
      BY Zenon, <1>2, <1>5 DEF QuiesceLock
    <2>2. TypeInv'
      BY <1>1, <1>2, <1>3, <2>1 DEF CountInv, TypeInv, Critical
    <2>3. LockInv' /\ OpenInv'
      BY Zenon, <1>1, <1>2, <1>5, <2>1, QuiesceAssumption
          DEF CountInv, TypeInv, LockInv, OpenInv, Critical, Listed
    <2>4. pc'[t] = "drain" /\ \A u \in Threads : u # t => pc'[u] = pc[u]
      BY Zenon, <2>1 DEF CountInv, TypeInv
    <2>5. ASSUME NEW b \in Bdevs
          PROVE  /\ depth'[b] = depth[b] + Delta(Holds(pc[t], tg, b), Holds("drain", tg, b))
                 /\ pinned'[b] = pinned[b]
                                 + Delta(pc[t] # "idle" /\ Bd(tg) = b, "drain" # "idle" /\ Bd(tg) = b)
                                 + Delta(pc[t] = "apply" /\ Bd(tg) = b, "drain" = "apply" /\ Bd(tg) = b)
      BY <1>1, <1>2, <2>1 DEF CountInv, TypeInv, Holds, Delta
    <2>6. CountsExact'
      BY <1>1, <1>2, <1>3, <2>4, <2>5, MoveCounts
    <2> QED  BY Zenon, <2>2, <2>3, <2>6 DEF CountInv
  <1> QED  BY Zenon, <1>4, <1>5

\* The three steps inside the critical section before the entry is listed.
LEMMA CriticalCounts ==
    ASSUME CountInv, NEW t \in Threads, QuiesceDrain(t) \/ StopHwQueue(t) \/ EndBriefQuiesce(t)
    PROVE  CountInv'
  <1>1. /\ target' = target /\ lock' = lock /\ pinned' = pinned
        /\ UNCHANGED <<open, quiescedNs, releasing, dispatching>>
        /\ pc[t] \in {"drain", "stop", "unbrief"}
    BY Zenon DEF QuiesceDrain, StopHwQueue, EndBriefQuiesce
  <1>2. PICK tg \in Targets : tg = target[t] /\ Bd(tg) \in Bdevs
    BY Zenon, <1>1, TargetParts DEF CountInv, TypeInv
  <1>3. PICK l \in Critical :
          /\ pc' = [pc EXCEPT ![t] = l]
          /\ l \in {"stop", "unbrief"} => ~Full(tg)
          /\ \/ /\ depth' = depth
                /\ l \in {"stop", "unbrief"} \/ (l = "add" /\ Full(tg))
             \/ /\ depth' = [depth EXCEPT ![Bd(tg)] = @ - 1]
                /\ l = "add" /\ ~Full(tg)
    BY Zenon, <1>1, <1>2 DEF QuiesceDrain, StopHwQueue, EndBriefQuiesce, Critical, CountInv, LockInv
  <1>4. Entries' = Entries
    BY Zenon, <1>1 DEF Entries
  <1>5. TypeInv'
    BY <1>1, <1>2, <1>3, <1>4 DEF CountInv, TypeInv, Critical
  <1>6. LockInv' /\ OpenInv'
    BY Zenon, <1>1, <1>2, <1>3 DEF CountInv, TypeInv, LockInv, OpenInv, Critical
  <1>7. pc'[t] = l /\ \A u \in Threads : u # t => pc'[u] = pc[u]
    BY Zenon, <1>3 DEF CountInv, TypeInv
  <1>8. ASSUME NEW b \in Bdevs
        PROVE  /\ depth'[b] = depth[b] + Delta(Holds(pc[t], tg, b), Holds(l, tg, b))
               /\ pinned'[b] = pinned[b]
                               + Delta(pc[t] # "idle" /\ Bd(tg) = b, l # "idle" /\ Bd(tg) = b)
                               + Delta(pc[t] = "apply" /\ Bd(tg) = b, l = "apply" /\ Bd(tg) = b)
    BY <1>1, <1>2, <1>3 DEF CountInv, TypeInv, Holds, Delta, Critical
  <1>9. CountsExact'
    BY <1>1, <1>2, <1>4, <1>7, <1>8, MoveCounts
  <1> QED  BY Zenon, <1>5, <1>6, <1>9 DEF CountInv

\* A step of thread t that moves it to l and touches the entry of its target.
LEMMA EntryCounts ==
    ASSUME CountInv, NEW t \in Threads, NEW tg \in Targets, tg = target[t], NEW l, l = pc'[t],
           \A u \in Threads : u # t => pc'[u] = pc[u],
           target' = target,
           NEW e, e[2] = tg, Entries' \ {e} = Entries \ {e},
           \A b \in Bdevs :
               /\ depth'[b] = depth[b]
                              + Delta(e \in Entries /\ Bd(tg) = b /\ Full(tg),
                                      e \in Entries' /\ Bd(tg) = b /\ Full(tg))
                              + Delta(Holds(pc[t], tg, b), Holds(l, tg, b))
               /\ pinned'[b] = pinned[b]
                               + Delta(e \in Entries /\ Bd(tg) = b, e \in Entries' /\ Bd(tg) = b)
                               + Delta(pc[t] # "idle" /\ Bd(tg) = b, l # "idle" /\ Bd(tg) = b)
                               + Delta(pc[t] = "apply" /\ Bd(tg) = b, l = "apply" /\ Bd(tg) = b)
    PROVE  CountsExact' /\ IsFiniteSet(Entries')
  <1>1. \A b : /\ e \in FullEntries(b) <=> e \in Entries /\ Bd(tg) = b /\ Full(tg)
               /\ e \in FullEntries(b)' <=> e \in Entries' /\ Bd(tg) = b /\ Full(tg)
               /\ e \in EntriesOn(b) <=> e \in Entries /\ Bd(tg) = b
               /\ e \in EntriesOn(b)' <=> e \in Entries' /\ Bd(tg) = b
    <2>1. \A b : tg = <<b, 0>> <=> Bd(tg) = b /\ Full(tg)
      BY Zenon, TargetParts
    <2> QED  BY Zenon, <2>1 DEF FullEntries, EntriesOn
  <1>2. \A b : /\ t \in Holding(b) <=> Holds(pc[t], tg, b)
               /\ t \in Holding(b)' <=> Holds(l, tg, b)
               /\ t \in RunningOn(b) <=> pc[t] # "idle" /\ Bd(tg) = b
               /\ t \in RunningOn(b)' <=> l # "idle" /\ Bd(tg) = b
               /\ t \in ApplyingOn(b) <=> pc[t] = "apply" /\ Bd(tg) = b
               /\ t \in ApplyingOn(b)' <=> l = "apply" /\ Bd(tg) = b
    BY Zenon DEF Holding, RunningOn, ApplyingOn, Holds
  <1>3. ASSUME NEW b \in Bdevs
        PROVE  /\ depth'[b] = depth[b] + Delta(e \in FullEntries(b), e \in FullEntries(b)')
                                       + Delta(t \in Holding(b), t \in Holding(b)')
               /\ pinned'[b] = pinned[b] + Delta(e \in EntriesOn(b), e \in EntriesOn(b)')
                                         + Delta(t \in RunningOn(b), t \in RunningOn(b)')
                                         + Delta(t \in ApplyingOn(b), t \in ApplyingOn(b)')
    BY <1>1, <1>2 DEF Delta
  <1> QED  BY <1>3, CountStep DEF CountInv

\* list_add and mutex_unlock.
LEMMA ListAddCounts ==
    ASSUME CountInv, NEW t \in Threads, ListAdd(t)
    PROVE  CountInv'
  <1>1. /\ pc[t] = "add" /\ lock' = None /\ pc' = [pc EXCEPT ![t] = "idle"]
        /\ quiescedNs' = quiescedNs \union {<<FileOf[t], target[t]>>}
        /\ UNCHANGED <<open, target, releasing, depth, dispatching, pinned>>
    BY Zenon DEF ListAdd, Unlock
  <1>2. PICK tg \in Targets : tg = target[t] /\ Bd(tg) \in Bdevs
    BY Zenon, <1>1, TargetParts DEF CountInv, TypeInv
  <1>3. PICK e \in Files \X Targets : e = <<FileOf[t], tg>> /\ e[2] = tg
    BY Zenon, ThreadEntry
  <1>4. e \notin Entries /\ Entries' = Entries \union {e}
    BY Zenon, <1>1, <1>2, <1>3 DEF CountInv, LockInv, OpenInv, Entries, Critical
  <1>5. pc'[t] = "idle" /\ \A u \in Threads : u # t => pc'[u] = pc[u]
    BY Zenon, <1>1 DEF CountInv, TypeInv
  <1>6. ASSUME NEW b \in Bdevs
        PROVE  /\ depth'[b] = depth[b]
                              + Delta(e \in Entries /\ Bd(tg) = b /\ Full(tg),
                                      e \in Entries' /\ Bd(tg) = b /\ Full(tg))
                              + Delta(Holds(pc[t], tg, b), Holds("idle", tg, b))
               /\ pinned'[b] = pinned[b]
                               + Delta(e \in Entries /\ Bd(tg) = b, e \in Entries' /\ Bd(tg) = b)
                               + Delta(pc[t] # "idle" /\ Bd(tg) = b, "idle" # "idle" /\ Bd(tg) = b)
                               + Delta(pc[t] = "apply" /\ Bd(tg) = b, "idle" = "apply" /\ Bd(tg) = b)
    <2>1. depth'[b] = depth[b] /\ pinned'[b] = pinned[b] /\ depth[b] \in Int /\ pinned[b] \in Int
      BY Zenon, <1>1 DEF CountInv, TypeInv
    <2>2. e \notin Entries /\ e \in Entries' /\ pc[t] = "add"
      BY Zenon, <1>1, <1>4
    <2>3. (Holds("add", tg, b) <=> Bd(tg) = b /\ Full(tg)) /\ ~Holds("idle", tg, b)
      BY Zenon DEF Holds
    <2> QED  BY SMTT(30), <2>1, <2>2, <2>3 DEF Delta
  <1>7. CountsExact' /\ IsFiniteSet(Entries')
    <2>1. target' = target
      BY Zenon, <1>1
    <2>2. Entries' \ {e} = Entries \ {e}
      BY Zenon, <1>4
    <2> QED  BY <1>2, <1>3, <1>5, <1>6, <2>1, <2>2, EntryCounts
  <1>8. TypeInv'
    BY Zenon, <1>1, <1>2, <1>3, <1>4, <1>7 DEF CountInv, TypeInv, Critical
  <1>9. LockInv'
    <2>1. \A u \in Threads : u # t => pc[u] \notin Critical
      BY Zenon, <1>1 DEF CountInv, LockInv, Critical
    <2> QED  BY Zenon, <1>1, <1>5, <2>1, QuiesceAssumption DEF LockInv, Critical
  <1>10. OpenInv'
    BY <1>1, <1>5 DEF CountInv, OpenInv
  <1> QED  BY Zenon, <1>7, <1>8, <1>9, <1>10 DEF CountInv

\* The unlink, which moves the entry's reference and its depth to the ioctl, or
\* -ENOENT.
LEMMA UnquiesceFindCounts ==
    ASSUME CountInv, NEW t \in Threads, UnquiesceFind(t)
    PROVE  CountInv'
  <1>1. /\ pc[t] = "find" /\ lock = None
        /\ UNCHANGED <<open, target, lock, releasing, depth, dispatching>>
    BY Zenon DEF UnquiesceFind
  <1>2. PICK tg \in Targets : tg = target[t] /\ Bd(tg) \in Bdevs
    BY Zenon, <1>1, TargetParts DEF CountInv, TypeInv
  <1>3. PICK e \in Files \X Targets : e = <<FileOf[t], tg>> /\ e[2] = tg
    BY Zenon, ThreadEntry
  <1>4. \A u \in Threads : pc[u] \notin Critical
    BY Zenon, <1>1, QuiesceAssumption DEF CountInv, LockInv
  <1>5. CASE Listed(FileOf[t], tg)
    <2>1. /\ quiescedNs' = quiescedNs \ {e}
          /\ pc' = [pc EXCEPT ![t] = "apply"] /\ pinned' = pinned
          /\ e \in quiescedNs
      BY Zenon, <1>2, <1>3, <1>5 DEF UnquiesceFind, Listed
    <2>2. e \in Entries /\ e \notin Entries' /\ Entries' = Entries \ {e}
      BY Zenon, <1>1, <1>3, <2>1 DEF CountInv, OpenInv, Entries
    <2>3. PICK l : l = "apply" /\ pc'[t] = l /\ \A u \in Threads : u # t => pc'[u] = pc[u]
      BY Zenon, <2>1 DEF CountInv, TypeInv
    <2>4. ASSUME NEW b \in Bdevs
          PROVE  /\ depth'[b] = depth[b]
                                + Delta(e \in Entries /\ Bd(tg) = b /\ Full(tg),
                                        e \in Entries' /\ Bd(tg) = b /\ Full(tg))
                                + Delta(Holds(pc[t], tg, b), Holds(l, tg, b))
                 /\ pinned'[b] = pinned[b]
                                 + Delta(e \in Entries /\ Bd(tg) = b, e \in Entries' /\ Bd(tg) = b)
                                 + Delta(pc[t] # "idle" /\ Bd(tg) = b, l # "idle" /\ Bd(tg) = b)
                                 + Delta(pc[t] = "apply" /\ Bd(tg) = b, l = "apply" /\ Bd(tg) = b)
      BY <1>1, <1>2, <2>1, <2>2, <2>3 DEF CountInv, TypeInv, Holds, Delta
    <2>5. CountsExact' /\ IsFiniteSet(Entries')
      <3>1. Entries' \ {e} = Entries \ {e}
        BY Zenon, <2>2
      <3>2. target' = target
        BY Zenon, <1>1
      <3>3. pc'[t] = l /\ \A u \in Threads : u # t => pc'[u] = pc[u]
        BY Zenon, <2>3
      <3> QED  BY <1>2, <1>3, <2>4, <3>1, <3>2, <3>3, EntryCounts
    <2>6. TypeInv'
      BY Zenon, <1>1, <1>2, <2>1, <2>2, <2>5 DEF CountInv, TypeInv, Critical
    <2>7. LockInv'
      BY Zenon, <1>1, <1>4, <2>3, QuiesceAssumption DEF LockInv, Critical
    <2>8. OpenInv'
      BY Zenon, <1>1, <2>1, <2>3 DEF CountInv, OpenInv
    <2> QED  BY Zenon, <2>5, <2>6, <2>7, <2>8 DEF CountInv
  <1>6. CASE ~Listed(FileOf[t], tg)
    <2>1. /\ quiescedNs' = quiescedNs
          /\ pc' = [pc EXCEPT ![t] = "idle"]
          /\ pinned' = [pinned EXCEPT ![Bd(tg)] = @ - 1]
      BY Zenon, <1>2, <1>6 DEF UnquiesceFind, FputBdev
    <2>2. Entries' = Entries
      BY Zenon, <1>1, <2>1 DEF Entries
    <2>3. pc'[t] = "idle" /\ \A u \in Threads : u # t => pc'[u] = pc[u]
      BY Zenon, <2>1 DEF CountInv, TypeInv
    <2>4. ASSUME NEW b \in Bdevs
          PROVE  /\ depth'[b] = depth[b] + Delta(Holds(pc[t], tg, b), Holds("idle", tg, b))
                 /\ pinned'[b] = pinned[b]
                                 + Delta(pc[t] # "idle" /\ Bd(tg) = b, "idle" # "idle" /\ Bd(tg) = b)
                                 + Delta(pc[t] = "apply" /\ Bd(tg) = b, "idle" = "apply" /\ Bd(tg) = b)
      BY <1>1, <1>2, <2>1 DEF CountInv, TypeInv, Holds, Delta
    <2>5. CountsExact'
      BY <1>1, <1>2, <2>2, <2>3, <2>4, MoveCounts
    <2>6. TypeInv'
      BY <1>1, <1>2, <2>1, <2>2 DEF CountInv, TypeInv, Critical
    <2>7. LockInv'
      BY Zenon, <1>1, <1>4, <2>3, QuiesceAssumption DEF LockInv, Critical
    <2>8. OpenInv'
      BY Zenon, <1>1, <2>1, <2>3 DEF CountInv, OpenInv
    <2> QED  BY Zenon, <2>5, <2>6, <2>7, <2>8 DEF CountInv
  <1> QED  BY Zenon, <1>5, <1>6

\* The resume outside the lock and the two fputs.
LEMMA UnquiesceApplyCounts ==
    ASSUME CountInv, NEW t \in Threads, UnquiesceApply(t)
    PROVE  CountInv'
  <1>1. /\ pc[t] = "apply" /\ pc' = [pc EXCEPT ![t] = "idle"]
        /\ UNCHANGED <<open, target, lock, quiescedNs, releasing, dispatching>>
    BY Zenon DEF UnquiesceApply
  <1>2. PICK tg \in Targets : tg = target[t] /\ Bd(tg) \in Bdevs
    BY Zenon, <1>1, TargetParts DEF CountInv, TypeInv
  <1>3. /\ pinned' = [pinned EXCEPT ![Bd(tg)] = @ - 2]
        /\ depth' = IF Full(tg) THEN [depth EXCEPT ![Bd(tg)] = @ - 1] ELSE depth
    BY Zenon, <1>2 DEF UnquiesceApply, Resume, FputBdev
  <1>4. Entries' = Entries
    BY Zenon, <1>1 DEF Entries
  <1>5. pc'[t] = "idle" /\ \A u \in Threads : u # t => pc'[u] = pc[u]
    BY Zenon, <1>1 DEF CountInv, TypeInv
  <1>6. ASSUME NEW b \in Bdevs
        PROVE  /\ depth'[b] = depth[b] + Delta(Holds(pc[t], tg, b), Holds("idle", tg, b))
               /\ pinned'[b] = pinned[b]
                               + Delta(pc[t] # "idle" /\ Bd(tg) = b, "idle" # "idle" /\ Bd(tg) = b)
                               + Delta(pc[t] = "apply" /\ Bd(tg) = b, "idle" = "apply" /\ Bd(tg) = b)
    BY <1>1, <1>2, <1>3 DEF CountInv, TypeInv, Holds, Delta
  <1>7. CountsExact'
    BY <1>1, <1>2, <1>4, <1>5, <1>6, MoveCounts
  <1>8. TypeInv'
    BY <1>1, <1>2, <1>3, <1>4 DEF CountInv, TypeInv, Critical
  <1>9. LockInv' /\ OpenInv'
    BY Zenon, <1>1, <1>5 DEF CountInv, LockInv, OpenInv, Critical
  <1> QED  BY Zenon, <1>7, <1>8, <1>9 DEF CountInv

\* What the counts are of does not change.
LEMMA SameCounts ==
    ASSUME CountsExact, Entries' = Entries, UNCHANGED <<pc, target, depth, pinned>>
    PROVE  CountsExact'
  <1>1. \A b : /\ FullEntries(b)' = FullEntries(b) /\ EntriesOn(b)' = EntriesOn(b)
               /\ Holding(b)' = Holding(b) /\ RunningOn(b)' = RunningOn(b)
               /\ ApplyingOn(b)' = ApplyingOn(b)
    BY Zenon DEF FullEntries, EntriesOn, Holding, RunningOn, ApplyingOn
  <1> QED  BY Zenon, <1>1 DEF CountsExact

\* The entries of a released file move to its private list.
LEMMA ReleaseCounts ==
    ASSUME CountInv, NEW f \in Files, Release(f)
    PROVE  CountInv'
  <1>1. /\ lock = None /\ \A t \in Threads : FileOf[t] = f => pc[t] = "idle"
        /\ open' = open \ {f}
        /\ releasing' = releasing \union {e \in quiescedNs : e[1] = f}
        /\ quiescedNs' = quiescedNs \ {e \in quiescedNs : e[1] = f}
        /\ UNCHANGED <<pc, target, lock, depth, stopped, dispatching, pinned>>
    BY Zenon DEF Release, Owned
  <1>2. Entries' = Entries
    BY Zenon, <1>1 DEF Entries
  <1>3. TypeInv'
    BY Zenon, <1>1, <1>2 DEF CountInv, TypeInv
  <1>4. LockInv' /\ OpenInv'
    BY Zenon, <1>1 DEF CountInv, LockInv, OpenInv
  <1>5. CountsExact'
    BY Zenon, <1>1, <1>2, SameCounts DEF CountInv
  <1> QED  BY Zenon, <1>3, <1>4, <1>5 DEF CountInv

\* An entry of the private list is resumed and gives up its reference.
LEMMA ReleaseEntryCounts ==
    ASSUME CountInv, NEW f \in Files, ReleaseEntry(f)
    PROVE  CountInv'
  <1>1. PICK e \in releasing :
          /\ e[1] = f
          /\ Resume(e[2])
          /\ releasing' = releasing \ {e}
          /\ FputBdev(e[2], 1)
          /\ UNCHANGED <<open, pc, target, lock, quiescedNs, dispatching>>
    BY Zenon DEF ReleaseEntry
  <1>2. e \in Entries /\ e[2] \in Targets /\ e[1] \notin open
    BY Zenon DEF CountInv, TypeInv, OpenInv, Entries
  <1>3. PICK tg \in Targets : tg = e[2] /\ Bd(tg) \in Bdevs /\ \A b : tg = <<b, 0>> <=> Bd(tg) = b /\ Full(tg)
    BY Zenon, <1>2, TargetParts
  <1>4. /\ pinned' = [pinned EXCEPT ![Bd(tg)] = @ - 1]
        /\ depth' = IF Full(tg) THEN [depth EXCEPT ![Bd(tg)] = @ - 1] ELSE depth
    BY Zenon, <1>1, <1>3 DEF Resume, FputBdev
  <1>5. e \notin Entries' /\ Entries' = Entries \ {e} /\ Entries' \ {e} = Entries \ {e}
    BY Zenon, <1>1, <1>2 DEF CountInv, OpenInv, Entries
  <1>6. \A b : /\ e \in FullEntries(b) <=> Bd(tg) = b /\ Full(tg)
               /\ e \in EntriesOn(b) <=> Bd(tg) = b
               /\ e \notin FullEntries(b)' /\ e \notin EntriesOn(b)'
    BY Zenon, <1>2, <1>3, <1>5 DEF FullEntries, EntriesOn
  <1>7. \A b : /\ Holding(b)' = Holding(b) /\ RunningOn(b)' = RunningOn(b)
               /\ ApplyingOn(b)' = ApplyingOn(b)
    BY Zenon, <1>1 DEF Holding, RunningOn, ApplyingOn
  <1>8. \A b \in Bdevs :
          /\ depth[b] \in Int /\ pinned[b] \in Int
          /\ depth'[b] = depth[b] - (IF Bd(tg) = b /\ Full(tg) THEN 1 ELSE 0)
          /\ pinned'[b] = pinned[b] - (IF Bd(tg) = b THEN 1 ELSE 0)
    BY <1>3, <1>4 DEF CountInv, TypeInv
  <1>9. \A b \in Bdevs :
          /\ depth'[b] = depth[b] + Delta(e \in FullEntries(b), e \in FullEntries(b)')
                                  + Delta(e \in Holding(b), e \in Holding(b)')
          /\ pinned'[b] = pinned[b] + Delta(e \in EntriesOn(b), e \in EntriesOn(b)')
                                    + Delta(e \in RunningOn(b), e \in RunningOn(b)')
                                    + Delta(e \in ApplyingOn(b), e \in ApplyingOn(b)')
    BY <1>6, <1>7, <1>8 DEF Delta
  <1>10. CountsExact' /\ IsFiniteSet(Entries')
    <2>1. \A u \in Threads : u # e => pc'[u] = pc[u] /\ target'[u] = target[u]
      BY <1>1
    <2> QED  BY Zenon, <1>5, <1>9, <2>1, CountStep DEF CountInv
  <1>11. TypeInv'
    BY SMTT(30), <1>1, <1>3, <1>4, <1>5, <1>10 DEF CountInv, TypeInv
  <1>12. LockInv' /\ OpenInv'
    BY Zenon, <1>1 DEF CountInv, LockInv, OpenInv
  <1> QED  BY Zenon, <1>10, <1>11, <1>12 DEF CountInv

\* The block layer's own steps, a new open and stuttering count nothing.
LEMMA OtherCounts ==
    ASSUME CountInv,
           \/ \E f \in Files : Open(f)
           \/ \E tg \in Bdevs \X Qids : Dispatch(tg) \/ DispatchDone(tg)
           \/ UNCHANGED vars
    PROVE  CountInv'
  <1>1. /\ UNCHANGED <<pc, target, lock, quiescedNs, releasing, depth, pinned>>
        /\ dispatching' \subseteq Bdevs \X Qids
        /\ open' \subseteq Files
        /\ open \subseteq open'
        /\ \A e \in releasing : e[1] \notin open'
    BY Zenon DEF CountInv, TypeInv, OpenInv, Open, Dispatch, DispatchDone, vars
  <1>2. Entries' = Entries
    BY Zenon, <1>1 DEF Entries
  <1>3. TypeInv' /\ LockInv' /\ OpenInv'
    BY Zenon, <1>1, <1>2 DEF CountInv, TypeInv, LockInv, OpenInv
  <1>4. CountsExact'
    BY Zenon, <1>1, <1>2, SameCounts DEF CountInv
  <1> QED  BY Zenon, <1>3, <1>4 DEF CountInv

\* Every step keeps the counts.
LEMMA NextCountInv == CountInv /\ [Next]_vars => CountInv'
  <1> SUFFICES ASSUME CountInv, [Next]_vars PROVE CountInv'
    BY Zenon
  <1>1. ASSUME NEW t \in Threads,
               QuiesceNs(t) \/ UnquiesceNs(t) \/ QuiesceSteps(t) \/ UnquiesceSteps(t)
        PROVE  CountInv'
    BY <1>1, StartCounts, QuiesceLockCounts, CriticalCounts, ListAddCounts,
       UnquiesceFindCounts, UnquiesceApplyCounts DEF QuiesceSteps, UnquiesceSteps
  <1>2. ASSUME NEW f \in Files, Release(f) \/ ReleaseEntry(f)
        PROVE  CountInv'
    BY Zenon, <1>2, ReleaseCounts, ReleaseEntryCounts
  <1> QED  BY Zenon, <1>1, <1>2, OtherCounts DEF Next

\* In every behaviour quiesce_depth counts the whole-queue entries and the ioctls
\* in their own quiesce window, and the references on a namespace's file are those
\* of the entries and the running ioctls, for any number of threads, files,
\* namespaces and hardware queues and whatever targets are asked for.
THEOREM CountsStayExact == Spec => []CountsExact
  <1>1. CountInv => CountsExact
    BY Zenon DEF CountInv
  <1> QED  BY InitCountInv, NextCountInv, <1>1, PTL DEF Spec

-----------------------------------------------------------------------------
(* Isolation.                                                              *)

\* A queue whose quiesce_depth is 0 is held by no entry and no ioctl.
LEMMA DepthZero ==
    ASSUME CountInv, NEW b \in Bdevs, depth[b] = 0
    PROVE  FullEntries(b) = {} /\ Holding(b) = {}
  <1>1. FullEntries(b) \subseteq Entries /\ Holding(b) \subseteq Threads
    BY Zenon DEF FullEntries, Holding
  <1>2. /\ IsFiniteSet(FullEntries(b)) /\ Cardinality(FullEntries(b)) \in Nat
        /\ IsFiniteSet(Holding(b)) /\ Cardinality(Holding(b)) \in Nat
    BY <1>1, FS_Subset, FS_CardinalityType, QuiesceAssumption DEF CountInv, TypeInv
  <1>3. Cardinality(FullEntries(b)) = 0 /\ Cardinality(Holding(b)) = 0
    BY <1>2 DEF CountInv, CountsExact
  <1> QED  BY Zenon, <1>2, <1>3, FS_EmptySet

\* Resuming a hardware queue clears no flag that another entry or ioctl relies
\* on: whoever names it is thread u.
LEMMA FlagOwner ==
    ASSUME OwnQueues, CountInv, AskedInv, NEW u \in Threads, NEW tg \in Requests[u], ~Full(tg)
    PROVE  /\ \A t \in Threads : pc[t] # "idle" /\ target[t] = tg => t = u
           /\ \A e \in quiescedNs : e[2] = tg => e = <<FileOf[u], tg>>
  <1>1. ASSUME NEW t \in Threads, pc[t] # "idle", target[t] = tg
        PROVE  t = u
    BY Zenon, <1>1 DEF OwnQueues, AskedInv
  <1>2. ASSUME NEW e \in quiescedNs, e[2] = tg
        PROVE  e = <<FileOf[u], tg>>
    <2>1. e \in Entries /\ e \in Files \X Targets
      BY Zenon DEF Entries, CountInv, TypeInv
    <2>2. PICK t \in Threads : e[1] = FileOf[t] /\ e[2] \in Requests[t]
      BY Zenon, <2>1 DEF AskedInv
    <2>3. t = u
      BY Zenon, <1>2, <2>2 DEF OwnQueues
    <2> QED  BY <1>2, <2>1, <2>2, <2>3
  <1> QED  BY Zenon, <1>1, <1>2

\* The first steps of an ioctl, and the steps that only move a thread on.
LEMMA StartIsolation ==
    ASSUME OwnQueues, CountInv, IsolationInv, NEW t \in Threads, QuiesceNs(t) \/ UnquiesceNs(t)
    PROVE  IsolationInv'
  <1>1. PICK tg \in Requests[t], l \in {"lock", "find"} :
          /\ target' = [target EXCEPT ![t] = tg]
          /\ pc' = [pc EXCEPT ![t] = l]
          /\ UNCHANGED <<quiescedNs, releasing, stopped, dispatching>>
    BY Zenon DEF QuiesceNs, UnquiesceNs
  <1>2. /\ pc'[t] = l /\ target'[t] = tg
        /\ \A u \in Threads : u # t => pc'[u] = pc[u] /\ target'[u] = target[u]
    BY Zenon, <1>1 DEF CountInv, TypeInv
  <1>3. Entries' = Entries
    BY Zenon, <1>1 DEF Entries
  <1>4. AskedInv'
    BY <1>1, <1>2, <1>3 DEF IsolationInv, AskedInv
  <1>5. StoppedInv' /\ DrainedInv' /\ Isolated'
    BY <1>1, <1>2 DEF IsolationInv, StoppedInv, DrainedInv, Drained, Isolated
  <1> QED  BY Zenon, <1>4, <1>5 DEF IsolationInv

\* The steps of QUIESCE_NS up to the listing of the entry.
LEMMA QuiesceIsolation ==
    ASSUME OwnQueues, CountInv, IsolationInv, NEW t \in Threads,
           QuiesceLock(t) \/ QuiesceDrain(t) \/ StopHwQueue(t) \/ EndBriefQuiesce(t)
    PROVE  IsolationInv'
  <1>1. PICK l \in {"idle", "drain", "stop", "unbrief", "add"} : pc' = [pc EXCEPT ![t] = l]
    BY Zenon DEF QuiesceLock, QuiesceDrain, StopHwQueue, EndBriefQuiesce
  <1>2. /\ pc'[t] = l /\ \A u \in Threads : u # t => pc'[u] = pc[u]
        /\ UNCHANGED <<target, quiescedNs, releasing, dispatching>>
        /\ stopped \subseteq stopped' /\ pc[t] # "idle"
    BY Zenon, <1>1 DEF CountInv, TypeInv, QuiesceLock, QuiesceDrain, StopHwQueue, EndBriefQuiesce
  <1>3. target[t] \in Targets /\ (pc[t] \in {"stop", "unbrief"} => ~Full(target[t]))
    BY Zenon, <1>2 DEF CountInv, TypeInv, LockInv
  <1>4. AskedInv'
    BY Zenon, <1>2 DEF IsolationInv, AskedInv, Entries
  <1>5. l \in {"unbrief", "add"} /\ ~Full(target[t]) => target[t] \in stopped'
    BY SMTT(30), <1>1, <1>2 DEF IsolationInv, StoppedInv, QuiesceLock, QuiesceDrain, StopHwQueue,
                              EndBriefQuiesce
  <1>6. StoppedInv'
    BY Zenon, <1>2, <1>5 DEF IsolationInv, StoppedInv
  <1>7. l \in {"stop", "unbrief", "add"} => Drained(Bd(target[t]))
    BY <1>1, <1>2 DEF IsolationInv, DrainedInv, QuiesceLock, QuiesceDrain, StopHwQueue, EndBriefQuiesce
  <1>8. Drained(Bd(target[t])) /\ ~Full(target[t]) => target[t] \notin dispatching
    BY <1>3, QuiesceAssumption DEF Drained, Targets, Qids, Bd, Full
  <1>9. DrainedInv'
    BY Zenon, <1>2, <1>7, <1>8 DEF IsolationInv, DrainedInv, Drained
  <1>10. Isolated'
    BY Zenon, <1>2 DEF IsolationInv, Isolated
  <1> QED  BY Zenon, <1>4, <1>6, <1>9, <1>10 DEF IsolationInv

\* The entry is listed once its queue is drained and, for one hardware queue,
\* stopped.
LEMMA ListAddIsolation ==
    ASSUME OwnQueues, CountInv, IsolationInv, NEW t \in Threads, ListAdd(t)
    PROVE  IsolationInv'
  <1>1. /\ pc[t] = "add" /\ pc' = [pc EXCEPT ![t] = "idle"]
        /\ quiescedNs' = quiescedNs \union {<<FileOf[t], target[t]>>}
        /\ UNCHANGED <<target, releasing, stopped, dispatching>>
    BY Zenon DEF ListAdd
  <1>2. pc'[t] = "idle" /\ \A u \in Threads : u # t => pc'[u] = pc[u]
    BY Zenon, <1>1 DEF CountInv, TypeInv
  <1>3. PICK tg \in Targets : tg = target[t] /\ tg \in Requests[t]
    BY Zenon, <1>1 DEF CountInv, TypeInv, IsolationInv, AskedInv
  <1>4. PICK e : e = <<FileOf[t], tg>>
    BY Zenon
  <1>5. quiescedNs' = quiescedNs \union {e} /\ Entries' = Entries \union {e}
    BY Zenon, <1>1, <1>3, <1>4 DEF Entries
  <1>6. AskedInv'
    BY <1>1, <1>2, <1>3, <1>4, <1>5 DEF IsolationInv, AskedInv
  <1>7. StoppedInv'
    <2>1. \A q \in quiescedNs' : ~Full(q[2]) => q[2] \in stopped'
      BY <1>1, <1>3, <1>4, <1>5 DEF IsolationInv, StoppedInv
    <2>2. ASSUME NEW u \in Threads, pc'[u] = "apply", ~Full(target'[u])
          PROVE  <<FileOf[u], target'[u]>> \notin quiescedNs'
      <3>1. u # t /\ pc[u] = "apply" /\ target'[u] = target[u]
        BY Zenon, <1>1, <1>2, <2>2
      <3>2. target[u] # tg
        BY Zenon, <1>3, <2>2, <3>1, FlagOwner DEF IsolationInv
      <3>3. <<FileOf[u], target[u]>> # e
        BY Zenon, <1>4, <3>2
      <3> QED  BY Zenon, <1>5, <2>2, <3>1, <3>3 DEF IsolationInv, StoppedInv
    <2> QED  BY Zenon, <1>1, <1>2, <2>1, <2>2 DEF IsolationInv, StoppedInv
  <1>8. DrainedInv'
    BY Zenon, <1>1, <1>2 DEF IsolationInv, DrainedInv, Drained
  <1>9. Isolated'
    <2>1. ASSUME NEW d \in dispatching, Bd(d) = Bd(tg)
          PROVE  ~Full(tg) /\ d # tg
      <3>1. d = <<Bd(d), d[2]>> /\ d[2] \in Qids
        BY DEF CountInv, TypeInv, Bd
      <3>2. ~Drained(Bd(tg))
        BY Zenon, <2>1, <3>1 DEF Drained
      <3> QED  BY Zenon, <1>1, <1>3, <3>2 DEF IsolationInv, DrainedInv
    <2> QED  BY <1>1, <1>4, <1>5, <2>1 DEF IsolationInv, Isolated
  <1> QED  BY Zenon, <1>6, <1>7, <1>8, <1>9 DEF IsolationInv

\* A resume clears no flag of a queue that is listed or about to be.
LEMMA ResumeIsolation ==
    ASSUME OwnQueues, CountInv, IsolationInv, NEW tg, stopped \ {tg} \subseteq stopped',
           Entries' \subseteq Entries, quiescedNs' \subseteq quiescedNs,
           target' = target, dispatching' = dispatching,
           \A u \in Threads : pc'[u] = pc[u] \/ pc'[u] = "idle",
           \/ stopped' = stopped
           \/ /\ \A u \in Threads : pc[u] \in {"unbrief", "add"} => target[u] # tg
              /\ \A e \in quiescedNs : e[2] # tg
    PROVE  IsolationInv'
  <1>1. AskedInv'
    BY Zenon DEF IsolationInv, AskedInv
  <1>2. StoppedInv'
    BY Zenon DEF IsolationInv, StoppedInv
  <1>3. DrainedInv' /\ Isolated'
    BY Zenon DEF IsolationInv, DrainedInv, Drained, Isolated
  <1> QED  BY Zenon, <1>1, <1>2, <1>3 DEF IsolationInv

\* UNQUIESCE_NS: the unlink, or nothing to unlink.
LEMMA UnquiesceFindIsolation ==
    ASSUME OwnQueues, CountInv, IsolationInv, NEW t \in Threads, UnquiesceFind(t)
    PROVE  IsolationInv'
  <1>1. /\ pc[t] = "find" /\ UNCHANGED <<target, releasing, stopped, dispatching>>
        /\ quiescedNs' \subseteq quiescedNs
    BY Zenon DEF UnquiesceFind
  <1>2. PICK l \in {"apply", "idle"} :
          /\ pc' = [pc EXCEPT ![t] = l]
          /\ l = "apply" => <<FileOf[t], target[t]>> \notin quiescedNs'
    BY Zenon DEF UnquiesceFind
  <1>3. pc'[t] = l /\ \A u \in Threads : u # t => pc'[u] = pc[u]
    BY Zenon, <1>2 DEF CountInv, TypeInv
  <1>4. AskedInv'
    BY Zenon, <1>1, <1>3 DEF IsolationInv, AskedInv, Entries
  <1>5. StoppedInv'
    BY Zenon, <1>1, <1>2, <1>3 DEF IsolationInv, StoppedInv
  <1>6. DrainedInv' /\ Isolated'
    BY Zenon, <1>1, <1>3 DEF IsolationInv, DrainedInv, Drained, Isolated
  <1> QED  BY Zenon, <1>4, <1>5, <1>6 DEF IsolationInv

\* The restart of an unlinked entry's queue, after the lock is dropped.
LEMMA UnquiesceApplyIsolation ==
    ASSUME OwnQueues, CountInv, IsolationInv, NEW t \in Threads, UnquiesceApply(t)
    PROVE  IsolationInv'
  <1>1. /\ pc[t] = "apply" /\ pc' = [pc EXCEPT ![t] = "idle"]
        /\ UNCHANGED <<target, quiescedNs, releasing, dispatching>>
    BY Zenon DEF UnquiesceApply
  <1>2. PICK tg \in Requests[t] : tg = target[t]
    BY Zenon, <1>1 DEF IsolationInv, AskedInv
  <1>3. stopped' = IF Full(tg) THEN stopped ELSE stopped \ {tg}
    BY Zenon, <1>2 DEF UnquiesceApply, Resume
  <1>4. ASSUME ~Full(tg)
        PROVE  /\ \A u \in Threads : pc[u] \in {"unbrief", "add"} => target[u] # tg
               /\ \A e \in quiescedNs : e[2] # tg
    <2>1. <<FileOf[t], tg>> \notin quiescedNs
      BY Zenon, <1>1, <1>2, <1>4 DEF IsolationInv, StoppedInv
    <2> QED  BY Zenon, <1>1, <1>4, <2>1, FlagOwner DEF IsolationInv
  <1>5. Entries' = Entries /\ \A u \in Threads : pc'[u] = pc[u] \/ pc'[u] = "idle"
    BY Zenon, <1>1 DEF Entries, CountInv, TypeInv
  <1> QED  BY Zenon, <1>1, <1>3, <1>4, <1>5, ResumeIsolation

\* The restart of the queues of a released file.
LEMMA ReleaseEntryIsolation ==
    ASSUME OwnQueues, CountInv, IsolationInv, NEW f \in Files, ReleaseEntry(f)
    PROVE  IsolationInv'
  <1>1. PICK e \in releasing :
          /\ Resume(e[2])
          /\ releasing' = releasing \ {e}
          /\ UNCHANGED <<pc, target, quiescedNs, dispatching>>
    BY Zenon DEF ReleaseEntry
  <1>2. e \in Entries /\ e[1] \notin open
    BY Zenon DEF CountInv, OpenInv, Entries
  <1>3. PICK u \in Threads : e[1] = FileOf[u] /\ e[2] \in Requests[u]
    BY Zenon, <1>2 DEF IsolationInv, AskedInv
  <1>4. PICK tg \in Requests[u] : tg = e[2]
    BY Zenon, <1>3
  <1>5. stopped' = IF Full(tg) THEN stopped ELSE stopped \ {tg}
    BY Zenon, <1>1, <1>4 DEF Resume
  <1>6. ASSUME ~Full(tg)
        PROVE  /\ \A t \in Threads : pc[t] \in {"unbrief", "add"} => target[t] # tg
               /\ \A q \in quiescedNs : q[2] # tg
    <2>1. FileOf[u] \notin open /\ <<FileOf[u], tg>> \notin quiescedNs
      BY Zenon, <1>2, <1>3 DEF CountInv, OpenInv
    <2>2. pc[u] = "idle"
      BY Zenon, <2>1 DEF CountInv, OpenInv
    <2> QED  BY <1>6, <2>1, <2>2, FlagOwner DEF IsolationInv
  <1>7. Entries' \subseteq Entries
    BY Zenon, <1>1 DEF Entries
  <1> QED  BY <1>1, <1>5, <1>6, <1>7, ResumeIsolation

\* The block layer dispatches only where nothing is isolated.
LEMMA DispatchIsolation ==
    ASSUME OwnQueues, CountInv, IsolationInv, NEW tg \in Bdevs \X Qids, Dispatch(tg)
    PROVE  IsolationInv'
  <1>1. /\ tg \notin stopped /\ dispatching' = dispatching \union {tg}
        /\ UNCHANGED <<pc, target, quiescedNs, releasing, stopped>>
    BY Zenon DEF Dispatch
  <1>2. PICK b \in Bdevs : b = Bd(tg) /\ depth[b] = 0
    BY Zenon DEF Dispatch, Bd
  <1>3. FullEntries(b) = {} /\ Holding(b) = {}
    BY Zenon, <1>2, DepthZero
  <1>4. ASSUME NEW t \in Threads, Bd(target[t]) = b
        PROVE  /\ pc[t] \notin {"stop", "unbrief"}
               /\ ~(pc[t] = "add" /\ Full(target[t]))
    BY Zenon, <1>3, <1>4 DEF Holding, Holds
  <1>5. ASSUME NEW t \in Threads, Bd(target[t]) # b
        PROVE  Drained(Bd(target[t])) => Drained(Bd(target[t]))'
    <2>1. \A q : <<Bd(target[t]), q>> # tg
      BY <1>2, <1>5 DEF Bd
    <2> QED  BY Zenon, <1>1, <2>1 DEF Drained
  <1>6. DrainedInv'
    <2>1. ASSUME NEW t \in Threads
          PROVE  /\ pc[t] \in {"stop", "unbrief"} => Drained(Bd(target[t]))'
                 /\ pc[t] = "add" /\ Full(target[t]) => Drained(Bd(target[t]))'
                 /\ pc[t] = "add" /\ ~Full(target[t]) => target[t] \notin dispatching'
      <3>1. pc[t] = "add" /\ ~Full(target[t]) => target[t] \notin dispatching'
        BY Zenon, <1>1 DEF IsolationInv, StoppedInv, DrainedInv
      <3> QED  BY Zenon, <1>4, <1>5, <3>1 DEF IsolationInv, DrainedInv
    <2> QED  BY Zenon, <1>1, <2>1 DEF DrainedInv
  <1>7. Isolated'
    <2>1. ASSUME NEW e \in quiescedNs, Bd(tg) = Bd(e[2])
          PROVE  ~Full(e[2]) /\ tg # e[2]
      <3>1. e \in Entries /\ e[2] \in Targets
        BY Zenon DEF Entries, CountInv, TypeInv
      <3>2. ~Full(e[2])
        BY <1>2, <1>3, <2>1, <3>1, TargetParts DEF FullEntries
      <3> QED  BY Zenon, <1>1, <3>2 DEF IsolationInv, StoppedInv
    <2> QED  BY Zenon, <1>1, <2>1 DEF IsolationInv, Isolated
  <1>8. AskedInv' /\ StoppedInv'
    BY Zenon, <1>1 DEF IsolationInv, AskedInv, StoppedInv, Entries
  <1> QED  BY Zenon, <1>6, <1>7, <1>8 DEF IsolationInv

\* Release, a new open, the end of a dispatch and stuttering.
LEMMA OtherIsolation ==
    ASSUME OwnQueues, CountInv, IsolationInv,
           \/ \E f \in Files : Release(f) \/ Open(f)
           \/ \E tg \in Bdevs \X Qids : DispatchDone(tg)
           \/ UNCHANGED vars
    PROVE  IsolationInv'
  <1>1. /\ UNCHANGED <<pc, target, stopped>>
        /\ quiescedNs' \subseteq quiescedNs /\ Entries' \subseteq Entries
        /\ dispatching' \subseteq dispatching
    BY Zenon DEF Release, Owned, Open, DispatchDone, vars, Entries
  <1>2. AskedInv' /\ StoppedInv'
    BY Zenon, <1>1 DEF IsolationInv, AskedInv, StoppedInv
  <1>3. DrainedInv' /\ Isolated'
    BY Zenon, <1>1 DEF IsolationInv, DrainedInv, Drained, Isolated
  <1> QED  BY Zenon, <1>2, <1>3 DEF IsolationInv

\* In every behaviour in which no two threads name the same hardware queue, the
\* block layer never dispatches on a hardware queue, or on any queue of a
\* namespace, that an entry of quiesced_ns promises its owner to be isolated.
THEOREM IsolationHolds ==
    ASSUME OwnQueues
    PROVE  Spec => []Isolated
  <1>1. Init => IsolationInv
    BY Zenon DEF Init, IsolationInv, AskedInv, StoppedInv, DrainedInv, Isolated, Entries
  <1>2. CountInv /\ IsolationInv /\ [Next]_vars => IsolationInv'
    <2> SUFFICES ASSUME CountInv, IsolationInv, [Next]_vars PROVE IsolationInv'
      BY Zenon
    <2>1. ASSUME NEW t \in Threads,
                 QuiesceNs(t) \/ UnquiesceNs(t) \/ QuiesceSteps(t) \/ UnquiesceSteps(t)
          PROVE  IsolationInv'
      BY Zenon, <2>1, StartIsolation, QuiesceIsolation, ListAddIsolation,
         UnquiesceFindIsolation, UnquiesceApplyIsolation DEF QuiesceSteps, UnquiesceSteps
    <2>2. ASSUME NEW f \in Files, ReleaseEntry(f)
          PROVE  IsolationInv'
      BY Zenon, <2>2, ReleaseEntryIsolation
    <2>3. ASSUME NEW tg \in Bdevs \X Qids, Dispatch(tg)
          PROVE  IsolationInv'
      BY Zenon, <2>3, DispatchIsolation
    <2> QED  BY Zenon, <2>1, <2>2, <2>3, OtherIsolation DEF Next
  <1>3. IsolationInv => Isolated
    BY Zenon DEF IsolationInv
  <1> QED  BY InitCountInv, NextCountInv, <1>1, <1>2, <1>3, PTL DEF Spec

-----------------------------------------------------------------------------
(* Contiguous DMA allocations.                                             *)

\* The threads that are at step l of a call on allocation i.
AtStep(l, i) == {t \in Callers : step[t] = l /\ ca[t] = i}

\* The reference of kref_init, until FREE or the release has put it.
ListHolds(i) == i \in contig \/ i \in toRelease \/ AtStep("put", i) # {}

Holders(i) ==
    (IF ListHolds(i) THEN 1 ELSE 0) + Cardinality(AtStep("map", i)) + vmas[owner[i]][i]

ContigTypeInv ==
    /\ nextId \in Nat \ {0}
    /\ owner \in [Ids -> CharFiles \union {NoOwner}]
    /\ contig \subseteq Ids /\ live \subseteq Ids
    /\ toRelease \subseteq Ids
    /\ ref \in [Ids -> Int]
    /\ pdevRefs \in Int
    /\ vmas \in [CharFiles -> [Ids -> Nat]]
    /\ step \in [Callers -> {"idle", "listed", "copy", "map", "put"}]
    /\ ca \in [Callers -> Ids \union {0}]

\* An id that was not given out yet is used nowhere.
FreshInv ==
    \A i \in Ids : i >= nextId =>
        /\ i \notin contig /\ i \notin live /\ i \notin toRelease
        /\ \A f \in CharFiles : vmas[f][i] = 0
        /\ \A t \in Callers : step[t] # "idle" => ca[t] # i

\* The three places of the first reference exclude each other.
ListInv ==
    /\ contig \cap toRelease = {}
    /\ \A t \in Callers : step[t] = "put" =>
           /\ ca[t] \notin contig /\ ca[t] \notin toRelease
           /\ \A u \in Callers : step[u] = "put" /\ ca[u] = ca[t] => u = t

\* An allocation is made by one thread, and listed while that thread reads it.
AllocInv ==
    /\ \A t \in Callers : step[t] = "listed" => ca[t] \in contig
    /\ \A t, u \in Callers :
           step[t] \in {"listed", "copy"} /\ step[u] \in {"listed", "copy"} /\ ca[t] = ca[u]
               => t = u

\* Only the owner maps.
OwnerInv ==
    /\ \A i \in live : owner[i] \in CharFiles
    /\ \A t \in Callers : step[t] # "idle" => ca[t] \in Ids /\ CallerFile[t] = owner[ca[t]]
    /\ \A f \in CharFiles, i \in Ids : vmas[f][i] > 0 => f = owner[i]

KrefInv ==
    /\ \A i \in live : ref[i] = Holders(i) /\ ref[i] > 0
    /\ pdevRefs = Cardinality(live)

IInv ==
    /\ ContigTypeInv /\ FreshInv /\ ListInv /\ AllocInv /\ OwnerInv /\ UsedLive /\ KrefInv

-----------------------------------------------------------------------------
(* Sets of threads.                                                        *)

\* A set of threads is finite.
LEMMA ThreadSets ==
    ASSUME NEW S \in SUBSET Callers
    PROVE  /\ Cardinality(S) \in Nat
           /\ Cardinality(S) = 0 <=> S = {}
  <1>1. IsFiniteSet(S)
    BY Zenon, FS_Subset, ContigAssumption
  <1> QED  BY Zenon, <1>1, FS_CardinalityType, FS_EmptySet

\* One thread more or less changes the count by one.
LEMMA OneThread ==
    ASSUME NEW S \in SUBSET Callers, NEW t
    PROVE  /\ t \notin S => Cardinality(S \union {t}) = Cardinality(S) + 1
           /\ t \in S => Cardinality(S \ {t}) = Cardinality(S) - 1
  <1>1. IsFiniteSet(S)
    BY Zenon, FS_Subset, ContigAssumption
  <1> QED  BY Zenon, <1>1, FS_AddElement, FS_RemoveElement

\* The ids are finitely many, and so are the live ones.
LEMMA LiveSets ==
    ASSUME NEW S \in SUBSET Ids, NEW i \in Ids
    PROVE  /\ Cardinality(S) \in Nat
           /\ i \notin S => Cardinality(S \union {i}) = Cardinality(S) + 1
           /\ i \in S => Cardinality(S \ {i}) = Cardinality(S) - 1
  <1>1. IsFiniteSet(Ids)
    BY FS_Interval, ContigAssumption DEF Ids
  <1>2. IsFiniteSet(S)
    BY Zenon, <1>1, FS_Subset
  <1> QED  BY Zenon, <1>2, FS_CardinalityType, FS_AddElement, FS_RemoveElement

\* The three summands of Holders are natural numbers.
LEMMA HoldersNat ==
    ASSUME ContigTypeInv, NEW i \in Ids, owner[i] \in CharFiles
    PROVE  /\ vmas[owner[i]][i] \in Nat
           /\ Cardinality(AtStep("map", i)) \in Nat
           /\ Cardinality(AtStep("map", i)) = 0 <=> AtStep("map", i) = {}
           /\ Holders(i) \in Nat
  <1>1. vmas[owner[i]][i] \in Nat
    BY DEF ContigTypeInv
  <1>2. AtStep("map", i) \in SUBSET Callers
    BY Zenon DEF AtStep
  <1>3. Cardinality(AtStep("map", i)) \in Nat
    BY Zenon, <1>2, ThreadSets
  <1>4. Cardinality(AtStep("map", i)) = 0 <=> AtStep("map", i) = {}
    BY Zenon, <1>2, ThreadSets
  <1>5. Holders(i) \in Nat
    BY <1>1, <1>3 DEF Holders
  <1> QED  BY Zenon, <1>1, <1>3, <1>4, <1>5

-----------------------------------------------------------------------------
(* The initial state.                                                      *)

\* The module's initial state satisfies the invariant.
LEMMA InitIInv == ContigInit => IInv
  <1> SUFFICES ASSUME ContigInit PROVE IInv
    BY Zenon
  <1>1. ContigTypeInv
    BY ContigAssumption DEF ContigInit, ContigTypeInv
  <1>2. FreshInv /\ ListInv /\ AllocInv
    BY DEF ContigInit, FreshInv, ListInv, AllocInv
  <1>3. OwnerInv /\ UsedLive
    BY DEF ContigInit, OwnerInv, UsedLive, Used, Mapped
  <1>4. KrefInv
    BY Zenon, FS_EmptySet DEF ContigInit, KrefInv
  <1> QED  BY Zenon, <1>1, <1>2, <1>3, <1>4 DEF IInv

-----------------------------------------------------------------------------
(* A put.                                                                  *)

\* Somebody gives up his reference on i and puts it: when it was the last one,
\* nobody is left who uses i.
LEMMA PutStep ==
    ASSUME IInv, ContigTypeInv', OwnerInv', NEW i \in live, KrefPut(i), owner' = owner,
           Holders(i)' = Holders(i) - 1,
           \A j \in live \ {i} : Holders(j)' = Holders(j),
           AllocInv',
           \A j \in Ids \ {i} : Used(j)' => Used(j)
    PROVE  UsedLive' /\ KrefInv'
  <1>1. /\ i \in Ids /\ owner[i] \in CharFiles /\ ref[i] = Holders(i) /\ ref[i] > 0
        /\ ref \in [Ids -> Int] /\ live \subseteq Ids /\ pdevRefs = Cardinality(live)
    BY Zenon DEF IInv, ContigTypeInv, OwnerInv, KrefInv
  <1>2. /\ ref' = [ref EXCEPT ![i] = @ - 1] /\ ref'[i] = Holders(i)'
        /\ \A j \in live \ {i} : ref'[j] = Holders(j)' /\ ref'[j] > 0
    BY Zenon, <1>1 DEF KrefPut, IInv, KrefInv
  <1>3. /\ vmas'[owner'[i]][i] \in Nat
        /\ Cardinality(AtStep("map", i)') \in Nat
        /\ Cardinality(AtStep("map", i)') = 0 <=> AtStep("map", i)' = {}
    <2>1. AtStep("map", i)' \in SUBSET Callers
      BY Zenon DEF AtStep
    <2>2. vmas'[owner'[i]][i] \in Nat
      BY <1>1 DEF ContigTypeInv
    <2> QED  BY Zenon, <2>1, <2>2, ThreadSets
  <1>4. CASE ref[i] = 1
    <2>1. live' = live \ {i} /\ pdevRefs' = pdevRefs - 1
      BY Zenon, <1>4 DEF KrefPut, Free
    <2>2. Holders(i)' = 0
      BY <1>1, <1>4
    <2>3. ~ListHolds(i)' /\ AtStep("map", i)' = {} /\ vmas'[owner'[i]][i] = 0
      BY <2>2, <1>3 DEF Holders
    <2>4. ~Used(i)'
      <3>1. i \notin contig' /\ i \notin toRelease' /\ AtStep("put", i)' = {}
        BY Zenon, <2>3 DEF ListHolds
      <3>2. ~Mapped(i)'
        BY <2>3, <1>1 DEF Mapped, OwnerInv
      <3>3. \A t \in Callers : ca'[t] = i => step'[t] \notin {"listed", "map", "put"}
        BY <2>3, <3>1 DEF AtStep, AllocInv
      <3> QED  BY Zenon, <3>1, <3>2, <3>3 DEF Used
    <2>5. UsedLive'
      BY Zenon, <2>1, <2>4 DEF UsedLive, IInv
    <2>6. pdevRefs' = Cardinality(live')
      BY Zenon, <1>1, <2>1, LiveSets
    <2> QED  BY Zenon, <1>2, <2>1, <2>5, <2>6 DEF KrefInv
  <1>5. CASE ref[i] # 1
    <2>1. live' = live /\ pdevRefs' = pdevRefs
      BY Zenon, <1>5 DEF KrefPut
    <2>2. ref'[i] > 0
      BY <1>1, <1>2, <1>5
    <2>3. KrefInv'
      BY Zenon, <1>1, <1>2, <2>1, <2>2 DEF KrefInv
    <2>4. UsedLive'
      BY Zenon, <2>1 DEF UsedLive, IInv
    <2> QED  BY Zenon, <2>3, <2>4
  <1> QED  BY Zenon, <1>4, <1>5

-----------------------------------------------------------------------------
(* One lemma per action.                                                   *)

\* A new id is nobody's, so the list becomes its only holder.
LEMMA AllocContigStep ==
    ASSUME IInv, NEW t \in Callers, AllocContig(t)
    PROVE  IInv'
  <1> USE DEF Goto
  <1>1. PICK n \in Ids :
          /\ n = nextId /\ n \in Nat /\ CallerFile[t] \in CharFiles
          /\ n \notin contig /\ n \notin live /\ n \notin toRelease
          /\ \A f \in CharFiles : vmas[f][n] = 0
          /\ \A u \in Callers : step[u] # "idle" => ca[u] # n
    <2>1. CallerFile[t] \in CharFiles
      BY Zenon, ContigAssumption
    <2>2. nextId \in Ids /\ nextId \in Nat
      BY Zenon DEF IInv, ContigTypeInv, AllocContig
    <2>3. nextId >= nextId
      BY <2>2
    <2> QED  BY Zenon, <2>1, <2>2, <2>3 DEF IInv, FreshInv
  <1>2. ContigTypeInv'
    BY <1>1 DEF IInv, ContigTypeInv, AllocContig
  <1>3. FreshInv'
    BY <1>1 DEF IInv, ContigTypeInv, FreshInv, AllocContig, Ids
  <1>4. ListInv'
    BY <1>1 DEF IInv, ContigTypeInv, ListInv, AllocContig
  <1>5. AllocInv'
    BY <1>1 DEF IInv, ContigTypeInv, AllocInv, AllocContig
  <1>6. OwnerInv'
    BY <1>1 DEF IInv, ContigTypeInv, OwnerInv, AllocContig
  <1>7. UsedLive'
    BY Zenon, <1>1 DEF IInv, ContigTypeInv, UsedLive, Used, Mapped, AllocContig
  <1>8. KrefInv'
    <2>1. \A i \in Ids : /\ AtStep("map", i)' = AtStep("map", i)
                         /\ AtStep("put", i)' = AtStep("put", i)
      BY Zenon DEF IInv, ContigTypeInv, AtStep, AllocContig
    <2>2. \A i \in live : Holders(i)' = Holders(i)
      <3> SUFFICES ASSUME NEW i \in live PROVE Holders(i)' = Holders(i)
        BY Zenon
      <3>1. i # n /\ i \in Ids
        BY Zenon, <1>1 DEF IInv, ContigTypeInv
      <3>2. owner'[i] = owner[i] /\ vmas' = vmas /\ (ListHolds(i)' <=> ListHolds(i))
        BY Zenon, <1>1, <3>1, <2>1 DEF IInv, ContigTypeInv, ListHolds, AllocContig
      <3> QED  BY Zenon, <3>1, <3>2, <2>1 DEF Holders
    <2>3. Holders(n)' = 1
      <3>1. ListHolds(n)' /\ owner'[n] = CallerFile[t] /\ vmas'[CallerFile[t]][n] = 0
        BY Zenon, <1>1 DEF IInv, ContigTypeInv, ListHolds, AllocContig
      <3>2. AtStep("map", n)' = {}
        BY <1>1, <2>1 DEF AtStep
      <3> QED  BY <3>1, <3>2, FS_EmptySet DEF Holders
    <2>4. ref'[n] = 1 /\ \A i \in live : ref'[i] = ref[i]
      BY <1>1 DEF IInv, ContigTypeInv, AllocContig
    <2>5. pdevRefs' = Cardinality(live')
      BY Zenon, <1>1, LiveSets DEF IInv, ContigTypeInv, KrefInv, AllocContig
    <2>6. \A i \in live' : ref'[i] = Holders(i)' /\ ref'[i] > 0
      BY <1>1, <2>2, <2>3, <2>4 DEF IInv, KrefInv, AllocContig
    <2> QED  BY Zenon, <2>5, <2>6 DEF KrefInv
  <1> QED  BY Zenon, <1>2, <1>3, <1>4, <1>5, <1>6, <1>7, <1>8 DEF IInv

\* The thread that lists an entry has no reference of its own on it.
LEMMA ReadIdStep ==
    ASSUME IInv, NEW t \in Callers, ReadId(t)
    PROVE  IInv'
  <1> USE DEF Goto
  <1>2. ContigTypeInv' /\ ListInv'
    BY DEF IInv, ContigTypeInv, ListInv, ReadId
  <1>3. FreshInv'
    BY DEF IInv, ContigTypeInv, FreshInv, ReadId
  <1>4. AllocInv'
    BY DEF IInv, ContigTypeInv, AllocInv, ReadId
  <1>5. OwnerInv'
    BY Zenon DEF IInv, ContigTypeInv, OwnerInv, ReadId
  <1>6. UsedLive'
    <2>1. \A i \in Ids : Used(i)' => Used(i)
      BY DEF IInv, ContigTypeInv, Used, Mapped, ReadId
    <2> QED  BY Zenon, <2>1 DEF IInv, UsedLive, ReadId
  <1>7. KrefInv'
    <2>1. \A i \in Ids : /\ AtStep("map", i)' = AtStep("map", i)
                         /\ AtStep("put", i)' = AtStep("put", i)
      BY Zenon DEF IInv, ContigTypeInv, AtStep, ReadId
    <2>2. \A i \in live : Holders(i)' = Holders(i)
      BY Zenon, <2>1 DEF IInv, ContigTypeInv, Holders, ListHolds, ReadId
    <2> QED  BY Zenon, <2>2 DEF IInv, KrefInv, ReadId
  <1> QED  BY Zenon, <1>2, <1>3, <1>4, <1>5, <1>6, <1>7 DEF IInv

\* Telling the id changes no holder.
LEMMA CopyToUserStep ==
    ASSUME IInv, NEW t \in Callers, CopyToUser(t)
    PROVE  IInv'
  <1> USE DEF Goto
  <1>2. ContigTypeInv' /\ ListInv'
    BY DEF IInv, ContigTypeInv, ListInv, CopyToUser
  <1>3. FreshInv'
    BY DEF IInv, ContigTypeInv, FreshInv, CopyToUser
  <1>4. AllocInv'
    BY DEF IInv, ContigTypeInv, AllocInv, CopyToUser
  <1>5. OwnerInv'
    BY Zenon DEF IInv, ContigTypeInv, OwnerInv, CopyToUser
  <1>6. UsedLive'
    <2>1. \A i \in Ids : Used(i)' => Used(i)
      BY DEF IInv, ContigTypeInv, Used, Mapped, CopyToUser
    <2> QED  BY Zenon, <2>1 DEF IInv, UsedLive, CopyToUser
  <1>7. KrefInv'
    <2>1. \A i \in Ids : /\ AtStep("map", i)' = AtStep("map", i)
                         /\ AtStep("put", i)' = AtStep("put", i)
      BY Zenon DEF IInv, ContigTypeInv, AtStep, CopyToUser
    <2>2. \A i \in live : Holders(i)' = Holders(i)
      BY Zenon, <2>1 DEF IInv, ContigTypeInv, Holders, ListHolds, CopyToUser
    <2> QED  BY Zenon, <2>2 DEF IInv, KrefInv, CopyToUser
  <1> QED  BY Zenon, <1>2, <1>3, <1>4, <1>5, <1>6, <1>7 DEF IInv

\* The entry has no holder but the list, unless the ALLOC was overtaken.
LEMMA CopyToUserFailsStep ==
    ASSUME IInv, NEW t \in Callers, CopyToUserFails(t), ~overtaken'
    PROVE  IInv'
  <1> USE DEF Goto
  <1> DEFINE i == ca[t]
  <1>1. /\ i \in Ids /\ i \in contig /\ i \in live /\ i \notin toRelease
        /\ \A u \in Callers : step[u] \in {"listed", "map", "put"} => ca[u] # i
        /\ \A f \in CharFiles : vmas[f][i] = 0
    <2>1. i \in contig /\ ref[i] = 1
      BY Zenon DEF CopyToUserFails, OnlyListed
    <2>2. i \in Ids /\ i \in live /\ i \notin toRelease /\ owner[i] \in CharFiles
      BY Zenon, <2>1 DEF IInv, ContigTypeInv, ListInv, OwnerInv, UsedLive, Used
    <2>3. Holders(i) = 1 /\ ListHolds(i)
      BY Zenon, <2>1, <2>2 DEF IInv, KrefInv, ListHolds
    <2>4. AtStep("map", i) = {} /\ vmas[owner[i]][i] = 0
      <3>1. /\ vmas[owner[i]][i] \in Nat /\ Cardinality(AtStep("map", i)) \in Nat
            /\ Cardinality(AtStep("map", i)) = 0 <=> AtStep("map", i) = {}
        BY Zenon, <2>2, HoldersNat DEF IInv
      <3> HIDE DEF i
      <3> QED  BY <2>3, <3>1 DEF Holders
    <2>5. \A f \in CharFiles : vmas[f][i] = 0
      BY <2>2, <2>4 DEF IInv, ContigTypeInv, OwnerInv
    <2>6. ASSUME NEW u \in Callers, step[u] \in {"listed", "map", "put"}, ca[u] = i PROVE FALSE
      <3>1. CASE step[u] = "map"
        BY Zenon, <2>4, <2>6, <3>1 DEF AtStep
      <3>2. CASE step[u] = "put"
        BY Zenon, <2>1, <2>6, <3>2 DEF IInv, ListInv
      <3>3. CASE step[u] = "listed"
        <4>1. step[t] = "copy"
          BY Zenon DEF CopyToUserFails
        <4>2. u = t
          BY <2>6, <3>3, <4>1 DEF IInv, AllocInv
        <4> QED  BY <3>3, <4>1, <4>2
      <3> QED  BY <2>6, <3>1, <3>2, <3>3
    <2> QED  BY Zenon, <2>1, <2>2, <2>5, <2>6
  <1>2. ContigTypeInv' /\ ListInv'
    BY <1>1 DEF IInv, ContigTypeInv, ListInv, CopyToUserFails, Free
  <1>3. FreshInv'
    BY <1>1 DEF IInv, ContigTypeInv, FreshInv, CopyToUserFails, Free
  <1>4. AllocInv'
    BY <1>1 DEF IInv, ContigTypeInv, AllocInv, CopyToUserFails
  <1>5. OwnerInv'
    BY Zenon, <1>1 DEF IInv, ContigTypeInv, OwnerInv, CopyToUserFails, Free
  <1>6. UsedLive'
    <2>1. ~Used(i)'
      BY <1>1 DEF IInv, ContigTypeInv, Used, Mapped, CopyToUserFails
    <2>2. \A j \in Ids : Used(j)' => Used(j)
      BY <1>1 DEF IInv, ContigTypeInv, Used, Mapped, CopyToUserFails
    <2> QED  BY Zenon, <2>1, <2>2 DEF IInv, UsedLive, CopyToUserFails, Free
  <1>7. KrefInv'
    <2>1. \A j \in Ids : /\ AtStep("map", j)' = AtStep("map", j)
                         /\ AtStep("put", j)' = AtStep("put", j)
      BY Zenon DEF IInv, ContigTypeInv, AtStep, CopyToUserFails
    <2>2. \A j \in live \ {i} : Holders(j)' = Holders(j)
      BY Zenon, <2>1 DEF IInv, ContigTypeInv, Holders, ListHolds, CopyToUserFails
    <2>3. pdevRefs' = Cardinality(live')
      BY Zenon, <1>1, LiveSets DEF IInv, ContigTypeInv, KrefInv, CopyToUserFails, Free
    <2> QED  BY Zenon, <2>2, <2>3 DEF IInv, KrefInv, CopyToUserFails, Free
  <1> QED  BY Zenon, <1>2, <1>3, <1>4, <1>5, <1>6, <1>7 DEF IInv

\* The lookup succeeds only for the owner of a listed entry, which is live.
LEMMA MmapContigStep ==
    ASSUME IInv, NEW t \in Callers, NEW i \in Ids, MmapContig(t, i)
    PROVE  IInv'
  <1> USE DEF Goto, MmapGet, KrefGet, MayUse
  <1>1. /\ step[t] = "idle" /\ i \in contig /\ i \in live /\ owner[i] = CallerFile[t]
        /\ ref \in [Ids -> Int] /\ live \subseteq Ids
    BY Zenon DEF IInv, ContigTypeInv, UsedLive, Used, MmapContig
  <1>2. ContigTypeInv'
    BY <1>1 DEF IInv, ContigTypeInv, MmapContig
  <1>3. ListInv' /\ AllocInv'
    BY <1>1 DEF IInv, ContigTypeInv, ListInv, AllocInv, MmapContig
  <1>4. FreshInv'
    BY <1>1 DEF IInv, ContigTypeInv, FreshInv, MmapContig
  <1>5. OwnerInv'
    BY Zenon, <1>1 DEF IInv, ContigTypeInv, OwnerInv, MmapContig
  <1>6. UsedLive'
    BY Zenon, <1>1 DEF IInv, ContigTypeInv, UsedLive, Used, Mapped, MmapContig
  <1>7. KrefInv'
    <2>1. \A j \in Ids : AtStep("put", j)' = AtStep("put", j)
      BY Zenon, <1>1 DEF IInv, ContigTypeInv, AtStep, MmapContig
    <2>2. \A j \in Ids \ {i} : AtStep("map", j)' = AtStep("map", j)
      BY Zenon, <1>1 DEF IInv, ContigTypeInv, AtStep, MmapContig
    <2>3. AtStep("map", i)' = AtStep("map", i) \union {t} /\ t \notin AtStep("map", i)
      BY Zenon, <1>1 DEF IInv, ContigTypeInv, AtStep, MmapContig
    <2>4. Cardinality(AtStep("map", i)') = Cardinality(AtStep("map", i)) + 1
      <3>1. AtStep("map", i) \in SUBSET Callers
        BY Zenon DEF AtStep
      <3> QED  BY Zenon, <2>3, <3>1, OneThread
    <2>5. \A j \in live \ {i} : Holders(j)' = Holders(j)
      BY Zenon, <1>1, <2>1, <2>2 DEF Holders, ListHolds, MmapContig
    <2>6. Holders(i)' = Holders(i) + 1
      <3>1. owner' = owner /\ vmas' = vmas /\ (ListHolds(i)' <=> ListHolds(i))
        BY Zenon, <2>1 DEF ListHolds, MmapContig
      <3>2. vmas[owner[i]][i] \in Nat /\ Cardinality(AtStep("map", i)) \in Nat
        BY Zenon, <1>1, HoldersNat DEF IInv, OwnerInv
      <3> QED  BY <2>4, <3>1, <3>2 DEF Holders
    <2>7. ref'[i] = ref[i] + 1 /\ \A j \in live \ {i} : ref'[j] = ref[j]
      BY Zenon, <1>1 DEF MmapContig
    <2>8. ref[i] \in Int
      BY Zenon, <1>1
    <2> QED  BY <1>1, <2>5, <2>6, <2>7, <2>8 DEF IInv, KrefInv, MmapContig
  <1> QED  BY Zenon, <1>2, <1>3, <1>4, <1>5, <1>6, <1>7 DEF IInv

\* The thread hands its reference to the mapping.
LEMMA MmapDoneStep ==
    ASSUME IInv, NEW t \in Callers, MmapDone(t)
    PROVE  IInv'
  <1> USE DEF Goto
  <1>1. PICK i \in Ids : /\ i = ca[t] /\ i \in live
                         /\ owner[i] = CallerFile[t] /\ CallerFile[t] \in CharFiles
    <2>1. CallerFile[t] \in CharFiles
      BY Zenon, ContigAssumption
    <2>2. ca[t] \in Ids /\ owner[ca[t]] = CallerFile[t]
      BY Zenon DEF IInv, ContigTypeInv, AllocInv, OwnerInv, MmapDone
    <2>3. ca[t] \in live
      BY Zenon, <2>2 DEF IInv, UsedLive, Used, MmapDone
    <2> QED  BY Zenon, <2>1, <2>2, <2>3
  <1>2. /\ vmas \in [CharFiles -> [Ids -> Nat]] /\ vmas' \in [CharFiles -> [Ids -> Nat]]
        /\ vmas'[owner[i]][i] = vmas[owner[i]][i] + 1
        /\ \A f \in CharFiles, j \in Ids : f # owner[i] \/ j # i => vmas'[f][j] = vmas[f][j]
    BY <1>1 DEF IInv, ContigTypeInv, MmapDone
  <1>3. ContigTypeInv'
    BY Zenon, <1>2 DEF IInv, ContigTypeInv, MmapDone
  <1>4. ListInv'
    BY Zenon DEF IInv, ContigTypeInv, ListInv, MmapDone
  <1>5. AllocInv'
    BY <1>1, <1>2 DEF IInv, ContigTypeInv, AllocInv, MmapDone
  <1>6. FreshInv'
    BY <1>1, <1>2 DEF IInv, ContigTypeInv, FreshInv, MmapDone
  <1>7. OwnerInv'
    BY <1>1, <1>2 DEF IInv, ContigTypeInv, OwnerInv, MmapDone
  <1>8. UsedLive'
    <2>1. \A j \in Ids \ {i} : Used(j)' => Used(j)
      BY <1>1, <1>2 DEF IInv, ContigTypeInv, Used, Mapped, MmapDone
    <2> QED  BY Zenon, <1>1, <2>1 DEF IInv, UsedLive, MmapDone
  <1>9. KrefInv'
    <2>1. \A j \in Ids : AtStep("put", j)' = AtStep("put", j)
      BY Zenon DEF IInv, ContigTypeInv, AtStep, MmapDone
    <2>2. \A j \in Ids \ {i} : AtStep("map", j)' = AtStep("map", j)
      BY Zenon, <1>1 DEF IInv, ContigTypeInv, AtStep, MmapDone
    <2>3. AtStep("map", i)' = AtStep("map", i) \ {t} /\ t \in AtStep("map", i)
      BY Zenon, <1>1 DEF IInv, ContigTypeInv, AtStep, MmapDone
    <2>4. Cardinality(AtStep("map", i)') = Cardinality(AtStep("map", i)) - 1
      <3>1. AtStep("map", i) \in SUBSET Callers
        BY Zenon DEF AtStep
      <3> QED  BY Zenon, <2>3, <3>1, OneThread
    <2>5. \A j \in live \ {i} : Holders(j)' = Holders(j)
      <3> SUFFICES ASSUME NEW j \in live \ {i} PROVE Holders(j)' = Holders(j)
        BY Zenon
      <3>1. j \in Ids /\ owner[j] \in CharFiles
        BY Zenon DEF IInv, ContigTypeInv, OwnerInv
      <3>2. vmas'[owner[j]][j] = vmas[owner[j]][j]
        BY Zenon, <1>2, <3>1
      <3> QED  BY Zenon, <2>1, <2>2, <3>1, <3>2 DEF Holders, ListHolds, MmapDone
    <2>6. Holders(i)' = Holders(i)
      <3>1. owner' = owner /\ (ListHolds(i)' <=> ListHolds(i))
        BY Zenon, <2>1 DEF ListHolds, MmapDone
      <3>2. vmas[owner[i]][i] \in Nat /\ Cardinality(AtStep("map", i)) \in Nat
        BY Zenon, <1>1, HoldersNat DEF IInv, OwnerInv
      <3>3. vmas'[owner'[i]][i] = vmas[owner[i]][i] + 1
        BY Zenon, <1>2, <3>1
      <3> QED  BY <2>4, <3>1, <3>2, <3>3 DEF Holders
    <2> QED  BY Zenon, <2>5, <2>6 DEF IInv, KrefInv, MmapDone
  <1> QED  BY Zenon, <1>3, <1>4, <1>5, <1>6, <1>7, <1>8, <1>9 DEF IInv

\* The thread puts the reference its lookup took.
LEMMA MmapFailsStep ==
    ASSUME IInv, NEW t \in Callers, MmapFails(t)
    PROVE  IInv'
  <1> USE DEF Goto
  <1>1. PICK i \in Ids : i = ca[t] /\ i \in live /\ owner[i] \in CharFiles
    <2>1. ca[t] \in Ids
      BY Zenon DEF IInv, ContigTypeInv, AllocInv, OwnerInv, MmapFails
    <2>2. ca[t] \in live
      BY Zenon, <2>1 DEF IInv, UsedLive, Used, MmapFails
    <2> QED  BY Zenon, <2>1, <2>2 DEF IInv, OwnerInv
  <1>2. ref' \in [Ids -> Int] /\ live' \subseteq live /\ pdevRefs' \in Int
    BY <1>1 DEF IInv, ContigTypeInv, MmapFails, KrefPut, Free
  <1>3. ContigTypeInv'
    BY Zenon, <1>2 DEF IInv, ContigTypeInv, MmapFails
  <1>4. ListInv' /\ AllocInv'
    BY DEF IInv, ContigTypeInv, ListInv, AllocInv, MmapFails
  <1>5. FreshInv'
    BY <1>2 DEF IInv, ContigTypeInv, FreshInv, MmapFails
  <1>6. OwnerInv'
    BY Zenon, <1>2 DEF IInv, ContigTypeInv, OwnerInv, MmapFails
  <1>7. UsedLive' /\ KrefInv'
    <2>1. \A j \in Ids : AtStep("put", j)' = AtStep("put", j)
      BY Zenon DEF IInv, ContigTypeInv, AtStep, MmapFails
    <2>2. \A j \in Ids \ {i} : AtStep("map", j)' = AtStep("map", j)
      BY Zenon, <1>1 DEF IInv, ContigTypeInv, AtStep, MmapFails
    <2>3. AtStep("map", i)' = AtStep("map", i) \ {t} /\ t \in AtStep("map", i)
      BY Zenon, <1>1 DEF IInv, ContigTypeInv, AtStep, MmapFails
    <2>4. Cardinality(AtStep("map", i)') = Cardinality(AtStep("map", i)) - 1
      <3>1. AtStep("map", i) \in SUBSET Callers
        BY Zenon DEF AtStep
      <3> QED  BY Zenon, <2>3, <3>1, OneThread
    <2>5. \A j \in live \ {i} : Holders(j)' = Holders(j)
      BY Zenon, <2>1, <2>2 DEF IInv, ContigTypeInv, Holders, ListHolds, MmapFails
    <2>6. Holders(i)' = Holders(i) - 1
      <3>1. owner' = owner /\ vmas' = vmas /\ (ListHolds(i)' <=> ListHolds(i))
        BY Zenon, <2>1 DEF ListHolds, MmapFails
      <3>2. vmas[owner[i]][i] \in Nat /\ Cardinality(AtStep("map", i)) \in Nat
        BY Zenon, <1>1, HoldersNat DEF IInv
      <3> QED  BY <2>4, <3>1, <3>2 DEF Holders
    <2>7. AllocInv'
      BY Zenon, <1>4
    <2>8. \A j \in Ids \ {i} : Used(j)' => Used(j)
      BY Zenon, <1>1 DEF IInv, ContigTypeInv, Used, Mapped, MmapFails
    <2>9. KrefPut(i) /\ owner' = owner
      BY Zenon, <1>1 DEF MmapFails
    <2> QED  BY Zenon, <1>1, <1>3, <1>6, <2>5, <2>6, <2>7, <2>8, <2>9, PutStep
  <1> QED  BY <1>3, <1>4, <1>5, <1>6, <1>7 DEF IInv

\* A copied VMA takes a reference of its own.
LEMMA ContigVmaOpenStep ==
    ASSUME IInv, NEW f \in CharFiles, NEW i \in Ids, ContigVmaOpen(f, i)
    PROVE  IInv'
  <1> USE DEF KrefGet
  <1>1. vmas[f][i] > 0 /\ i \in live /\ owner[i] = f /\ ref[i] \in Int
    <2>1. vmas[f][i] > 0
      BY ContigAssumption DEF ContigVmaOpen
    <2> QED  BY Zenon, <2>1 DEF IInv, ContigTypeInv, AllocInv, OwnerInv, UsedLive, Used, Mapped
  <1>2. /\ vmas \in [CharFiles -> [Ids -> Nat]] /\ vmas' \in [CharFiles -> [Ids -> Nat]]
        /\ vmas'[f][i] = vmas[f][i] + 1
        /\ \A g \in CharFiles, j \in Ids : g # f \/ j # i => vmas'[g][j] = vmas[g][j]
    BY DEF IInv, ContigTypeInv, ContigVmaOpen
  <1>3. ref' \in [Ids -> Int] /\ ref'[i] = ref[i] + 1 /\ \A j \in Ids \ {i} : ref'[j] = ref[j]
    BY DEF IInv, ContigTypeInv, ContigVmaOpen
  <1>4. ContigTypeInv'
    BY Zenon, <1>2, <1>3 DEF IInv, ContigTypeInv, ContigVmaOpen
  <1>5. ListInv' /\ AllocInv'
    BY <1>1, <1>2 DEF IInv, ListInv, AllocInv, ContigVmaOpen
  <1>6. FreshInv'
    BY <1>1, <1>2 DEF IInv, FreshInv, ContigVmaOpen
  <1>7. OwnerInv'
    BY <1>1, <1>2 DEF IInv, OwnerInv, ContigVmaOpen
  <1>8. UsedLive'
    <2>1. \A j \in Ids \ {i} : Used(j)' => Used(j)
      BY <1>2 DEF Used, Mapped, ContigVmaOpen
    <2> QED  BY Zenon, <1>1, <2>1 DEF IInv, UsedLive, ContigVmaOpen
  <1>9. KrefInv'
    <2>1. \A j \in Ids : /\ AtStep("map", j)' = AtStep("map", j)
                         /\ (ListHolds(j)' <=> ListHolds(j))
      BY Zenon DEF AtStep, ListHolds, ContigVmaOpen
    <2>2. \A j \in live \ {i} : Holders(j)' = Holders(j)
      <3> SUFFICES ASSUME NEW j \in live \ {i} PROVE Holders(j)' = Holders(j)
        BY Zenon
      <3>1. j \in Ids /\ owner[j] \in CharFiles /\ owner' = owner
        BY Zenon DEF IInv, ContigTypeInv, OwnerInv, ContigVmaOpen
      <3>2. vmas'[owner'[j]][j] = vmas[owner[j]][j]
        BY Zenon, <1>2, <3>1
      <3> QED  BY Zenon, <2>1, <3>1, <3>2 DEF Holders
    <2>3. Holders(i)' = Holders(i) + 1
      <3>1. vmas'[owner'[i]][i] = vmas[owner[i]][i] + 1
        BY Zenon, <1>1, <1>2 DEF ContigVmaOpen
      <3>2. vmas[owner[i]][i] \in Nat /\ Cardinality(AtStep("map", i)) \in Nat
        BY Zenon, <1>1, HoldersNat DEF IInv
      <3> QED  BY <2>1, <3>1, <3>2 DEF Holders
    <2>4. \A j \in live \ {i} : ref'[j] = ref[j]
      BY Zenon, <1>3 DEF IInv, ContigTypeInv
    <2> QED  BY <1>1, <1>3, <2>2, <2>3, <2>4 DEF IInv, KrefInv, ContigVmaOpen
  <1> QED  BY Zenon, <1>4, <1>5, <1>6, <1>7, <1>8, <1>9 DEF IInv

\* A VMA that goes away puts its reference.
LEMMA ContigVmaCloseStep ==
    ASSUME IInv, NEW f \in CharFiles, NEW i \in Ids, ContigVmaClose(f, i)
    PROVE  IInv'
  <1>1. vmas[f][i] > 0 /\ i \in live /\ owner[i] = f
    BY Zenon DEF ContigVmaClose, IInv, AllocInv, OwnerInv, UsedLive, Used, Mapped
  <1>2. /\ vmas \in [CharFiles -> [Ids -> Nat]] /\ vmas' \in [CharFiles -> [Ids -> Nat]]
        /\ vmas'[f][i] = vmas[f][i] - 1
        /\ \A g \in CharFiles, j \in Ids : g # f \/ j # i => vmas'[g][j] = vmas[g][j]
    BY <1>1 DEF IInv, ContigTypeInv, ContigVmaClose
  <1>3. \A g \in CharFiles, j \in Ids : vmas'[g][j] > 0 => vmas[g][j] > 0
    BY Zenon, <1>1, <1>2
  <1>4. ref' \in [Ids -> Int] /\ live' \subseteq live /\ pdevRefs' \in Int
    BY DEF IInv, ContigTypeInv, ContigVmaClose, KrefPut, Free
  <1>5. ContigTypeInv'
    BY Zenon, <1>2, <1>4 DEF IInv, ContigTypeInv, ContigVmaClose
  <1>6. ListInv' /\ AllocInv'
    BY Zenon, <1>3 DEF IInv, ListInv, AllocInv, ContigVmaClose
  <1>7. FreshInv'
    BY <1>2, <1>3, <1>4 DEF IInv, FreshInv, ContigVmaClose
  <1>8. OwnerInv'
    BY Zenon, <1>3, <1>4 DEF IInv, OwnerInv, ContigVmaClose
  <1>9. UsedLive' /\ KrefInv'
    <2>1. \A j \in Ids : /\ AtStep("map", j)' = AtStep("map", j)
                         /\ (ListHolds(j)' <=> ListHolds(j))
      BY Zenon DEF AtStep, ListHolds, ContigVmaClose
    <2>2. \A j \in live \ {i} : Holders(j)' = Holders(j)
      <3> SUFFICES ASSUME NEW j \in live \ {i} PROVE Holders(j)' = Holders(j)
        BY Zenon
      <3>1. j \in Ids /\ owner[j] \in CharFiles /\ owner' = owner
        BY Zenon DEF IInv, ContigTypeInv, OwnerInv, ContigVmaClose
      <3>2. vmas'[owner'[j]][j] = vmas[owner[j]][j]
        BY Zenon, <1>2, <3>1
      <3> QED  BY Zenon, <2>1, <3>1, <3>2 DEF Holders
    <2>3. Holders(i)' = Holders(i) - 1
      <3>1. vmas'[owner'[i]][i] = vmas[owner[i]][i] - 1
        BY Zenon, <1>1, <1>2 DEF ContigVmaClose
      <3>2. vmas[owner[i]][i] \in Nat /\ Cardinality(AtStep("map", i)) \in Nat
        BY Zenon, <1>1, HoldersNat DEF IInv
      <3> QED  BY <2>1, <3>1, <3>2 DEF Holders
    <2>4. AllocInv'
      BY Zenon, <1>6
    <2>5. \A j \in Ids \ {i} : Used(j)' => Used(j)
      BY Zenon, <1>3 DEF Used, Mapped, ContigVmaClose
    <2>6. KrefPut(i) /\ owner' = owner
      BY Zenon DEF ContigVmaClose
    <2> QED  BY Zenon, <1>1, <1>5, <1>8, <2>2, <2>3, <2>4, <2>5, <2>6, PutStep
  <1> QED  BY Zenon, <1>5, <1>6, <1>7, <1>8, <1>9 DEF IInv

\* The list's reference passes to the thread; no ALLOC is still reading the entry.
LEMMA FreeContigStep ==
    ASSUME IInv, NEW t \in Callers, NEW i \in Ids, FreeContig(t, i), ~overtaken'
    PROVE  IInv'
  <1> USE DEF Goto, MayUse
  <1>1. step[t] = "idle" /\ i \in contig /\ i \in live /\ owner[i] = CallerFile[t]
    BY Zenon DEF IInv, UsedLive, Used, FreeContig
  <1>2. ContigTypeInv'
    BY Zenon, <1>1 DEF IInv, ContigTypeInv, FreeContig
  <1>3. ListInv'
    BY <1>1 DEF IInv, ContigTypeInv, ListInv, FreeContig
  <1>4. AllocInv'
    <2>1. \A u \in Callers : step[u] = "listed" => ca[u] # i
      BY Zenon DEF FreeContig
    <2>2. /\ step' = [step EXCEPT ![t] = "put"] /\ ca' = [ca EXCEPT ![t] = i]
          /\ contig' = contig \ {i}
      BY Zenon DEF FreeContig
    <2> QED  BY <1>1, <2>1, <2>2 DEF IInv, ContigTypeInv, AllocInv
  <1>5. FreshInv'
    BY <1>1 DEF IInv, ContigTypeInv, FreshInv, FreeContig
  <1>6. OwnerInv'
    BY Zenon, <1>1 DEF IInv, ContigTypeInv, OwnerInv, FreeContig
  <1>7. UsedLive'
    BY Zenon, <1>1 DEF IInv, ContigTypeInv, UsedLive, Used, Mapped, FreeContig
  <1>8. KrefInv'
    <2>1. \A j \in Ids : AtStep("map", j)' = AtStep("map", j)
      BY Zenon, <1>1 DEF IInv, ContigTypeInv, AtStep, FreeContig
    <2>2. \A j \in Ids \ {i} : AtStep("put", j)' = AtStep("put", j)
      BY Zenon, <1>1 DEF IInv, ContigTypeInv, AtStep, FreeContig
    <2>3. t \in AtStep("put", i)'
      BY Zenon, <1>1 DEF IInv, ContigTypeInv, AtStep, FreeContig
    <2>4. \A j \in Ids : ListHolds(j)' <=> ListHolds(j)
      BY Zenon, <1>1, <2>2, <2>3 DEF ListHolds, FreeContig
    <2>5. \A j \in live : Holders(j)' = Holders(j)
      BY Zenon, <2>1, <2>4 DEF IInv, ContigTypeInv, Holders, FreeContig
    <2> QED  BY Zenon, <2>5 DEF IInv, KrefInv, FreeContig
  <1> QED  BY Zenon, <1>2, <1>3, <1>4, <1>5, <1>6, <1>7, <1>8 DEF IInv

\* FREE_CONTIG_QUEUE puts the list's reference after it dropped the lock.
LEMMA FreePutStep ==
    ASSUME IInv, NEW t \in Callers, FreePut(t)
    PROVE  IInv'
  <1> USE DEF Goto
  <1>1. PICK i \in Ids : /\ i = ca[t] /\ i \in live /\ owner[i] \in CharFiles
                         /\ i \notin contig /\ i \notin toRelease
                         /\ \A u \in Callers : step[u] = "put" /\ ca[u] = i => u = t
    <2>1. ca[t] \in Ids
      BY Zenon DEF IInv, ContigTypeInv, AllocInv, OwnerInv, FreePut
    <2>2. ca[t] \in live
      BY Zenon, <2>1 DEF IInv, UsedLive, Used, FreePut
    <2> QED  BY Zenon, <2>1, <2>2 DEF IInv, OwnerInv, ListInv, FreePut
  <1>2. ref' \in [Ids -> Int] /\ live' \subseteq live /\ pdevRefs' \in Int
    BY <1>1 DEF IInv, ContigTypeInv, FreePut, KrefPut, Free
  <1>3. ContigTypeInv'
    BY Zenon, <1>2 DEF IInv, ContigTypeInv, FreePut
  <1>4. ListInv' /\ AllocInv'
    BY DEF IInv, ContigTypeInv, ListInv, AllocInv, FreePut
  <1>5. FreshInv'
    BY <1>2 DEF IInv, ContigTypeInv, FreshInv, FreePut
  <1>6. OwnerInv'
    BY Zenon, <1>2 DEF IInv, ContigTypeInv, OwnerInv, FreePut
  <1>7. UsedLive' /\ KrefInv'
    <2>1. \A j \in Ids : AtStep("map", j)' = AtStep("map", j)
      BY Zenon DEF IInv, ContigTypeInv, AtStep, FreePut
    <2>2. \A j \in Ids \ {i} : AtStep("put", j)' = AtStep("put", j)
      BY Zenon, <1>1 DEF IInv, ContigTypeInv, AtStep, FreePut
    <2>3. t \in AtStep("put", i) /\ AtStep("put", i)' = {}
      BY Zenon, <1>1 DEF IInv, ContigTypeInv, AtStep, FreePut
    <2>4. ListHolds(i) /\ ~ListHolds(i)'
      BY Zenon, <1>1, <2>3 DEF ListHolds, FreePut
    <2>5. \A j \in live \ {i} : Holders(j)' = Holders(j)
      BY Zenon, <2>1, <2>2 DEF IInv, ContigTypeInv, Holders, ListHolds, FreePut
    <2>6. Holders(i)' = Holders(i) - 1
      <3>1. owner' = owner /\ vmas' = vmas
        BY Zenon DEF FreePut
      <3>2. vmas[owner[i]][i] \in Nat /\ Cardinality(AtStep("map", i)) \in Nat
        BY Zenon, <1>1, HoldersNat DEF IInv
      <3> QED  BY <2>1, <2>4, <3>1, <3>2 DEF Holders
    <2>7. AllocInv'
      BY Zenon, <1>4
    <2>8. \A j \in Ids \ {i} : Used(j)' => Used(j)
      BY Zenon, <1>1 DEF IInv, ContigTypeInv, Used, Mapped, FreePut
    <2>9. KrefPut(i) /\ owner' = owner
      BY Zenon, <1>1 DEF FreePut
    <2> QED  BY Zenon, <1>1, <1>3, <1>6, <2>5, <2>6, <2>7, <2>8, <2>9, PutStep
  <1> QED  BY <1>3, <1>4, <1>5, <1>6, <1>7 DEF IInv

\* Closing a descriptor moves no reference.
LEMMA CloseStep ==
    ASSUME IInv, NEW f \in CharFiles, Close(f)
    PROVE  IInv'
  <1>1. ContigTypeInv' /\ FreshInv' /\ ListInv' /\ AllocInv' /\ OwnerInv'
    BY DEF IInv, ContigTypeInv, FreshInv, ListInv, AllocInv, OwnerInv, Close
  <1>2. UsedLive'
    BY Zenon DEF IInv, UsedLive, Used, Mapped, Close
  <1>3. KrefInv'
    BY DEF IInv, KrefInv, Holders, ListHolds, AtStep, Close
  <1> QED  BY Zenon, <1>1, <1>2, <1>3 DEF IInv

\* The list's references pass to the private list.  No call of the file runs,
\* so none of its entries is still being made.
LEMMA ReleaseStep ==
    ASSUME IInv, NEW f \in CharFiles, ReleaseFile(f)
    PROVE  IInv'
  <1> USE DEF OwnedBy
  <1>1. ContigTypeInv' /\ FreshInv' /\ ListInv' /\ OwnerInv'
    BY DEF IInv, ContigTypeInv, FreshInv, ListInv, OwnerInv, ReleaseFile
  <1>2. AllocInv'
    <2>1. \A t \in Callers : step[t] = "listed" => owner[ca[t]] # f
      BY Zenon DEF IInv, OwnerInv, ReleaseFile
    <2> QED  BY Zenon, <2>1 DEF IInv, AllocInv, ReleaseFile
  <1>3. UsedLive'
    BY Zenon DEF IInv, UsedLive, Used, Mapped, ReleaseFile
  <1>4. KrefInv'
    <2>1. \A i \in Ids : AtStep("map", i)' = AtStep("map", i) /\ AtStep("put", i)' = AtStep("put", i)
      BY Zenon DEF AtStep, ReleaseFile
    <2>2. \A i \in Ids : ListHolds(i)' <=> ListHolds(i)
      BY Zenon, <2>1 DEF ListHolds, ReleaseFile
    <2>3. \A i \in live : Holders(i)' = Holders(i)
      BY Zenon, <2>1, <2>2 DEF IInv, ContigTypeInv, Holders, ReleaseFile
    <2> QED  BY Zenon, <2>3 DEF IInv, KrefInv, ReleaseFile
  <1> QED  BY Zenon, <1>1, <1>2, <1>3, <1>4 DEF IInv

\* The release puts the list's reference of an entry on its private list.
LEMMA ReleasePutStep ==
    ASSUME IInv, NEW i \in Ids, ReleasePut(i)
    PROVE  IInv'
  <1>1. i \in toRelease /\ i \notin contig /\ i \in live /\ owner[i] \in CharFiles
    BY Zenon DEF IInv, ListInv, OwnerInv, UsedLive, Used, ReleasePut
  <1>2. ref' \in [Ids -> Int] /\ live' \subseteq live /\ pdevRefs' \in Int
    BY DEF IInv, ContigTypeInv, ReleasePut, KrefPut, Free
  <1>3. ContigTypeInv'
    BY Zenon, <1>2 DEF IInv, ContigTypeInv, ReleasePut
  <1>4. ListInv' /\ AllocInv'
    BY Zenon DEF IInv, ListInv, AllocInv, ReleasePut
  <1>5. FreshInv'
    BY Zenon, <1>2 DEF IInv, FreshInv, ReleasePut
  <1>6. OwnerInv'
    BY Zenon, <1>2 DEF IInv, OwnerInv, ReleasePut
  <1>7. UsedLive' /\ KrefInv'
    <2>1. \A j \in Ids : AtStep("map", j)' = AtStep("map", j) /\ AtStep("put", j)' = AtStep("put", j)
      BY Zenon DEF AtStep, ReleasePut
    <2>2. AtStep("put", i) = {}
      BY Zenon, <1>1 DEF IInv, ListInv, AtStep
    <2>3. ListHolds(i) /\ ~ListHolds(i)'
      BY Zenon, <1>1, <2>1, <2>2 DEF ListHolds, ReleasePut
    <2>4. \A j \in live \ {i} : Holders(j)' = Holders(j)
      BY Zenon, <2>1 DEF IInv, ContigTypeInv, Holders, ListHolds, ReleasePut
    <2>5. Holders(i)' = Holders(i) - 1
      <3>1. owner' = owner /\ vmas' = vmas
        BY Zenon DEF ReleasePut
      <3>2. vmas[owner[i]][i] \in Nat /\ Cardinality(AtStep("map", i)) \in Nat
        BY Zenon, <1>1, HoldersNat DEF IInv
      <3> QED  BY <2>1, <2>3, <3>1, <3>2 DEF Holders
    <2>6. AllocInv'
      BY Zenon, <1>4
    <2>7. \A j \in Ids \ {i} : Used(j)' => Used(j)
      BY Zenon DEF Used, Mapped, ReleasePut
    <2>8. KrefPut(i) /\ owner' = owner
      BY Zenon DEF ReleasePut
    <2> QED  BY Zenon, <1>1, <1>3, <1>6, <2>4, <2>5, <2>6, <2>7, <2>8, PutStep
  <1> QED  BY Zenon, <1>3, <1>4, <1>5, <1>6, <1>7 DEF IInv

\* Every step keeps the invariant that overtakes no ALLOC.
LEMMA NextIInv ==
    ASSUME IInv, [ContigNext]_contigVars, ~overtaken'
    PROVE  IInv'
  <1>1. ASSUME NEW t \in Callers, AllocContig(t) \/ CallStep(t) PROVE IInv'
    BY Zenon, <1>1, AllocContigStep, ReadIdStep, CopyToUserStep, CopyToUserFailsStep,
       MmapDoneStep, MmapFailsStep, FreePutStep DEF CallStep
  <1>2. ASSUME NEW t \in Callers, NEW i \in Ids, MmapContig(t, i) \/ FreeContig(t, i)
        PROVE  IInv'
    BY Zenon, <1>2, MmapContigStep, FreeContigStep
  <1>3. ASSUME NEW f \in CharFiles, Close(f) \/ ReleaseFile(f) PROVE IInv'
    BY Zenon, <1>3, CloseStep, ReleaseStep
  <1>4. ASSUME NEW f \in CharFiles, NEW i \in Ids, ContigVmaOpen(f, i) \/ ContigVmaClose(f, i)
        PROVE  IInv'
    BY Zenon, <1>4, ContigVmaOpenStep, ContigVmaCloseStep
  <1>5. ASSUME NEW i \in Ids, ReleasePut(i) PROVE IInv'
    BY Zenon, <1>5, ReleasePutStep
  <1>6. CASE UNCHANGED contigVars
    BY <1>6 DEF contigVars, IInv, ContigTypeInv, FreshInv, ListInv, AllocInv, OwnerInv, UsedLive,
                Used, Mapped, KrefInv, Holders, ListHolds, AtStep
  <1> QED  BY Zenon, <1>1, <1>2, <1>3, <1>4, <1>5, <1>6 DEF ContigNext

-----------------------------------------------------------------------------
(* The theorems.                                                           *)

\* Nobody overtook an ALLOC so far.
Safe == ~overtaken => IInv

\* What was overtaken once stays so.
LEMMA OvertakenStays == [ContigNext]_contigVars /\ overtaken => overtaken'
  <1> SUFFICES ASSUME [ContigNext]_contigVars, overtaken PROVE overtaken'
    BY Zenon
  <1> QED  BY Zenon DEF ContigNext, contigVars, CallStep, AllocContig, ReadId, CopyToUser,
                  CopyToUserFails, MmapContig, MmapDone, MmapFails, ContigVmaOpen, ContigVmaClose,
                  FreeContig, FreePut, Close, ReleaseFile, ReleasePut

\* The invariant holds in every reachable state that no thread overtook.
LEMMA SafeAlways == ContigSpec => []Safe
  <1>1. ContigInit => Safe
    BY Zenon, InitIInv DEF Safe
  <1>2. Safe /\ [ContigNext]_contigVars => Safe'
    BY Zenon, NextIInv, OvertakenStays DEF Safe
  <1> QED  BY <1>1, <1>2, PTL DEF ContigSpec

\* No DMA memory is freed while it is on a list, mapped, or in the hands of a
\* call, for any number of threads, files, allocations and mappings, until a
\* thread overtakes an ALLOC (kref_get and kref_put in the mmap, VMA, FREE and
\* release paths of rocm-xio.c, and the failure path of ALLOC).
THEOREM NeverFreedInUse == ContigSpec => []NoUseAfterFree
  <1>1. Safe => NoUseAfterFree
    BY Zenon DEF Safe, IInv, NoUseAfterFree
  <1> QED  BY <1>1, SafeAlways, PTL

\* What was not freed has a user left who will put it, and the device is held
\* once for each such allocation: nothing is lost on an error path.
NothingLost == ~overtaken => (\A i \in live : Used(i)) /\ pdevRefs = Cardinality(live)

\* The safety half of AllFreed: an allocation whose last user is gone was freed
\* by the put of that user (contig_alloc_release), and its pci_dev with it.
THEOREM NeverLost == ContigSpec => []NothingLost
  <1>1. Safe => NothingLost
    <2> SUFFICES ASSUME IInv PROVE NothingLost
      BY Zenon DEF Safe, NothingLost
    <2>1. ASSUME NEW i \in live, ~Used(i) PROVE FALSE
      <3>1. i \in Ids /\ owner[i] \in CharFiles /\ ref[i] = Holders(i) /\ ref[i] > 0
        BY Zenon DEF IInv, ContigTypeInv, OwnerInv, KrefInv
      <3>2. AtStep("map", i) = {} /\ ~ListHolds(i)
        BY Zenon, <2>1 DEF Used, AtStep, ListHolds
      <3>3. vmas[owner[i]][i] = 0
        BY <2>1, <3>1 DEF Used, Mapped, IInv, ContigTypeInv
      <3> QED  BY <3>1, <3>2, <3>3, FS_EmptySet DEF Holders
    <2> QED  BY Zenon, <2>1 DEF NothingLost, IInv, KrefInv
  <1> QED  BY <1>1, SafeAlways, PTL
=============================================================================
