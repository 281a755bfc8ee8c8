-------------------------- MODULE FioEngine_proofs --------------------------
(***************************************************************************)
(* The fio engine for any iodepth, io_u ring, queue pair and number of     *)
(* io_us, as long as the sequence numbers of the work ring have not come   *)
(* round: in the code, for the first 2^31 io_us of an open file.           *)
(***************************************************************************)
EXTENDS FioEngine, Integers, TLAPS

\* The last sequence number a request can get, and the one the kernel waits
\* for after it, fit a counter.
NoWrap == 2 * MaxPosts + 1 < WordSize

-----------------------------------------------------------------------------
(* The inductive invariant.                                                *)

CommandOrNone == Commands \union {NoCommand}

CpuSteps == {"run", "publish", "closing", "closed"}

\* The kernel between two requests, and with one.
GpuBetween == {"top", "wait"}
GpuBusy == {"ring", "first", "spin", "cqring", "signal"}

CpuTypes ==
    /\ posted \in 0 .. MaxPosts /\ prod_idx \in 0 .. MaxPosts /\ cons_idx \in Nat
    /\ cpu \in CpuSteps
    /\ ring \in [RingPlaces -> IoUs \union {NoIo}]
    /\ opOf \in [IoUs -> 0 .. MaxPosts]
    /\ work \in [WorkPlaces -> [seq : Nat, cmd : CommandOrNone]]

GpuTypes ==
    /\ gpu \in GpuBetween \union GpuBusy \union {"exit"} /\ index \in Nat
    /\ sq \in [Slots -> CommandOrNone] /\ sq_tail \in Slots
    /\ cq \in [Slots -> [cmd : CommandOrNone, ok : BOOLEAN, phase : Phases]]
    /\ cq_head \in Slots /\ expected_phase \in Phases
    /\ sqTailDb \in Slots /\ fetchHead \in Slots
    /\ postTail \in Slots /\ postPhase \in Phases
    /\ inflight \in Seq(CommandOrNone)
    /\ log \in Seq([cmd : CommandOrNone, ok : BOOLEAN])

\* The thread reaps behind the kernel and posts before it, and no more io_us
\* are out than the rings hold.
CountInv ==
    /\ cons_idx <= index /\ index <= prod_idx
    /\ posted = IF cpu = "publish" THEN prod_idx + 1 ELSE prod_idx
    /\ posted - cons_idx <= IoDepth
    /\ gpu \in GpuBusy => index < prod_idx
    /\ reaped \subseteq 0 .. cons_idx - 1

\* The io_u ring holds the io_us of the postings that are out.
RingInv ==
    /\ ring_head = posted % RingSize /\ ring_tail = cons_idx % RingSize
    /\ ring_count = posted - cons_idx
    /\ \A i \in cons_idx .. posted - 1 :
         /\ ring[i % RingSize] \in IoUs
         /\ opOf[ring[i % RingSize]] = i

\* The work ring: done, then posted, then written but not yet posted; the
\* other places are free.
WorkInv ==
    /\ \A i \in cons_idx .. index - 1 : work[PlaceOf(i)].seq = 2 * i + 2
    /\ \A i \in index .. prod_idx - 1 : work[PlaceOf(i)].seq = 2 * i + 1
    /\ \A i \in index .. posted - 1 : work[PlaceOf(i)].cmd.op = i
    /\ \A p \in WorkPlaces :
         work[p].seq # 0 => \E i \in cons_idx .. prod_idx - 1 : p = PlaceOf(i)

\* The controller writes one phase up to its tail, and left the other behind.
PhaseInv ==
    \A s \in Slots : cq[s].phase = IF s < postTail THEN postPhase ELSE 1 - postPhase

\* The controller has nothing to fetch and nothing to complete.
Quiet == inflight = <<>> /\ fetchHead = sqTailDb

\* The kernel waits for the completion the controller posts next.
Level == postTail = cq_head /\ postPhase = expected_phase

\* The command of the request the kernel works on, on its way.
Unfetched ==
    /\ inflight = <<>> /\ sqTailDb = Advance(fetchHead, 1)
    /\ sq[fetchHead].op = index
    /\ Level /\ Len(log) = index
Fetched ==
    /\ Len(inflight) = 1 /\ fetchHead = sqTailDb
    /\ inflight[1].op = index
    /\ Level /\ Len(log) = index
Completed ==
    /\ Quiet /\ Len(log) = index + 1
    /\ postTail = Advance(cq_head, 1) /\ postPhase = NextPhase(cq_head, expected_phase)

PairInv ==
    /\ gpu \in GpuBetween =>
         Quiet /\ Level /\ Len(log) = index /\ sq_tail = sqTailDb
    /\ gpu = "ring" =>
         /\ Quiet /\ Level /\ Len(log) = index
         /\ sq_tail = Advance(sqTailDb, 1) /\ sq[sqTailDb].op = index
    /\ gpu \in {"first", "spin"} =>
         sq_tail = sqTailDb /\ (Unfetched \/ Fetched \/ Completed)
    /\ gpu \in {"cqring", "signal"} =>
         Quiet /\ Level /\ Len(log) = index + 1 /\ sq_tail = sqTailDb
    /\ gpu = "exit" =>
         \/ Quiet /\ Len(log) = index
         \/ Unfetched \/ Fetched \/ Completed

FioInv ==
    /\ CpuTypes /\ GpuTypes /\ CountInv /\ RingInv /\ WorkInv
    /\ PhaseInv /\ PairInv /\ InOrderOnce

-----------------------------------------------------------------------------
(* Places of a ring.                                                       *)

\* A number is its quotient and its remainder.
LEMMA DivMod ==
    ASSUME NEW Q \in Nat \ {0}, NEW i \in Nat
    PROVE  /\ i % Q \in 0 .. Q - 1
           /\ i \div Q \in Nat
           /\ i = Q * (i \div Q) + (i % Q)
  BY SMT

\* The remainder is the only one below the divisor.
LEMMA ModUnique ==
    ASSUME NEW Q \in Nat \ {0}, NEW i \in Nat, NEW c \in Nat, NEW r \in Nat,
           i = Q * c + r, r < Q
    PROVE  i % Q = r
  BY SMT

\* A number below the divisor is its own remainder.
LEMMA ModSmall ==
    ASSUME NEW Q \in Nat \ {0}, NEW i \in Nat, i < Q
    PROVE  i % Q = i
  BY SMT

\* The next place: one further, or back at the start.
LEMMA ModNext ==
    ASSUME NEW Q \in Nat \ {0}, NEW i \in 0 .. Q - 1
    PROVE  (i + 1) % Q = IF i + 1 = Q THEN 0 ELSE i + 1
  <1>1. CASE i + 1 = Q
    <2>1. i + 1 = Q * 1 + 0
      BY <1>1
    <2> QED
      BY <1>1, <2>1, ModUnique
  <1>2. CASE i + 1 # Q
    BY <1>2, ModSmall
  <1> QED
    BY Zenon, <1>1, <1>2

\* Two different numbers less than a ring apart have different places.
LEMMA ModDistinct ==
    ASSUME NEW Q \in Nat \ {0}, NEW i \in Nat, NEW j \in Nat, i < j, j - i < Q
    PROVE  i % Q # j % Q
  <1> SUFFICES ASSUME i % Q = j % Q PROVE FALSE
    BY Zenon
  <1>1. PICK c \in Nat, r \in 0 .. Q - 1 : i = Q * c + r /\ r = i % Q
    BY Zenon, DivMod
  <1>2. PICK d \in Nat : j = Q * d + r
    BY Zenon, <1>1, DivMod
  <1>3. Q * c \in Nat /\ Q * d \in Nat
    BY <1>1, <1>2
  <1>4. Q * c < Q * d /\ Q * d < Q * c + Q
    BY <1>1, <1>2, <1>3
  <1>5. ~(c >= d)
    BY <1>4, <1>1, <1>2
  <1>6. d >= c + 1
    BY <1>5, <1>1, <1>2
  <1>7. Q * d >= Q * (c + 1) /\ Q * (c + 1) = Q * c + Q
    BY <1>6, <1>1, <1>2
  <1> QED
    BY <1>4, <1>7, <1>3

\* Adding to a place is adding to the number it is the place of.
LEMMA ModAdd ==
    ASSUME NEW Q \in Nat \ {0}, NEW i \in Nat, NEW k \in Nat
    PROVE  ((i % Q) + k) % Q = (i + k) % Q
  <1>1. PICK c \in Nat, r \in 0 .. Q - 1 : i = Q * c + r /\ r = i % Q
    BY Zenon, DivMod
  <1>2. PICK m \in Nat, n \in Nat : m = r + k /\ n = i + k
    BY <1>1
  <1>3. PICK d \in Nat, s \in 0 .. Q - 1 : m = Q * d + s /\ s = m % Q
    BY Zenon, DivMod
  <1>4. PICK x \in Nat, y \in Nat : x = Q * c /\ y = Q * d
    BY <1>1, <1>3
  <1>5. Q * (c + d) = x + y
    BY <1>4
  <1>6. PICK e \in Nat : e = c + d
    OBVIOUS
  <1>7. n = x + y + s
    <2>1. i = x + r /\ m = y + s
      BY Zenon, <1>1, <1>3, <1>4
    <2> QED
      BY <2>1, <1>2
  <1>8. n = Q * e + s /\ s \in Nat /\ s < Q
    BY <1>5, <1>6, <1>7
  <1>9. n % Q = s
    BY Zenon, <1>8, ModUnique
  <1> QED
    BY Zenon, <1>1, <1>2, <1>3, <1>9

-----------------------------------------------------------------------------
(* The model's operators.                                                  *)

LEMMA FioConstants ==
    /\ RingSize \in Nat \ {0} /\ IoDepth \in Nat \ {0} /\ IoDepth <= RingSize
    /\ WordSize \in Nat \ {0} /\ MaxPosts \in Nat /\ QueueSize \in Nat \ {0}
  BY FioAssumption, QueueAssumption

\* The numbers the code stores, as long as they do not come round.
LEMMA Numbers ==
    ASSUME NoWrap, NEW i \in 0 .. MaxPosts
    PROVE  /\ PostedSeq(i) = 2 * i + 1
           /\ i < MaxPosts => DoneSeq(i) = 2 * i + 2 /\ Word(i + 1) = i + 1
<1>1. /\ i * 2 + 1 \in Nat /\ i * 2 + 1 < WordSize
      /\ i < MaxPosts => i * 2 + 2 < WordSize /\ i + 1 < WordSize
  BY FioConstants DEF NoWrap
<1>2. i * 2 + 2 \in Nat /\ i + 1 \in Nat /\ i * 2 = 2 * i
  OBVIOUS
<1>3. \A n \in Nat : n < WordSize => n % WordSize = n
  BY Zenon, ModSmall, FioConstants
<1> QED
  BY Zenon, <1>1, <1>2, <1>3 DEF PostedSeq, DoneSeq, Word

\* Requests that are out together have different places in both rings.
LEMMA Places ==
    /\ \A i \in Nat : PlaceOf(i) \in WorkPlaces /\ i % RingSize \in RingPlaces
    /\ \A i, j \in Nat : i # j /\ i - j < IoDepth /\ j - i < IoDepth =>
         PlaceOf(i) # PlaceOf(j) /\ i % RingSize # j % RingSize
<1>1. \A i \in Nat : PlaceOf(i) \in WorkPlaces /\ i % RingSize \in RingPlaces
  BY Zenon, DivMod, FioConstants DEF PlaceOf, WorkPlaces, RingPlaces
<1>2. ASSUME NEW i \in Nat, NEW j \in Nat, i < j, j - i < IoDepth
      PROVE  PlaceOf(i) # PlaceOf(j) /\ i % RingSize # j % RingSize
  <2>1. j - i < RingSize
    BY <1>2, FioConstants
  <2> QED
    BY Zenon, <1>2, <2>1, ModDistinct, FioConstants DEF PlaceOf
<1>3. \A i, j \in Nat : i # j => i < j \/ j < i
  OBVIOUS
<1> QED
  BY Zenon, <1>1, <1>2, <1>3

LEMMA InitFio == Init => FioInv
<1> SUFFICES ASSUME Init PROVE FioInv
  BY Zenon
<1>1. 0 \in Slots /\ Slots \subseteq Nat /\ 1 \in Phases /\ 0 \in Phases
  BY QueueAssumption DEF Slots, Phases
<1>2. CpuTypes
  BY FioConstants DEF Init, CpuTypes, CpuSteps, CommandOrNone
<1>3. GpuTypes
  <2>1. /\ sq = [s \in Slots |-> NoCommand]
        /\ cq = [s \in Slots |-> [cmd |-> NoCommand, ok |-> TRUE, phase |-> 0]]
    BY Zenon DEF Init, QueueInit
  <2>2. /\ sq \in [Slots -> CommandOrNone]
        /\ cq \in [Slots -> [cmd : CommandOrNone, ok : BOOLEAN, phase : Phases]]
    BY Zenon, <1>1, <2>1 DEF CommandOrNone
  <2> QED
    BY <1>1, <2>2 DEF Init, QueueInit, GpuTypes, GpuBetween
<1>4. CountInv /\ RingInv
  <2>1. 0 % RingSize = 0
    BY FioConstants, ModSmall
  <2>2. posted = 0 /\ cons_idx = 0 /\ prod_idx = 0 /\ index = 0 /\ gpu = "top" /\ cpu = "run"
    BY Zenon DEF Init
  <2>3. CountInv
    BY <2>2, FioConstants DEF Init, CountInv, GpuBusy
  <2> QED
    BY <2>1, <2>2, <2>3 DEF Init, RingInv
<1>5. WorkInv
  BY DEF Init, WorkInv
<1>6. PhaseInv
  BY <1>1 DEF Init, QueueInit, PhaseInv
<1>7. PairInv /\ InOrderOnce
  BY DEF Init, QueueInit, PairInv, Quiet, Level, GpuBetween, InOrderOnce
<1> QED
  BY Zenon, <1>2, <1>3, <1>4, <1>5, <1>6, <1>7 DEF FioInv

-----------------------------------------------------------------------------
(* The fio thread.                                                         *)

\* What the kernel and the controller work on is not the thread's to change.
LEMMA ThreadKeeps ==
    ASSUME GpuTypes, PhaseInv, PairInv, InOrderOnce, UNCHANGED <<queueVars, gpuVars>>
    PROVE  GpuTypes' /\ PhaseInv' /\ PairInv' /\ InOrderOnce'
<1>1. UNCHANGED <<sq, cq, sqTailDb, cqHeadDb, fetchHead, postTail, postPhase, inflight, log,
                  gpu, index, sq_tail, cq_head, expected_phase>>
  BY Zenon DEF queueVars, gpuVars
<1>2. GpuTypes' /\ PhaseInv' /\ InOrderOnce'
  BY Zenon, <1>1 DEF GpuTypes, PhaseInv, InOrderOnce
<1>3. PairInv'
  BY Zenon, <1>1 DEF PairInv, Quiet, Level, Unfetched, Fetched, Completed, Advance, NextPhase
<1> QED
  BY Zenon, <1>2, <1>3

LEMMA QueueFio ==
    ASSUME NoWrap, FioInv, NEW u \in IoUs, QueueIo(u)
    PROVE  FioInv'
<1>p. CpuTypes /\ GpuTypes /\ CountInv /\ RingInv /\ WorkInv
  BY Zenon DEF FioInv
<1>t. /\ posted \in Nat /\ cons_idx \in Nat /\ index \in Nat /\ prod_idx \in Nat
      /\ ring \in [RingPlaces -> IoUs \union {NoIo}] /\ opOf \in [IoUs -> 0 .. MaxPosts]
      /\ work \in [WorkPlaces -> [seq : Nat, cmd : CommandOrNone]]
  BY <1>p, FioConstants DEF CpuTypes, GpuTypes
<1>0. /\ cpu = "run" /\ cpu' = "publish" /\ ~InFlight(u)
      /\ posted < MaxPosts /\ posted' = posted + 1 /\ ring_count < IoDepth
      /\ UNCHANGED <<queueVars, gpuVars, ring_tail, prod_idx, cons_idx, reaped>>
  BY Zenon DEF QueueIo
<1>1. /\ posted = prod_idx /\ cons_idx <= index /\ index <= posted
      /\ ring_count = posted - cons_idx /\ posted - cons_idx < IoDepth
      /\ ring_head = posted % RingSize /\ ring_tail = cons_idx % RingSize
  BY Zenon, <1>0, <1>p DEF CountInv, RingInv
<1>2. UNCHANGED <<gpu, index>>
  BY Zenon, <1>0 DEF gpuVars
<1>3. /\ PlaceOf(posted) \in WorkPlaces /\ posted % RingSize \in RingPlaces
      /\ \A i \in cons_idx .. posted - 1 :
           PlaceOf(i) # PlaceOf(posted) /\ i % RingSize # posted % RingSize
  <2>1. \A i \in cons_idx .. posted - 1 :
          i \in Nat /\ i # posted /\ i - posted < IoDepth /\ posted - i < IoDepth
    BY <1>1, <1>t, FioConstants
  <2> QED
    BY Zenon, <2>1, <1>t, Places
<1>4. ring' = [ring EXCEPT ![posted % RingSize] = u] /\ opOf' = [opOf EXCEPT ![u] = posted]
  BY Zenon, <1>1 DEF QueueIo
<1>5. PICK c : c = [op |-> posted, slot |-> ring_head]
  BY Zenon
<1>6. c \in Commands /\ c.op = posted
  <2>1. posted \in 0 .. MaxPosts - 1 /\ ring_head \in 0 .. RingSize - 1
    BY <1>0, <1>1, <1>3, <1>t, FioConstants DEF RingPlaces
  <2>2. Commands = [op : 0 .. MaxPosts - 1, slot : 0 .. RingSize - 1]
    BY Zenon, FioAssumption
  <2> QED
    BY Zenon, <2>1, <2>2, <1>5
<1>7. /\ work' \in [WorkPlaces -> [seq : Nat, cmd : CommandOrNone]]
      /\ work'[PlaceOf(posted)].cmd = c
      /\ \A p \in WorkPlaces : work'[p].seq = work[p].seq
      /\ \A p \in WorkPlaces : p # PlaceOf(posted) => work'[p] = work[p]
  <2>1. work' = [work EXCEPT ![PlaceOf(posted)].cmd = c]
    BY Zenon, <1>1, <1>5 DEF QueueIo, DataSlot
  <2> QED
    BY <2>1, <1>t, <1>3, <1>6 DEF CommandOrNone
<1>8. CpuTypes'
  <2>1. cpu' \in CpuSteps /\ posted' \in 0 .. MaxPosts /\ posted \in 0 .. MaxPosts
    BY <1>0, <1>t, FioConstants DEF CpuSteps
  <2>2. ring' \in [RingPlaces -> IoUs \union {NoIo}] /\ opOf' \in [IoUs -> 0 .. MaxPosts]
    BY Zenon, <1>4, <1>t, <2>1
  <2> QED
    BY Zenon, <1>0, <1>7, <1>p, <2>1, <2>2 DEF CpuTypes
<1>9. CountInv'
  BY <1>0, <1>1, <1>2, <1>p, <1>t, FioConstants DEF CountInv
<1>10. RingInv'
  <2>1. ring_head' = posted' % RingSize
    <3>1. ring_head' = ((posted % RingSize) + 1) % RingSize
      BY Zenon, <1>1 DEF QueueIo, NextPlace
    <3> QED
      BY Zenon, <3>1, <1>0, <1>t, ModAdd, FioConstants
  <2>2. ring_count' = posted' - cons_idx'
    BY <1>0, <1>1, <1>t DEF QueueIo
  <2>3. ASSUME NEW i \in cons_idx .. posted
        PROVE  ring'[i % RingSize] \in IoUs /\ opOf'[ring'[i % RingSize]] = i
    <3>1. CASE i = posted
      BY Zenon, <3>1, <1>3, <1>4, <1>t
    <3>2. CASE i # posted
      <4>1. i \in cons_idx .. posted - 1 /\ i \in Nat /\ i - cons_idx \in 0 .. ring_count - 1
        BY <3>2, <1>1, <1>t
      <4>2. ring'[i % RingSize] = ring[i % RingSize]
        BY Zenon, <4>1, <1>3, <1>4, <1>t, Places
      <4>3. ring[i % RingSize] \in IoUs /\ opOf[ring[i % RingSize]] = i
        BY Zenon, <4>1, <1>p DEF RingInv
      <4>4. (ring_tail + (i - cons_idx)) % RingSize = i % RingSize
        <5>1. PICK k \in Nat : k = i - cons_idx
          BY <4>1, <1>t
        <5>2. cons_idx + k = i
          BY <5>1, <4>1, <1>t
        <5>3. ((cons_idx % RingSize) + k) % RingSize = (cons_idx + k) % RingSize
          BY Zenon, <1>t, ModAdd, FioConstants
        <5> QED
          BY Zenon, <5>1, <5>2, <5>3, <1>1
      <4>5. ring[i % RingSize] # u
        BY Zenon, <4>1, <4>4, <1>0 DEF InFlight
      <4> QED
        BY Zenon, <4>2, <4>3, <4>5, <1>4, <1>t
    <3> QED
      BY Zenon, <3>1, <3>2
  <2>4. cons_idx' .. posted' - 1 = cons_idx .. posted
    BY <1>0, <1>t
  <2> QED
    BY Zenon, <2>1, <2>2, <2>3, <2>4, <1>0, <1>1 DEF RingInv
<1>11. WorkInv'
  <2>1. \A i \in Nat : PlaceOf(i) \in WorkPlaces
    BY Zenon, Places
  <2>2. \A i \in cons_idx .. index - 1 : work'[PlaceOf(i)].seq = 2 * i + 2
    BY <2>1, <1>7, <1>p, <1>t DEF WorkInv
  <2>3. \A i \in index .. prod_idx - 1 : work'[PlaceOf(i)].seq = 2 * i + 1
    BY <2>1, <1>7, <1>p, <1>t DEF WorkInv
  <2>4. ASSUME NEW i \in index .. posted PROVE work'[PlaceOf(i)].cmd.op = i
    <3>1. CASE i = posted
      BY Zenon, <3>1, <1>6, <1>7
    <3>2. CASE i # posted
      <4>1. i \in index .. posted - 1 /\ i \in cons_idx .. posted - 1 /\ i \in Nat
        BY <3>2, <1>1, <1>t
      <4>2. work'[PlaceOf(i)] = work[PlaceOf(i)]
        BY Zenon, <4>1, <1>3, <1>7, <2>1
      <4> QED
        BY Zenon, <4>1, <4>2, <1>p DEF WorkInv
    <3> QED
      BY Zenon, <3>1, <3>2
  <2>5. index .. posted' - 1 = index .. posted
    BY <1>0, <1>t
  <2>6. \A p \in WorkPlaces :
          work'[p].seq # 0 => \E i \in cons_idx .. prod_idx - 1 : p = PlaceOf(i)
    BY Zenon, <1>7, <1>p DEF WorkInv
  <2> QED
    BY Zenon, <2>2, <2>3, <2>4, <2>5, <2>6, <1>0, <1>2 DEF WorkInv, PlaceOf
<1> QED
  BY Zenon, <1>0, <1>8, <1>9, <1>10, <1>11, ThreadKeeps DEF FioInv

LEMMA PublishFio ==
    ASSUME NoWrap, FioInv, Publish
    PROVE  FioInv'
<1>p. CpuTypes /\ GpuTypes /\ CountInv /\ RingInv /\ WorkInv
  BY Zenon DEF FioInv
<1>t. /\ posted \in 0 .. MaxPosts /\ cons_idx \in Nat /\ index \in Nat /\ prod_idx \in Nat
      /\ work \in [WorkPlaces -> [seq : Nat, cmd : CommandOrNone]]
  BY <1>p, FioConstants DEF CpuTypes, GpuTypes
<1>0. /\ cpu = "publish" /\ cpu' = "run"
      /\ UNCHANGED <<queueVars, gpuVars, ring, ring_head, ring_tail, ring_count, cons_idx,
                     opOf, posted, reaped>>
  BY Zenon DEF Publish
<1>1. /\ posted = prod_idx + 1 /\ cons_idx <= index /\ index <= prod_idx
      /\ posted - cons_idx <= IoDepth
  BY Zenon, <1>0, <1>p DEF CountInv
<1>2. UNCHANGED <<gpu, index>>
  BY Zenon, <1>0 DEF gpuVars
<1>3. /\ prod_idx \in 0 .. MaxPosts /\ prod_idx < MaxPosts
      /\ PostedSeq(prod_idx) = 2 * prod_idx + 1 /\ prod_idx' = prod_idx + 1
  <2>1. prod_idx \in 0 .. MaxPosts /\ prod_idx < MaxPosts
    BY <1>1, <1>t, FioConstants
  <2> QED
    BY Zenon, <2>1, Numbers DEF Publish
<1>4. /\ PlaceOf(prod_idx) \in WorkPlaces
      /\ \A i \in cons_idx .. prod_idx - 1 : PlaceOf(i) # PlaceOf(prod_idx)
  <2>1. \A i \in cons_idx .. prod_idx - 1 :
          i \in Nat /\ i # prod_idx /\ i - prod_idx < IoDepth /\ prod_idx - i < IoDepth
    BY <1>1, <1>t, FioConstants
  <2> QED
    BY Zenon, <2>1, <1>t, Places
<1>5. /\ work' \in [WorkPlaces -> [seq : Nat, cmd : CommandOrNone]]
      /\ work'[PlaceOf(prod_idx)].seq = 2 * prod_idx + 1
      /\ \A p \in WorkPlaces : work'[p].cmd = work[p].cmd
      /\ \A p \in WorkPlaces : p # PlaceOf(prod_idx) => work'[p] = work[p]
  <2>1. PICK s \in Nat : s = 2 * prod_idx + 1
    BY <1>t
  <2>2. work' = [work EXCEPT ![PlaceOf(prod_idx)].seq = s]
    BY Zenon, <1>3, <2>1 DEF Publish
  <2>3. /\ work' \in [WorkPlaces -> [seq : Nat, cmd : CommandOrNone]]
        /\ work'[PlaceOf(prod_idx)].seq = s
        /\ \A p \in WorkPlaces : work'[p].cmd = work[p].cmd
        /\ \A p \in WorkPlaces : p # PlaceOf(prod_idx) => work'[p] = work[p]
    BY Zenon, <2>2, <1>t, <1>4
  <2> QED
    BY Zenon, <2>1, <2>3
<1>6. CpuTypes'
  BY Zenon, <1>0, <1>1, <1>3, <1>5, <1>t, <1>p DEF CpuTypes, CpuSteps
<1>7. CountInv'
  BY <1>0, <1>1, <1>2, <1>3, <1>p, <1>t, FioConstants DEF CountInv
<1>8. RingInv'
  BY Zenon, <1>0, <1>p DEF RingInv
<1>9. WorkInv'
  <2>1. \A i \in Nat : PlaceOf(i) \in WorkPlaces
    BY Zenon, Places
  <2>2. \A i \in cons_idx .. index - 1 : work'[PlaceOf(i)].seq = 2 * i + 2
    <3>1. \A i \in cons_idx .. index - 1 : i \in Nat /\ i \in cons_idx .. prod_idx - 1
      BY <1>1, <1>t
    <3> QED
      BY <3>1, <2>1, <1>4, <1>5, <1>p DEF WorkInv
  <2>3. ASSUME NEW i \in index .. prod_idx PROVE work'[PlaceOf(i)].seq = 2 * i + 1
    <3>1. CASE i = prod_idx
      BY Zenon, <3>1, <1>5
    <3>2. CASE i # prod_idx
      <4>1. i \in Nat /\ i \in index .. prod_idx - 1 /\ i \in cons_idx .. prod_idx - 1
        BY <3>2, <1>1, <1>t
      <4> QED
        BY Zenon, <4>1, <2>1, <1>4, <1>5, <1>p DEF WorkInv
    <3> QED
      BY Zenon, <3>1, <3>2
  <2>4. \A i \in index .. posted - 1 : work'[PlaceOf(i)].cmd.op = i
    <3>1. \A i \in index .. posted - 1 : i \in Nat
      BY <1>t
    <3> QED
      BY Zenon, <3>1, <2>1, <1>5, <1>p DEF WorkInv
  <2>5. /\ index .. prod_idx' - 1 = index .. prod_idx
        /\ cons_idx .. prod_idx' - 1 = (cons_idx .. prod_idx - 1) \union {prod_idx}
    BY <1>1, <1>3, <1>t
  <2>6. ASSUME NEW p \in WorkPlaces, work'[p].seq # 0
        PROVE  \E i \in (cons_idx .. prod_idx - 1) \union {prod_idx} : p = PlaceOf(i)
    <3>1. CASE p = PlaceOf(prod_idx)
      BY Zenon, <3>1
    <3>2. CASE p # PlaceOf(prod_idx)
      BY Zenon, <2>6, <3>2, <1>5, <1>p DEF WorkInv
    <3> QED
      BY Zenon, <3>1, <3>2
  <2> QED
    BY Zenon, <2>2, <2>3, <2>4, <2>5, <2>6, <1>0, <1>2 DEF WorkInv, PlaceOf
<1> QED
  BY Zenon, <1>0, <1>6, <1>7, <1>8, <1>9, ThreadKeeps DEF FioInv

\* The request that is reaped is one the kernel has marked done.
LEMMA ReapFio ==
    ASSUME NoWrap, FioInv, Reap
    PROVE  FioInv'
<1>p. CpuTypes /\ GpuTypes /\ CountInv /\ RingInv /\ WorkInv
  BY Zenon DEF FioInv
<1>t. /\ posted \in 0 .. MaxPosts /\ cons_idx \in Nat /\ index \in Nat /\ prod_idx \in 0 .. MaxPosts
      /\ work \in [WorkPlaces -> [seq : Nat, cmd : CommandOrNone]]
  BY Zenon, <1>p, FioConstants DEF CpuTypes, GpuTypes
<1>0. /\ cpu = "run" /\ RequestDone(cons_idx)
      /\ UNCHANGED <<queueVars, gpuVars, ring, ring_head, prod_idx, cpu, opOf, posted>>
  BY Zenon DEF Reap
<1>1. /\ posted = prod_idx /\ cons_idx <= index /\ index <= prod_idx /\ cons_idx < prod_idx
      /\ posted - cons_idx <= IoDepth
  BY Zenon, <1>0, <1>p DEF CountInv, RequestDone
<1>2. UNCHANGED <<gpu, index>>
  BY Zenon, <1>0 DEF gpuVars
<1>3. /\ cons_idx \in 0 .. MaxPosts /\ DoneSeq(cons_idx) = 2 * cons_idx + 2
      /\ cons_idx' = cons_idx + 1
  <2>1. cons_idx \in 0 .. MaxPosts /\ cons_idx < MaxPosts
    BY <1>1, <1>t, FioConstants
  <2> QED
    BY Zenon, <2>1, Numbers DEF Reap
<1>4. cons_idx < index
  <2>1. work[PlaceOf(cons_idx)].seq = 2 * cons_idx + 2
    BY Zenon, <1>0, <1>3 DEF RequestDone
  <2>2. CASE cons_idx = index
    <3>1. cons_idx \in index .. prod_idx - 1
      BY <2>2, <1>1, <1>t
    <3>2. work[PlaceOf(cons_idx)].seq = 2 * cons_idx + 1
      BY Zenon, <3>1, <1>p DEF WorkInv
    <3> QED
      BY <3>2, <2>1, <1>t
  <2> QED
    BY <2>2, <1>1, <1>t
<1>5. /\ PlaceOf(cons_idx) \in WorkPlaces
      /\ \A i \in cons_idx + 1 .. prod_idx - 1 : PlaceOf(i) # PlaceOf(cons_idx)
  <2>1. \A i \in cons_idx + 1 .. prod_idx - 1 :
          i \in Nat /\ i # cons_idx /\ i - cons_idx < IoDepth /\ cons_idx - i < IoDepth
    BY <1>1, <1>t, FioConstants
  <2> QED
    BY Zenon, <2>1, <1>t, Places
<1>6. /\ work' \in [WorkPlaces -> [seq : Nat, cmd : CommandOrNone]]
      /\ work'[PlaceOf(cons_idx)].seq = 0
      /\ \A p \in WorkPlaces : p # PlaceOf(cons_idx) => work'[p] = work[p]
  <2>1. work' = [work EXCEPT ![PlaceOf(cons_idx)].seq = 0]
    BY Zenon DEF Reap
  <2> QED
    BY Zenon, <2>1, <1>t, <1>5
<1>7. CpuTypes'
  BY <1>0, <1>3, <1>6, <1>p DEF CpuTypes
<1>8. CountInv'
  <2>1. opOf[ring[ring_tail]] = cons_idx
    <3>1. cons_idx \in cons_idx .. posted - 1
      BY <1>1, <1>t
    <3> QED
      BY Zenon, <3>1, <1>p DEF RingInv
  <2>2. reaped' = reaped \union {cons_idx}
    BY Zenon, <2>1 DEF Reap
  <2>3. reaped' \subseteq 0 .. cons_idx' - 1
    BY <2>2, <1>3, <1>t, <1>p DEF CountInv
  <2> QED
    BY <2>3, <1>0, <1>1, <1>2, <1>3, <1>4, <1>t, <1>p, FioConstants DEF CountInv
<1>9. RingInv'
  <2>1. ring_tail' = cons_idx' % RingSize
    <3>1. ring_tail' = ((cons_idx % RingSize) + 1) % RingSize
      BY Zenon, <1>p DEF Reap, NextPlace, RingInv
    <3> QED
      BY Zenon, <3>1, <1>3, <1>t, ModAdd, FioConstants
  <2>2. ring_count' = posted' - cons_idx'
    BY <1>0, <1>3, <1>t, <1>p DEF Reap, RingInv
  <2>3. \A i \in cons_idx' .. posted' - 1 : i \in cons_idx .. posted - 1
    BY <1>0, <1>3, <1>t
  <2> QED
    BY Zenon, <2>1, <2>2, <2>3, <1>0, <1>p DEF RingInv
<1>10. WorkInv'
  <2>1. ASSUME NEW i \in cons_idx + 1 .. prod_idx - 1
        PROVE  work'[PlaceOf(i)] = work[PlaceOf(i)] /\ i \in cons_idx .. prod_idx - 1
    BY <1>5, <1>6, <1>t, Places
  <2>2. \A i \in cons_idx' .. index - 1 : work'[PlaceOf(i)].seq = 2 * i + 2
    <3>1. \A i \in cons_idx' .. index - 1 :
            i \in cons_idx .. index - 1 /\ i \in cons_idx + 1 .. prod_idx - 1
      BY <1>1, <1>3, <1>t
    <3> QED
      BY Zenon, <3>1, <2>1, <1>p DEF WorkInv
  <2>3. \A i \in index .. prod_idx - 1 :
          work'[PlaceOf(i)].seq = 2 * i + 1 /\ work'[PlaceOf(i)].cmd.op = i
    <3>1. \A i \in index .. prod_idx - 1 : i \in cons_idx + 1 .. prod_idx - 1
      BY <1>4, <1>t
    <3> QED
      BY <3>1, <2>1, <1>1, <1>p DEF WorkInv
  <2>4. ASSUME NEW p \in WorkPlaces, work'[p].seq # 0
        PROVE  \E i \in cons_idx' .. prod_idx - 1 : p = PlaceOf(i)
    <3>1. p # PlaceOf(cons_idx) /\ work[p].seq # 0
      BY Zenon, <2>4, <1>6
    <3>2. PICK i \in cons_idx .. prod_idx - 1 : p = PlaceOf(i)
      BY Zenon, <3>1, <1>p DEF WorkInv
    <3>3. i # cons_idx
      BY Zenon, <3>1, <3>2
    <3>4. i \in cons_idx' .. prod_idx - 1
      BY <3>2, <3>3, <1>3, <1>t
    <3> QED
      BY Zenon, <3>2, <3>4
  <2> QED
    BY Zenon, <2>2, <2>3, <2>4, <1>0, <1>1, <1>2 DEF WorkInv, PlaceOf
<1> QED
  BY Zenon, <1>0, <1>7, <1>8, <1>9, <1>10, ThreadKeeps DEF FioInv

LEMMA CloseFio ==
    ASSUME FioInv, CloseFile \/ Closed
    PROVE  FioInv'
<1>1. /\ UNCHANGED <<queueVars, gpuVars, work, ring, ring_head, ring_tail, ring_count,
                     prod_idx, cons_idx, opOf, posted, reaped>>
      /\ cpu \in {"run", "closing"} /\ cpu' \in {"closing", "closed"}
  BY Zenon DEF CloseFile, Closed
<1>2. UNCHANGED <<gpu, index>>
  BY Zenon, <1>1 DEF gpuVars
<1>3. CpuTypes' /\ CountInv' /\ RingInv' /\ WorkInv'
  BY Zenon, <1>1, <1>2 DEF FioInv, CpuTypes, CpuSteps, CountInv, RingInv, WorkInv, PlaceOf
<1> QED
  BY Zenon, <1>1, <1>3, ThreadKeeps DEF FioInv

-----------------------------------------------------------------------------
(* The kernel and the controller.                                          *)

\* The rings are the thread's to change, and the work ring's marks Signal's.
LEMMA KernelKeeps ==
    ASSUME CpuTypes, CountInv, RingInv, WorkInv, UNCHANGED <<cpuVars, work, index>>,
           gpu' \in GpuBusy => index < prod_idx
    PROVE  CpuTypes' /\ CountInv' /\ RingInv' /\ WorkInv'
<1>1. UNCHANGED <<ring, ring_head, ring_tail, ring_count, prod_idx, cons_idx, cpu, opOf,
                  posted, reaped, work, index>>
  BY Zenon DEF cpuVars
<1> QED
  BY <1>1 DEF CpuTypes, CountInv, RingInv, WorkInv, PlaceOf

LEMMA StepNames ==
    /\ "top" \in GpuBetween /\ "wait" \in GpuBetween
    /\ {"ring", "first", "spin", "cqring", "signal"} = GpuBusy
    /\ GpuBetween \intersect GpuBusy = {} /\ "exit" \notin GpuBetween \union GpuBusy
    /\ GpuBetween = {"top", "wait"}
  BY Zenon DEF GpuBetween, GpuBusy

LEMMA SlotsNext ==
    /\ Slots \subseteq Nat
    /\ \A i \in Slots : /\ Advance(i, 1) \in Slots
                        /\ Advance(i, 1) = IF i + 1 = QueueSize THEN 0 ELSE i + 1
<1>1. ASSUME NEW i \in Slots
      PROVE  Advance(i, 1) = IF i + 1 = QueueSize THEN 0 ELSE i + 1
  BY Zenon, FioConstants, ModNext DEF Slots, Advance
<1> QED
  BY <1>1, FioConstants DEF Slots

\* The steps that only move the kernel: it goes to wait for work, to spin, or
\* out of its loop on a stop.
LEMMA GotoFio ==
    ASSUME FioInv, NEW step, Goto(step),
           \/ gpu = "top" /\ step \in {"exit", "wait"}
           \/ gpu = "wait" /\ step = "exit"
           \/ gpu = "first" /\ step \in {"exit", "spin"}
           \/ gpu = "spin" /\ step = "exit"
    PROVE  FioInv'
<1>1. /\ gpu' = step
      /\ UNCHANGED <<cpuVars, work, index, sq, cq, sqTailDb, fetchHead, postTail, postPhase,
                     inflight, log, sq_tail, cq_head, expected_phase>>
  BY Zenon DEF Goto, queueVars
<1>2. gpu' \in GpuBusy => index < prod_idx
  BY Zenon, <1>1, StepNames DEF FioInv, CountInv
<1>3. CpuTypes' /\ CountInv' /\ RingInv' /\ WorkInv'
  BY Zenon, <1>1, <1>2, KernelKeeps DEF FioInv
<1>4. GpuTypes' /\ PhaseInv' /\ InOrderOnce'
  BY Zenon, <1>1, StepNames DEF FioInv, GpuTypes, PhaseInv, InOrderOnce
<1>5. PairInv'
  <2>1. /\ Quiet' <=> Quiet
        /\ Level' <=> Level
        /\ Unfetched' <=> Unfetched
        /\ Fetched' <=> Fetched
        /\ Completed' <=> Completed
    BY Zenon, <1>1 DEF Quiet, Level, Unfetched, Fetched, Completed, Advance, NextPhase
  <2>2. PairInv
    BY Zenon DEF FioInv
  <2>3. CASE gpu \in {"top", "wait"}
    <3>1. Quiet /\ Level /\ Len(log) = index /\ sq_tail = sqTailDb
      BY Zenon, <2>2, <2>3, StepNames DEF PairInv
    <3> QED
      BY Zenon, <2>1, <2>3, <3>1, <1>1, StepNames DEF PairInv
  <2>4. CASE gpu \in {"first", "spin"}
    <3>1. sq_tail = sqTailDb /\ (Unfetched \/ Fetched \/ Completed)
      BY Zenon, <2>2, <2>4 DEF PairInv
    <3> QED
      BY Zenon, <2>1, <2>4, <3>1, <1>1, StepNames DEF PairInv
  <2> QED
    BY Zenon, <2>3, <2>4
<1> QED
  BY Zenon, <1>3, <1>4, <1>5 DEF FioInv

\* A place of the work ring that has the number of the next posting holds that
\* posting, not an earlier one.
LEMMA TakeFio ==
    ASSUME NoWrap, FioInv, TakeItem
    PROVE  FioInv'
<1>p. CpuTypes /\ GpuTypes /\ CountInv /\ RingInv /\ WorkInv /\ PhaseInv /\ PairInv
  BY Zenon DEF FioInv
<1>t. /\ posted \in 0 .. MaxPosts /\ cons_idx \in Nat /\ index \in Nat /\ prod_idx \in 0 .. MaxPosts
      /\ work \in [WorkPlaces -> [seq : Nat, cmd : CommandOrNone]]
      /\ sq \in [Slots -> CommandOrNone] /\ sq_tail \in Slots
  BY Zenon, <1>p DEF CpuTypes, GpuTypes
<1>0. /\ gpu = "wait" /\ gpu' = "ring" /\ sq_tail' = Advance(sq_tail, 1)
      /\ sq' = [sq EXCEPT ![sq_tail] = work[PlaceOf(index)].cmd]
      /\ UNCHANGED <<cpuVars, work, index, cq, sqTailDb, fetchHead, postTail, postPhase,
                     inflight, log, cq_head, expected_phase>>
  BY Zenon DEF TakeItem, SqeWrite, XioComEnqueue, controllerVars
<1>1. cons_idx <= index /\ index <= prod_idx /\ prod_idx <= posted
  BY <1>p, <1>t DEF CountInv
<1>2. index < prod_idx
  <2>1. index \in 0 .. MaxPosts
    BY <1>1, <1>t, FioConstants
  <2>2. work[PlaceOf(index)].seq = 2 * index + 1 /\ PlaceOf(index) \in WorkPlaces
    BY <2>1, Numbers, Places DEF TakeItem, HasWork
  <2>3. work[PlaceOf(index)].seq # 0
    BY <2>2, <1>t
  <2>4. PICK i \in cons_idx .. prod_idx - 1 : PlaceOf(index) = PlaceOf(i)
    BY Zenon, <2>2, <2>3, <1>p DEF WorkInv
  <2>5. CASE i < index
    <3>1. i \in cons_idx .. index - 1
      BY <2>5, <1>t
    <3>2. work[PlaceOf(i)].seq = 2 * i + 2
      BY Zenon, <3>1, <1>p DEF WorkInv
    <3> QED
      BY <3>2, <2>2, <2>4, <1>t
  <2> QED
    BY <2>5, <1>t
<1>3. work[PlaceOf(index)].cmd.op = index /\ work[PlaceOf(index)].cmd \in CommandOrNone
  <2>1. index \in index .. posted - 1 /\ PlaceOf(index) \in WorkPlaces
    BY <1>1, <1>2, <1>t, Places
  <2> QED
    BY Zenon, <2>1, <1>t, <1>p DEF WorkInv
<1>4. CpuTypes' /\ CountInv' /\ RingInv' /\ WorkInv'
  BY Zenon, <1>0, <1>2, <1>p, KernelKeeps
<1>5. GpuTypes'
  BY Zenon, <1>0, <1>3, <1>t, <1>p, SlotsNext, StepNames DEF GpuTypes
<1>6. PairInv'
  <2>1. Quiet /\ Level /\ Len(log) = index /\ sq_tail = sqTailDb
    BY Zenon, <1>0, <1>p, StepNames DEF PairInv
  <2>2. Quiet' /\ Level'
    BY Zenon, <2>1, <1>0 DEF Quiet, Level
  <2>3. sq_tail' = Advance(sqTailDb', 1) /\ sq'[sqTailDb'].op = index'
    BY Zenon, <2>1, <1>0, <1>3, <1>t
  <2>4. Len(log') = index'
    BY Zenon, <2>1, <1>0
  <2>5. gpu' \notin GpuBetween /\ gpu' = "ring"
    BY Zenon, <1>0, StepNames
  <2> QED
    BY Zenon, <2>2, <2>3, <2>4, <2>5 DEF PairInv
<1>7. PhaseInv' /\ InOrderOnce'
  BY Zenon, <1>0 DEF FioInv, PhaseInv, InOrderOnce
<1> QED
  BY Zenon, <1>4, <1>5, <1>6, <1>7 DEF FioInv

LEMMA RingFio ==
    ASSUME FioInv, RingSq \/ RingCq
    PROVE  FioInv'
<1>p. CpuTypes /\ GpuTypes /\ CountInv /\ RingInv /\ WorkInv /\ PhaseInv /\ PairInv
  BY Zenon DEF FioInv
<1>0. /\ \/ gpu = "ring" /\ gpu' = "first" /\ sqTailDb' = sq_tail
         \/ gpu = "cqring" /\ gpu' = "signal" /\ UNCHANGED sqTailDb
      /\ UNCHANGED <<cpuVars, work, index, sq, cq, fetchHead, postTail, postPhase,
                     inflight, log, sq_tail, cq_head, expected_phase>>
  BY Zenon DEF RingSq, RingCq, RingSqDoorbell, RingCqDoorbell, XioComDoorbell, controllerVars
<1>1. gpu' \in GpuBusy => index < prod_idx
  BY Zenon, <1>0, <1>p, StepNames DEF CountInv
<1>2. CpuTypes' /\ CountInv' /\ RingInv' /\ WorkInv'
  BY Zenon, <1>0, <1>1, <1>p, KernelKeeps
<1>3. GpuTypes' /\ PhaseInv' /\ InOrderOnce'
  BY Zenon, <1>0, StepNames DEF FioInv, GpuTypes, PhaseInv, InOrderOnce
<1>4. PairInv'
  <2>1. CASE gpu = "ring"
    <3>1. /\ Quiet /\ Level /\ Len(log) = index
          /\ sq_tail = Advance(sqTailDb, 1) /\ sq[sqTailDb].op = index
      BY Zenon, <2>1, <1>p DEF PairInv
    <3>2. Unfetched' /\ sq_tail' = sqTailDb'
      BY Zenon, <2>1, <3>1, <1>0 DEF Unfetched, Quiet, Level, Advance
    <3>3. gpu' = "first" /\ gpu' \notin GpuBetween
      BY Zenon, <2>1, <1>0, StepNames
    <3> QED
      BY Zenon, <3>2, <3>3 DEF PairInv
  <2>2. CASE gpu = "cqring"
    <3>1. Quiet /\ Level /\ Len(log) = index + 1 /\ sq_tail = sqTailDb
      BY Zenon, <2>2, <1>p DEF PairInv
    <3>2. Quiet' /\ Level' /\ Len(log') = index' + 1 /\ sq_tail' = sqTailDb'
      BY Zenon, <2>2, <3>1, <1>0 DEF Quiet, Level
    <3>3. gpu' = "signal" /\ gpu' \notin GpuBetween
      BY Zenon, <2>2, <1>0, StepNames
    <3> QED
      BY Zenon, <3>2, <3>3 DEF PairInv
  <2> QED
    BY Zenon, <2>1, <2>2, <1>0
<1> QED
  BY Zenon, <1>2, <1>3, <1>4 DEF FioInv

\* The completion the kernel takes is the one of its command: as long as that
\* is not posted, the place has the phase of the pass before.
LEMMA CqeFio ==
    ASSUME FioInv, gpu \in {"first", "spin"}, CqeReady(cq_head, expected_phase), TakeCqe
    PROVE  FioInv'
<1>p. CpuTypes /\ GpuTypes /\ CountInv /\ RingInv /\ WorkInv /\ PhaseInv /\ PairInv
  BY Zenon DEF FioInv
<1>0. /\ cq_head' = Advance(cq_head, 1)
      /\ expected_phase' = NextPhase(cq_head, expected_phase)
      /\ gpu' = "cqring"
      /\ UNCHANGED <<cpuVars, work, index, sq, cq, sqTailDb, fetchHead, postTail, postPhase,
                     inflight, log, sq_tail>>
  BY Zenon DEF TakeCqe, queueVars
<1>1. Completed /\ sq_tail = sqTailDb
  <2>1. sq_tail = sqTailDb /\ (Unfetched \/ Fetched \/ Completed)
    BY Zenon, <1>p DEF PairInv
  <2>2. ASSUME Level PROVE FALSE
    <3>1. cq[postTail].phase = postPhase /\ postTail \in Slots /\ postPhase \in {0, 1}
      BY Zenon, <2>2, <1>p DEF CqeReady, XioComDequeue, Level, GpuTypes, Phases
    <3>2. ~(postTail < postTail)
      BY <3>1, SlotsNext
    <3>3. cq[postTail].phase = 1 - postPhase
      BY Zenon, <3>1, <3>2, <1>p DEF PhaseInv
    <3> QED
      BY <3>1, <3>3
  <2> QED
    BY Zenon, <2>1, <2>2 DEF Unfetched, Fetched
<1>2. gpu' \in GpuBusy => index < prod_idx
  BY Zenon, <1>p, StepNames DEF CountInv
<1>3. CpuTypes' /\ CountInv' /\ RingInv' /\ WorkInv'
  BY Zenon, <1>0, <1>2, <1>p, KernelKeeps
<1>4. GpuTypes'
  <2>1. NextPhase(cq_head, expected_phase) \in Phases /\ Advance(cq_head, 1) \in Slots
    BY <1>p, SlotsNext DEF GpuTypes, NextPhase, Phases
  <2> QED
    BY Zenon, <2>1, <1>0, <1>p, StepNames DEF GpuTypes
<1>5. PairInv'
  <2>1. Quiet' /\ Level' /\ Len(log') = index' + 1 /\ sq_tail' = sqTailDb'
    BY Zenon, <1>0, <1>1 DEF Completed, Quiet, Level
  <2>2. gpu' = "cqring" /\ gpu' \notin GpuBetween
    BY Zenon, <1>0, StepNames
  <2> QED
    BY Zenon, <2>1, <2>2 DEF PairInv
<1>6. PhaseInv' /\ InOrderOnce'
  BY Zenon, <1>0 DEF FioInv, PhaseInv, InOrderOnce
<1> QED
  BY Zenon, <1>3, <1>4, <1>5, <1>6 DEF FioInv

\* The mark goes to the place of the request the kernel worked on.
LEMMA SignalFio ==
    ASSUME NoWrap, FioInv, Signal
    PROVE  FioInv'
<1>p. CpuTypes /\ GpuTypes /\ CountInv /\ RingInv /\ WorkInv /\ PhaseInv /\ PairInv
  BY Zenon DEF FioInv
<1>t. /\ posted \in 0 .. MaxPosts /\ cons_idx \in Nat /\ index \in Nat /\ prod_idx \in 0 .. MaxPosts
      /\ work \in [WorkPlaces -> [seq : Nat, cmd : CommandOrNone]]
  BY Zenon, <1>p DEF CpuTypes, GpuTypes
<1>0. /\ gpu = "signal" /\ gpu' = "top"
      /\ UNCHANGED <<cpuVars, queueVars, sq_tail, cq_head, expected_phase>>
  BY Zenon DEF Signal
<1>u. UNCHANGED <<ring, ring_head, ring_tail, ring_count, prod_idx, cons_idx, cpu, opOf,
                  posted, reaped, sq, cq, sqTailDb, fetchHead, postTail, postPhase,
                  inflight, log>>
  BY Zenon, <1>0 DEF cpuVars, queueVars
<1>1. /\ cons_idx <= index /\ index < prod_idx /\ prod_idx <= posted
      /\ posted - cons_idx <= IoDepth
  BY <1>0, <1>p, <1>t, StepNames DEF CountInv
<1>2. /\ index \in 0 .. MaxPosts /\ DoneSeq(index) = 2 * index + 2 /\ index' = index + 1
  <2>1. index \in 0 .. MaxPosts /\ index < MaxPosts
    BY <1>1, <1>t, FioConstants
  <2> QED
    BY Zenon, <2>1, Numbers DEF Signal
<1>3. /\ PlaceOf(index) \in WorkPlaces
      /\ \A i \in cons_idx .. posted - 1 : i # index => PlaceOf(i) # PlaceOf(index)
  <2>1. \A i \in cons_idx .. posted - 1 :
          i \in Nat /\ i - index < IoDepth /\ index - i < IoDepth
    BY <1>1, <1>t, FioConstants
  <2> QED
    BY Zenon, <2>1, <1>t, Places
<1>4. /\ work' \in [WorkPlaces -> [seq : Nat, cmd : CommandOrNone]]
      /\ work'[PlaceOf(index)].seq = 2 * index + 2
      /\ \A p \in WorkPlaces : p # PlaceOf(index) => work'[p] = work[p]
  <2>1. PICK s \in Nat : s = 2 * index + 2
    BY <1>t
  <2>2. work' = [work EXCEPT ![PlaceOf(index)].seq = s]
    BY Zenon, <1>2, <2>1 DEF Signal
  <2>3. /\ work' \in [WorkPlaces -> [seq : Nat, cmd : CommandOrNone]]
        /\ work'[PlaceOf(index)].seq = s
        /\ \A p \in WorkPlaces : p # PlaceOf(index) => work'[p] = work[p]
    BY Zenon, <2>2, <1>t, <1>3
  <2> QED
    BY Zenon, <2>1, <2>3
<1>5. CpuTypes' /\ RingInv' /\ PhaseInv' /\ InOrderOnce'
  BY Zenon, <1>u, <1>4, <1>p DEF FioInv, CpuTypes, RingInv, PhaseInv, InOrderOnce
<1>6. GpuTypes'
  BY <1>0, <1>u, <1>2, <1>t, <1>p, StepNames DEF GpuTypes
<1>7. CountInv'
  <2>1. gpu' \notin GpuBusy
    BY Zenon, <1>0, StepNames
  <2> QED
    BY <2>1, <1>u, <1>1, <1>2, <1>t, <1>p DEF CountInv
<1>8. WorkInv'
  <2>1. ASSUME NEW i \in cons_idx .. posted - 1, i # index
        PROVE  work'[PlaceOf(i)] = work[PlaceOf(i)]
    BY <2>1, <1>3, <1>4, <1>t, Places
  <2>2. ASSUME NEW i \in cons_idx .. index PROVE work'[PlaceOf(i)].seq = 2 * i + 2
    <3>1. CASE i = index
      BY Zenon, <3>1, <1>4
    <3>2. CASE i # index
      <4>1. i \in cons_idx .. index - 1 /\ i \in cons_idx .. posted - 1
        BY <3>2, <1>1, <1>t
      <4> QED
        BY Zenon, <3>2, <4>1, <2>1, <1>p DEF WorkInv
    <3> QED
      BY Zenon, <3>1, <3>2
  <2>3. \A i \in index + 1 .. prod_idx - 1 : work'[PlaceOf(i)].seq = 2 * i + 1
    <3>1. \A i \in index + 1 .. prod_idx - 1 :
            i \in index .. prod_idx - 1 /\ i \in cons_idx .. posted - 1 /\ i # index
      BY <1>1, <1>t
    <3> QED
      BY Zenon, <3>1, <2>1, <1>p DEF WorkInv
  <2>4. \A i \in index + 1 .. posted - 1 : work'[PlaceOf(i)].cmd.op = i
    <3>1. \A i \in index + 1 .. posted - 1 :
            i \in index .. posted - 1 /\ i \in cons_idx .. posted - 1 /\ i # index
      BY <1>1, <1>t
    <3> QED
      BY Zenon, <3>1, <2>1, <1>p DEF WorkInv
  <2>5. ASSUME NEW p \in WorkPlaces, work'[p].seq # 0
        PROVE  \E i \in cons_idx .. prod_idx - 1 : p = PlaceOf(i)
    <3>1. index \in cons_idx .. prod_idx - 1
      BY <1>1, <1>t
    <3> QED
      BY Zenon, <2>5, <3>1, <1>4, <1>p DEF WorkInv
  <2>6. cons_idx .. index' - 1 = cons_idx .. index
    BY <1>2, <1>t
  <2> QED
    BY Zenon, <2>2, <2>3, <2>4, <2>5, <2>6, <1>u, <1>2 DEF WorkInv, PlaceOf
<1>9. PairInv'
  <2>1. Quiet /\ Level /\ Len(log) = index + 1 /\ sq_tail = sqTailDb
    BY Zenon, <1>0, <1>p DEF PairInv
  <2>2. Quiet' /\ Level' /\ Len(log') = index' /\ sq_tail' = sqTailDb'
    BY Zenon, <2>1, <1>0, <1>u, <1>2 DEF Quiet, Level
  <2> QED
    BY Zenon, <2>2, <1>0 DEF PairInv
<1> QED
  BY Zenon, <1>5, <1>6, <1>7, <1>8, <1>9 DEF FioInv

\* The controller takes the one command there is, and its steps leave the
\* kernel where it is.
LEMMA FetchFio ==
    ASSUME FioInv, Fetch, UNCHANGED <<cpuVars, gpuVars, work>>
    PROVE  FioInv'
<1>p. CpuTypes /\ GpuTypes /\ CountInv /\ RingInv /\ WorkInv /\ PhaseInv /\ PairInv
  BY Zenon DEF FioInv
<1>0. /\ fetchHead # sqTailDb /\ inflight' = Append(inflight, sq[fetchHead])
      /\ fetchHead' = Advance(fetchHead, 1)
      /\ UNCHANGED <<cpuVars, work, gpu, index, sq_tail, cq_head, expected_phase,
                     sq, cq, sqTailDb, postTail, postPhase, log>>
  BY Zenon DEF Fetch, gpuVars
<1>1. CpuTypes' /\ CountInv' /\ RingInv' /\ WorkInv'
  <2>1. gpu' \in GpuBusy => index < prod_idx
    BY Zenon, <1>0, <1>p DEF CountInv
  <2> QED
    BY Zenon, <2>1, <1>0, <1>p, KernelKeeps
<1>2. GpuTypes'
  <2>1. fetchHead \in Slots /\ sq[fetchHead] \in CommandOrNone /\ inflight \in Seq(CommandOrNone)
    BY <1>p DEF GpuTypes
  <2>2. fetchHead' \in Slots
    BY Zenon, <1>0, <2>1, SlotsNext
  <2>3. inflight' \in Seq(CommandOrNone)
    BY <1>0, <2>1
  <2> QED
    BY Zenon, <1>0, <1>p, <2>2, <2>3 DEF GpuTypes
<1>3. PhaseInv' /\ InOrderOnce'
  BY Zenon, <1>0 DEF FioInv, PhaseInv, InOrderOnce
<1>4. Unfetched /\ gpu \in {"first", "spin", "exit"}
  <2>1. ~Quiet /\ ~Fetched /\ ~Completed
    BY Zenon, <1>0 DEF Quiet, Fetched, Completed
  <2>2. gpu \in {"top", "wait", "ring", "first", "spin", "cqring", "signal", "exit"}
    BY Zenon, <1>p, StepNames DEF GpuTypes
  <2> QED
    BY Zenon, <2>1, <2>2, <1>p, StepNames DEF PairInv
<1>5. Fetched'
  <2>1. inflight = <<>> /\ sqTailDb = Advance(fetchHead, 1) /\ sq[fetchHead].op = index
    BY Zenon, <1>4 DEF Unfetched
  <2>2. inflight' = <<sq[fetchHead]>>
    BY <2>1, <1>0
  <2>3. Len(inflight') = 1 /\ inflight'[1] = sq[fetchHead]
    BY Zenon, <2>2
  <2> QED
    BY Zenon, <2>1, <2>3, <1>0, <1>4 DEF Unfetched, Fetched, Level
<1>6. PairInv'
  <2>1. gpu \in {"first", "spin"} => sq_tail = sqTailDb
    BY Zenon, <1>p DEF PairInv
  <2>2. gpu' = gpu /\ gpu \notin GpuBetween
    BY Zenon, <1>0, <1>4, StepNames
  <2> QED
    BY Zenon, <2>1, <2>2, <1>0, <1>4, <1>5 DEF PairInv
<1> QED
  BY Zenon, <1>1, <1>2, <1>3, <1>6 DEF FioInv

\* The entry that is written gets the phase of this pass, and the log the next
\* request.
LEMMA CompleteFio ==
    ASSUME FioInv, NEW i \in DOMAIN inflight, NEW ok \in BOOLEAN, Complete(i, ok),
           UNCHANGED <<cpuVars, gpuVars, work>>
    PROVE  FioInv'
<1>p. CpuTypes /\ GpuTypes /\ CountInv /\ RingInv /\ WorkInv /\ PhaseInv /\ PairInv /\ InOrderOnce
  BY Zenon DEF FioInv
<1>0. /\ inflight' = SubSeq(inflight, 1, i - 1) \o SubSeq(inflight, i + 1, Len(inflight))
      /\ postTail' = Advance(postTail, 1)
      /\ postPhase' = IF Advance(postTail, 1) = 0 THEN 1 - postPhase ELSE postPhase
      /\ UNCHANGED <<cpuVars, work, gpu, index, sq_tail, cq_head, expected_phase,
                     sq, sqTailDb, fetchHead>>
  BY Zenon DEF Complete, gpuVars
<1>1. CpuTypes' /\ CountInv' /\ RingInv' /\ WorkInv'
  <2>1. gpu' \in GpuBusy => index < prod_idx
    BY Zenon, <1>0, <1>p DEF CountInv
  <2> QED
    BY Zenon, <2>1, <1>0, <1>p, KernelKeeps
<1>t. /\ inflight \in Seq(CommandOrNone) /\ postTail \in Slots /\ postPhase \in Phases
      /\ log \in Seq([cmd : CommandOrNone, ok : BOOLEAN]) /\ index \in Nat
      /\ cq \in [Slots -> [cmd : CommandOrNone, ok : BOOLEAN, phase : Phases]]
  BY Zenon, <1>p DEF GpuTypes
<1>2. Fetched /\ gpu \in {"first", "spin", "exit"}
  <2>1. inflight # <<>>
    BY <1>t
  <2>2. ~Quiet /\ ~Unfetched /\ ~Completed
    BY Zenon, <2>1 DEF Quiet, Unfetched, Completed
  <2>3. gpu \in {"top", "wait", "ring", "first", "spin", "cqring", "signal", "exit"}
    BY Zenon, <1>p, StepNames DEF GpuTypes
  <2> QED
    BY Zenon, <2>2, <2>3, <1>p, StepNames DEF PairInv
<1>3. /\ i = 1 /\ inflight[1].op = index /\ inflight[1] \in CommandOrNone
      /\ inflight' = <<>>
  <2>1. Len(inflight) = 1 /\ inflight[1].op = index
    BY Zenon, <1>2 DEF Fetched
  <2>2. i = 1 /\ inflight[1] \in CommandOrNone
    <3>1. DOMAIN inflight = 1 .. Len(inflight)
      BY <1>t
    <3>2. i \in 1 .. 1
      BY Zenon, <2>1, <3>1
    <3>3. \A k \in DOMAIN inflight : inflight[k] \in CommandOrNone
      BY <1>t
    <3> QED
      BY <3>2, <3>3
  <2>3. SubSeq(inflight, 1, 0) \o SubSeq(inflight, 2, Len(inflight))
          = SubSeq(inflight, 1, 0) \o SubSeq(inflight, 2, 1)
    BY Zenon, <2>1
  <2>4. SubSeq(inflight, 1, 0) = <<>> /\ SubSeq(inflight, 2, 1) = <<>>
    BY <1>t
  <2> QED
    BY <2>1, <2>2, <2>3, <2>4, <1>0
<1>4. PICK l \in [cmd : CommandOrNone, ok : BOOLEAN] :
        l.cmd.op = index /\ log' = Append(log, l)
  <2>1. PICK l : l = [cmd |-> inflight[1], ok |-> ok]
    BY Zenon
  <2>2. l \in [cmd : CommandOrNone, ok : BOOLEAN] /\ l.cmd = inflight[1]
    BY Zenon, <2>1, <1>3
  <2>3. log' = Append(log, l)
    BY Zenon, <2>1, <1>3 DEF Complete
  <2> QED
    BY Zenon, <2>2, <2>3, <1>3
<1>5. /\ cq' \in [Slots -> [cmd : CommandOrNone, ok : BOOLEAN, phase : Phases]]
      /\ cq'[postTail].phase = postPhase
      /\ \A s \in Slots : s # postTail => cq'[s] = cq[s]
  <2>1. PICK e : e = [cmd |-> inflight[1], ok |-> ok, phase |-> postPhase]
    BY Zenon
  <2>2. e \in [cmd : CommandOrNone, ok : BOOLEAN, phase : Phases] /\ e.phase = postPhase
    BY Zenon, <2>1, <1>3, <1>t
  <2>3. cq' = [cq EXCEPT ![postTail] = e]
    BY Zenon, <2>1, <1>3 DEF Complete
  <2> QED
    BY Zenon, <2>2, <2>3, <1>t
<1>6. Len(log') = Len(log) + 1 /\ Len(log) = index
  <2>1. Len(log) = index
    BY Zenon, <1>2 DEF Fetched
  <2>2. log \in Seq([cmd : CommandOrNone, ok : BOOLEAN])
    BY Zenon, <1>t
  <2>3. Len(log') = Len(log) + 1
    BY <2>2, <1>4
  <2> QED
    BY Zenon, <2>1, <2>3
<1>7. InOrderOnce'
  <2>1. ASSUME NEW k \in DOMAIN log' PROVE log'[k].cmd.op = k - 1
    <3>1. CASE k \in DOMAIN log
      BY <3>1, <1>4, <1>t, <1>p DEF InOrderOnce
    <3>2. CASE k \notin DOMAIN log
      <4>1. k = Len(log) + 1
        BY <2>1, <3>2, <1>4, <1>t
      <4> QED
        BY <4>1, <1>4, <1>6, <1>t
    <3> QED
      BY Zenon, <3>1, <3>2
  <2> QED
    BY Zenon, <2>1 DEF InOrderOnce
<1>8. postTail' \in Slots /\ postPhase' \in Phases
  BY <1>0, <1>t, SlotsNext DEF Phases
<1>9. PhaseInv'
  <2>1. SUFFICES ASSUME NEW s \in Slots
                 PROVE  cq'[s].phase = IF s < postTail' THEN postPhase' ELSE 1 - postPhase'
    BY Zenon DEF PhaseInv
  <2>2. /\ s \in 0 .. QueueSize - 1 /\ postTail \in 0 .. QueueSize - 1
        /\ postPhase \in {0, 1} /\ QueueSize \in Nat
    BY Zenon, <1>t, FioConstants DEF Slots, Phases
  <2>3. cq'[s].phase = IF s <= postTail THEN postPhase ELSE 1 - postPhase
    <3>1. CASE s = postTail
      BY <3>1, <2>2, <1>5
    <3>2. CASE s # postTail
      <4>1. cq[s].phase = IF s < postTail THEN postPhase ELSE 1 - postPhase
        BY Zenon, <1>p DEF PhaseInv
      <4> QED
        BY <3>2, <4>1, <2>2, <1>5
    <3> QED
      BY Zenon, <3>1, <3>2
  <2>4. CASE postTail + 1 = QueueSize
    <3>1. postTail' = 0 /\ postPhase' = 1 - postPhase
      BY Zenon, <2>4, <1>0, <1>t, SlotsNext
    <3> QED
      BY <3>1, <2>2, <2>3, <2>4
  <2>5. CASE postTail + 1 # QueueSize
    <3>1. Advance(postTail, 1) = postTail + 1
      BY Zenon, <2>5, <1>t, SlotsNext
    <3>2. postTail' = postTail + 1 /\ postPhase' = postPhase
      BY <3>1, <1>0, <2>2
    <3> QED
      BY <3>2, <2>2, <2>3
  <2> QED
    BY Zenon, <2>4, <2>5
<1>10. GpuTypes'
  <2>1. log' \in Seq([cmd : CommandOrNone, ok : BOOLEAN]) /\ inflight' \in Seq(CommandOrNone)
    BY <1>3, <1>4, <1>t
  <2> QED
    BY Zenon, <2>1, <1>0, <1>5, <1>8, <1>p DEF GpuTypes
<1>11. Completed'
  <2>1. postTail = cq_head /\ postPhase = expected_phase /\ fetchHead = sqTailDb
    BY Zenon, <1>2 DEF Fetched, Level
  <2>2. Quiet' /\ Len(log') = index' + 1
    BY Zenon, <2>1, <1>0, <1>3, <1>6 DEF Quiet
  <2>3. postTail' = Advance(cq_head', 1) /\ postPhase' = NextPhase(cq_head', expected_phase')
    BY Zenon, <2>1, <1>0 DEF NextPhase
  <2> QED
    BY Zenon, <2>2, <2>3 DEF Completed, Quiet, Advance, NextPhase
<1>12. PairInv'
  <2>1. gpu \in {"first", "spin"} => sq_tail = sqTailDb
    BY Zenon, <1>p DEF PairInv
  <2>2. gpu' = gpu /\ gpu \notin GpuBetween
    BY Zenon, <1>0, <1>2, StepNames
  <2> QED
    BY Zenon, <2>1, <2>2, <1>0, <1>2, <1>11 DEF PairInv
<1> QED
  BY Zenon, <1>1, <1>7, <1>9, <1>10, <1>12 DEF FioInv

LEMMA NextFio ==
    ASSUME NoWrap
    PROVE  FioInv /\ [Next]_vars => FioInv'
<1> SUFFICES ASSUME FioInv, [Next]_vars PROVE FioInv'
  BY Zenon
<1>1. ASSUME NEW u \in IoUs, QueueIo(u) PROVE FioInv'
  BY Zenon, <1>1, QueueFio
<1>2. CASE CloseFile \/ FioThread
  BY Zenon, <1>2, CloseFio, PublishFio, ReapFio DEF FioThread
<1>3. CASE Kernel
  <2>1. CASE CheckStop
    BY Zenon, <2>1, GotoFio DEF CheckStop
  <2>2. CASE WaitStop
    BY Zenon, <2>2, GotoFio DEF WaitStop
  <2>3. CASE PollStop
    BY Zenon, <2>3, GotoFio DEF PollStop
  <2>4. CASE PollFirst
    <3>1. CASE Goto("exit") \/ Goto("spin")
      BY Zenon, <2>4, <3>1, GotoFio DEF PollFirst
    <3>2. CASE CqeReady(cq_head, expected_phase) /\ TakeCqe
      BY Zenon, <2>4, <3>2, CqeFio DEF PollFirst
    <3> QED
      BY Zenon, <2>4, <3>1, <3>2 DEF PollFirst
  <2>5. CASE PollSpin
    BY Zenon, <2>5, CqeFio DEF PollSpin
  <2>6. CASE TakeItem \/ Signal \/ RingSq \/ RingCq
    BY Zenon, <2>6, TakeFio, SignalFio, RingFio
  <2> QED
    BY Zenon, <1>3, <2>1, <2>2, <2>3, <2>4, <2>5, <2>6 DEF Kernel
<1>4. CASE Controller /\ UNCHANGED <<cpuVars, gpuVars, work, stop_flag>>
  BY Zenon, <1>4, FetchFio, CompleteFio DEF Controller
<1>5. CASE UNCHANGED vars
  <2>1. UNCHANGED <<queueVars, gpuVars, cpuVars, work, index, gpu>>
    BY Zenon, <1>5 DEF vars, gpuVars
  <2>2. CpuTypes' /\ CountInv' /\ RingInv' /\ WorkInv'
    BY Zenon, <2>1, KernelKeeps DEF FioInv, CountInv
  <2> QED
    BY Zenon, <2>1, <2>2, ThreadKeeps DEF FioInv
<1> QED
  BY Zenon, <1>1, <1>2, <1>3, <1>4, <1>5 DEF Next

\* Whatever the depths of the rings and of the queue pair, the controller
\* executes the io_us in the order fio queued them, each once: no posting is
\* skipped, overwritten or taken twice when a ring wraps.
THEOREM ExecutedInOrder ==
    ASSUME NoWrap
    PROVE  Spec => []InOrderOnce
<1>1. FioInv => InOrderOnce
  BY Zenon DEF FioInv
<1> QED
  BY InitFio, NextFio, <1>1, PTL DEF Spec

\* And fio is told that an io_u is complete only when the controller has
\* executed it: neither a recycled place of the work ring nor an old entry of
\* the completion ring counts as its completion.
THEOREM ReapedStaysExecuted ==
    ASSUME NoWrap
    PROVE  Spec => []ReapedExecuted
<1>1. FioInv => ReapedExecuted
  <2> SUFFICES ASSUME FioInv, NEW op \in reaped PROVE op \in Executed
    BY Zenon DEF ReapedExecuted
  <2>1. /\ op \in 0 .. cons_idx - 1 /\ cons_idx <= index /\ cons_idx \in Nat /\ index \in Nat
        /\ log \in Seq([cmd : CommandOrNone, ok : BOOLEAN]) /\ InOrderOnce
    BY Zenon DEF FioInv, CountInv, CpuTypes, GpuTypes
  <2>2. Len(log) >= index
    <3>1. /\ gpu \in {"top", "wait", "ring", "first", "spin", "cqring", "signal", "exit"}
          /\ PairInv
      BY Zenon, StepNames DEF FioInv, GpuTypes
    <3>2. Len(log) = index \/ Len(log) = index + 1
      BY Zenon, <3>1, StepNames DEF PairInv, Unfetched, Fetched, Completed
    <3> QED
      BY <3>2, <2>1
  <2>3. op + 1 \in DOMAIN log
    BY <2>1, <2>2
  <2>4. log[op + 1].cmd.op = op
    BY <2>1, <2>3 DEF InOrderOnce
  <2> QED
    BY Zenon, <2>3, <2>4 DEF Executed
<1> QED
  BY InitFio, NextFio, <1>1, PTL DEF Spec
=============================================================================
