------------------------ MODULE RdmaEndpoint_proofs ------------------------
(***************************************************************************)
(* Proofs about the RDMA endpoint, for every depth of the rings, size of a *)
(* batch and number of iterations, and for the four providers: quiet()     *)
(* waits for what was posted, and no work request is written over one the  *)
(* NIC still has to read (RdmaEndpoint); and the libraries a provider is   *)
(* settled on have the functions that are called (RdmaLibs).               *)
(***************************************************************************)
EXTENDS RdmaEndpoint, RdmaLibs, TLAPS

-----------------------------------------------------------------------------
(* Division of integers.                                                   *)

\* A number is its quotient and its remainder.
LEMMA DivMod ==
    ASSUME NEW x \in Int, NEW d \in Nat \ {0}
    PROVE  /\ x \div d \in Int
           /\ x % d \in 0 .. d - 1
           /\ x = d * (x \div d) + (x % d)
  OBVIOUS

\* The same, with a name for each.
LEMMA DivPick ==
    ASSUME NEW x \in Int, NEW d \in Nat \ {0}
    PROVE  \E q \in Int, r \in 0 .. d - 1 : q = x \div d /\ r = x % d /\ x = d * q + r
  BY Zenon, DivMod

\* Quotient and remainder are unique.
LEMMA DivIs ==
    ASSUME NEW d \in Nat \ {0}, NEW x \in Int, NEW q \in Int, NEW r \in 0 .. d - 1,
           x = d * q + r
    PROVE  x \div d = q /\ x % d = r
<1>1. PICK a \in Int, s \in 0 .. d - 1 : a = x \div d /\ s = x % d /\ x = d * a + s
  BY Zenon, DivMod
<1>2. d * q + r = d * a + s
  BY <1>1
<1>3. a = q
  <2>1. ASSUME a > q PROVE FALSE
    <3>1. d * (a - q) >= d
      BY <2>1
    <3>2. d * (a - q) = d * a - d * q
      OBVIOUS
    <3> QED  BY <3>1, <3>2, <1>2
  <2>2. ASSUME a < q PROVE FALSE
    <3>1. d * (q - a) >= d
      BY <2>2
    <3>2. d * (q - a) = d * q - d * a
      OBVIOUS
    <3> QED  BY <3>1, <3>2, <1>2
  <2> QED  BY <2>1, <2>2
<1>4. s = r
  BY <1>2, <1>3
<1> QED
  BY Zenon, <1>1, <1>3, <1>4

\* A remainder is not changed by multiples of the divisor.
LEMMA ModShift ==
    ASSUME NEW d \in Nat \ {0}, NEW x \in Int, NEW y \in Int, NEW k \in Int, y = x + d * k
    PROVE  y % d = x % d /\ y \div d = (x \div d) + k
<1>1. PICK q \in Int, r \in 0 .. d - 1 : q = x \div d /\ r = x % d /\ x = d * q + r
  BY Zenon, DivMod
<1>2. d * (q + k) = d * q + d * k /\ q + k \in Int
  OBVIOUS
<1>3. y = d * (q + k) + r
  BY <1>1, <1>2
<1>4. PICK e \in Int : e = q + k /\ y = d * e + r
  BY Zenon, <1>2, <1>3
<1>5. y \div d = e /\ y % d = r
  BY Zenon, <1>4, DivIs
<1> QED
  BY Zenon, <1>1, <1>4, <1>5

\* A remainder may be taken of a summand first.
LEMMA ModPlus ==
    ASSUME NEW d \in Nat \ {0}, NEW x \in Int, NEW y \in Int
    PROVE  ((x % d) + y) % d = (x + y) % d
<1>1. PICK q \in Int, r \in 0 .. d - 1 : q = x \div d /\ r = x % d /\ x = d * q + r
  BY Zenon, DivMod
<1>2. x + y = (r + y) + d * q
  BY <1>1
<1>3. PICK u \in Int, v \in Int : u = r + y /\ v = x + y
  OBVIOUS
<1>4. v = u + d * q
  BY Zenon, <1>2, <1>3
<1>5. v % d = u % d
  BY Zenon, <1>4, ModShift
<1> QED
  BY Zenon, <1>1, <1>3, <1>5

\* Or of a subtrahend.
LEMMA ModMinus ==
    ASSUME NEW d \in Nat \ {0}, NEW x \in Int, NEW y \in Int
    PROVE  (y - (x % d)) % d = (y - x) % d
<1>1. PICK q \in Int, r \in 0 .. d - 1 : q = x \div d /\ r = x % d /\ x = d * q + r
  BY Zenon, DivMod
<1>2. y - r = (y - x) + d * q /\ y - x \in Int /\ y - r \in Int
  BY <1>1
<1>3. PICK e \in Int : e = y - r
  BY Zenon, <1>2
<1>4. PICK f \in Int : f = y - x
  BY Zenon, <1>2
<1>5. e = f + d * q
  BY Zenon, <1>2, <1>3, <1>4
<1>6. e % d = f % d
  BY Zenon, <1>1, <1>5, ModShift
<1> QED
  BY Zenon, <1>1, <1>3, <1>4, <1>6

\* A small number is its own remainder.
LEMMA ModSmall ==
    ASSUME NEW d \in Nat \ {0}, NEW x \in 0 .. d - 1
    PROVE  x % d = x
<1>1. x = d * 0 + x /\ x \in Int /\ 0 \in Int
  OBVIOUS
<1> QED
  BY Zenon, <1>1, DivIs

\* The distance of two counts on a ring.
LEMMA ModDistance ==
    ASSUME NEW d \in Nat \ {0}, NEW i \in Int, NEW j \in Int
    PROVE  ((j % d) - (i % d)) % d = (j - i) % d
<1>1. j % d \in Int /\ 0 - i \in Int
  BY DivMod
<1>2. ((j % d) - (i % d)) % d = ((j % d) - i) % d
  BY Zenon, <1>1, ModMinus
<1>3. ((j % d) + (0 - i)) % d = (j + (0 - i)) % d
  BY Zenon, <1>1, ModPlus
<1>4. (j % d) + (0 - i) = (j % d) - i /\ j + (0 - i) = j - i
  BY <1>1
<1> QED
  BY Zenon, <1>2, <1>3, <1>4

\* Counts less than a ring apart have different places.
LEMMA ModDistinct ==
    ASSUME NEW d \in Nat \ {0}, NEW i \in Int, NEW j \in Int, i < j, j - i < d
    PROVE  i % d # j % d
<1>1. SUFFICES ASSUME i % d = j % d PROVE FALSE
  BY Zenon
<1>2. ((j % d) - (j % d)) % d = (j - i) % d
  BY Zenon, <1>1, ModDistance
<1>3. (j % d) - (j % d) = 0 /\ 0 \in 0 .. d - 1
  BY DivMod
<1>4. j - i \in 0 .. d - 1
  OBVIOUS
<1>5. 0 % d = 0 /\ (j - i) % d = j - i
  BY Zenon, <1>3, <1>4, ModSmall
<1>6. j - i = 0
  BY Zenon, <1>2, <1>3, <1>5
<1> QED
  BY <1>6

\* The place in a ring of an index that wraps at a multiple of its size.
LEMMA ModNested ==
    ASSUME NEW d \in Nat \ {0}, NEW w \in Nat \ {0}, w % d = 0, NEW x \in Int
    PROVE  (x % w) % d = x % d
<1>0. w \in Int
  OBVIOUS
<1>1. PICK m \in Int, z \in 0 .. d - 1 : m = w \div d /\ z = w % d /\ w = d * m + z
  BY Zenon, <1>0, DivPick
<1>2. w = d * m
  BY <1>1
<1>3. PICK q \in Int, r \in 0 .. w - 1 : q = x \div w /\ r = x % w /\ x = w * q + r
  BY Zenon, DivPick
<1>4. (d * m) * q = d * (m * q) /\ m * q \in Int /\ r \in Int
  OBVIOUS
<1>5. x = r + d * (m * q)
  BY <1>2, <1>3, <1>4
<1>6. PICK k \in Int : k = m * q /\ x = r + d * k /\ r \in Int
  BY Zenon, <1>4, <1>5
<1>7. x % d = r % d
  BY Zenon, <1>6, ModShift
<1> QED
  BY Zenon, <1>3, <1>7

-----------------------------------------------------------------------------
(* RdmaEndpoint: the inductive invariant.                                  *)

\* What can be outstanding at once fits the completion queue, and half of the
\* range of a free-running counter; and a kernel that can be stopped, or posts to
\* a ring whose full and empty states look the same, keeps a slot of it free.
RingsFit ==
    \A c \in Configs :
        /\ c.batch <= c.cqDepth \/ c.depth <= c.cqDepth * WqeSlots(c)
        /\ c.provider \in {"mlx5", "ionic"} => 2 * c.depth <= Word
        /\ c.kernel # "caller" \/ c.provider \in {"bnxt", "ernic"} =>
             c.batch * WqeSlots(c) < c.depth

\* The steps of a batch.
InBatch == {"space", "write", "doorbell", "quiet"}

KernelSteps == InBatch \union {"top", "verify", "end", "abort"}

Completions == [wqe : Nat, lap : {0, 1}, ok : BOOLEAN]

EndpointTypes ==
    /\ config \in Configs
    /\ pc \in KernelSteps
    /\ opsDone \in Nat /\ batchCount \in Nat /\ b \in Nat
    /\ sq \in [0 .. config.depth - 1 -> Nat]
    /\ tail \in Nat /\ head \in Nat /\ posted \in Nat /\ cons \in Nat
    /\ doorbell \in Nat /\ done \in Nat
    /\ cq \in [0 .. config.cqDepth - 1 -> Completions]

\* Where work request k is written.
Place(k) == {((k - 1) * WqeSlots(config) + i) % config.depth : i \in 0 .. WqeSlots(config) - 1}

\* What a slot holds was written there.
PlacesInv ==
    \A s \in DOMAIN sq : sq[s] <= posted /\ (sq[s] # 0 => s \in Place(sq[s]))

\* The completion queue holds the newest completions, with the bit of their lap.
CqInv ==
    /\ \A n \in Nat : n < done /\ done <= n + config.cqDepth =>
         /\ cq[n % config.cqDepth].wqe = n + 1
         /\ cq[n % config.cqDepth].lap = (n \div config.cqDepth) % 2
    /\ \A n \in Nat : done <= n /\ n < done + config.cqDepth =>
         cq[n % config.cqDepth].lap # (n \div config.cqDepth) % 2

\* The tail counts what was posted.
TailInv ==
    tail = IF config.provider \in {"bnxt", "ernic"}
           THEN (posted * WqeSlots(config)) % config.depth ELSE posted % Word

\* The NIC has been told of no more than was posted, and of nothing in this batch before
\* its doorbell.
DoorbellInv ==
    /\ done <= doorbell /\ doorbell <= posted
    /\ ~RingsNow /\ pc \in {"space", "write", "doorbell"} => doorbell + b <= posted

\* The counts of the loops.
LoopInv ==
    /\ opsDone <= config.iterations
    /\ pc \in {"space", "write"} => b < batchCount
    /\ pc = "doorbell" => 0 < b
    /\ pc \in InBatch => b <= batchCount /\ batchCount <= config.batch
    /\ pc \in InBatch \union {"verify"} => opsDone + batchCount <= config.iterations
    /\ stop => config.kernel # "caller"

\* The indices of the consumer when it has taken h completions.
ConsumerInv(h) ==
    /\ config.provider = "ernic" => head = h % config.depth /\ cons = h % (2 * config.cqDepth)
    /\ config.provider # "ernic" => cons = h
    /\ config.provider = "bnxt" => head = (h * BnxtSlotCount) % config.depth
    /\ config.provider = "ionic" => head = h % Word

\* The slots the kernel lets be outstanding.
Capacity == IF config.provider = "mlx5" THEN config.depth ELSE config.depth - 1

\* What is posted and not taken is of this batch, and fits the ring; outside of a batch
\* there is none, unless the run is being stopped.
OutstandingInv(h) ==
    /\ h <= done
    /\ posted - h <= config.batch /\ (posted - h) * WqeSlots(config) <= Capacity
    /\ pc \in InBatch => posted - h <= b
    /\ pc = "write" => (posted + 1 - h) * WqeSlots(config) <= Capacity
    /\ pc \in {"top", "verify"} => stop \/ posted = h

\* A failure the loops of mlx5 and ionic have not met is still to be taken.
FailureInv(h) ==
    failed /\ config.provider \in {"mlx5", "ionic"} =>
        \E n \in Nat : h <= n /\ n < done /\ ~cq[n % config.cqDepth].ok

Held(h) == ConsumerInv(h) /\ OutstandingInv(h) /\ FailureInv(h)

QueueInv == PlacesInv /\ CqInv /\ TailInv /\ DoorbellInv

\* The inductive invariant.  Nothing is claimed once mlx5's loop has ended on the value its
\* available_slots was declared with.
EndpointInv ==
    /\ EndpointTypes /\ LoopInv
    /\ ~guessed => QueueInv /\ \E h \in Nat : Held(h)

-----------------------------------------------------------------------------

\* What is known of a configuration.
LEMMA ConfigFacts ==
    ASSUME RingsFit, config \in Configs
    PROVE  /\ config.depth \in Nat \ {0} /\ config.cqDepth \in Nat \ {0}
           /\ config.batch \in Nat \ {0} /\ config.iterations \in Nat \ {0}
           /\ config.provider \in Providers /\ config.kernel \in Kernels
<1>1. config \in ConfigType
  BY Zenon, ConfigAssumption
<1> QED
  BY <1>1 DEF ConfigType

LEMMA SlotFacts ==
    ASSUME RingsFit, config \in Configs
    PROVE  /\ WqeSlots(config) \in {1, 3}
           /\ config.provider = "bnxt" => WqeSlots(config) = 3
           /\ config.provider # "bnxt" => WqeSlots(config) = 1
  BY Zenon DEF WqeSlots, BnxtSlotCount

\* The hypothesis on the rings, for the configuration of the run.
LEMMA FitFacts ==
    ASSUME RingsFit, config \in Configs
    PROVE  /\ config.batch <= config.cqDepth \/ config.depth <= config.cqDepth * WqeSlots(config)
           /\ config.kernel # "caller" \/ config.provider \in {"bnxt", "ernic"} =>
                config.batch * WqeSlots(config) < config.depth
  BY Zenon DEF RingsFit

\* The range of a free-running counter.
LEMMA WordFacts ==
    ASSUME RingsFit, config \in Configs, config.provider \notin {"bnxt", "ernic"}
    PROVE  /\ Word \in Nat \ {0} /\ 2 * config.depth <= Word /\ Word % config.depth = 0
           /\ config.provider \in {"mlx5", "ionic"}
<1>1. config.provider \in {"mlx5", "ionic"} /\ config.provider # "bnxt"
  BY Zenon, ConfigFacts DEF Providers
<1>2. 2 * config.depth <= Word /\ Word \in Nat \ {0} /\ (Word * WqeSlots(config)) % config.depth = 0
  BY Zenon, <1>1, ConfigAssumption DEF RingsFit
<1>3. WqeSlots(config) = 1
  BY Zenon, <1>1, SlotFacts
<1>4. Word * 1 = Word
  BY <1>2
<1> QED
  BY Zenon, <1>1, <1>2, <1>3, <1>4

\* What is outstanding fits the completion queue.
LEMMA OutstandingFits ==
    ASSUME RingsFit, config \in Configs, posted \in Nat, NEW h \in Nat, OutstandingInv(h)
    PROVE  posted - h <= config.cqDepth
<1>1. PICK d \in Nat, q \in Nat, s \in {1, 3} :
        d = config.depth /\ q = config.cqDepth /\ s = WqeSlots(config)
  BY Zenon, ConfigFacts, SlotFacts
<1>2. PICK n \in Int : n = posted - h
  OBVIOUS
<1>3. n <= config.batch /\ n * s <= Capacity
  BY Zenon, <1>1, <1>2 DEF OutstandingInv
<1>4. Capacity <= d
  BY <1>1 DEF Capacity
<1>5. Capacity \in Int
  BY <1>1 DEF Capacity
<1>6. config.batch <= q \/ d <= q * s
  BY Zenon, <1>1, FitFacts
<1>7. config.batch \in Nat
  BY Zenon, ConfigFacts
<1> QED
  BY <1>1, <1>2, <1>3, <1>4, <1>5, <1>6, <1>7

\* Init: nothing is posted, and no completion has the bit of the first lap.
LEMMA InitEndpoint ==
    ASSUME RingsFit, Init
    PROVE  EndpointInv
<1>0. /\ config \in Configs /\ pc = "top" /\ opsDone = 0 /\ batchCount = 0 /\ b = 0 /\ ~stop
      /\ sq = [s \in 0 .. config.depth - 1 |-> 0]
      /\ tail = 0 /\ head = 0 /\ posted = 0 /\ cons = 0 /\ doorbell = 0 /\ done = 0 /\ ~failed
      /\ cq = [s \in 0 .. config.cqDepth - 1 |-> [wqe |-> 0, lap |-> 1, ok |-> TRUE]]
  BY Zenon DEF Init
<1>c. /\ config.depth \in Nat \ {0} /\ config.cqDepth \in Nat \ {0}
      /\ config.batch \in Nat \ {0} /\ config.iterations \in Nat \ {0}
      /\ config.provider \in Providers
  BY Zenon, <1>0, ConfigFacts
<1>n. 0 \in Nat /\ 0 \in Int
  OBVIOUS
<1>1. EndpointTypes
  <2>1. [wqe |-> 0, lap |-> 1, ok |-> TRUE] \in Completions
    BY Zenon, <1>n DEF Completions
  <2>2. pc \in KernelSteps
    BY Zenon, <1>0 DEF KernelSteps
  <2> QED
    BY Zenon, <1>0, <1>n, <2>1, <2>2 DEF EndpointTypes
<1>2. LoopInv
  <2>1. 0 <= config.iterations
    BY <1>c
  <2> QED
    BY Zenon, <1>0, <2>1 DEF LoopInv, InBatch
<1>3. PlacesInv
  <2>1. 0 <= 0
    OBVIOUS
  <2> QED
    BY Zenon, <1>0, <2>1 DEF PlacesInv
<1>4. CqInv
  <2>1. ASSUME NEW n \in Nat, 0 <= n, n < 0 + config.cqDepth
        PROVE  cq[n % config.cqDepth].lap # (n \div config.cqDepth) % 2
    <3>1. n \in 0 .. config.cqDepth - 1 /\ n = config.cqDepth * 0 + n /\ n \in Int
      BY <1>c, <2>1
    <3>2. n \div config.cqDepth = 0 /\ n % config.cqDepth = n
      BY Zenon, <3>1, <1>c, <1>n, DivIs
    <3>3. cq[n].lap = 1
      BY Zenon, <1>0, <3>1
    <3>4. 0 % 2 # 1
      OBVIOUS
    <3> QED
      BY Zenon, <3>2, <3>3, <3>4
  <2>2. \A n \in Nat : ~(n < 0)
    OBVIOUS
  <2> QED
    BY Zenon, <1>0, <2>1, <2>2 DEF CqInv
<1>5. TailInv
  <2>1. 0 \in 0 .. config.depth - 1 /\ 0 * WqeSlots(config) = 0
    BY <1>0, <1>c, SlotFacts
  <2>2. 0 % config.depth = 0
    BY Zenon, <2>1, <1>c, ModSmall
  <2>3. ASSUME config.provider \notin {"bnxt", "ernic"} PROVE 0 % Word = 0
    <3>1. Word \in Nat \ {0}
      BY Zenon, <1>0, <2>3, WordFacts
    <3>2. 0 \in 0 .. Word - 1
      BY <3>1
    <3> QED
      BY Zenon, <3>1, <3>2, ModSmall
  <2> QED
    BY Zenon, <1>0, <2>1, <2>2, <2>3 DEF TailInv
<1>6. DoorbellInv
  <2>1. 0 <= 0
    OBVIOUS
  <2> QED
    BY Zenon, <1>0, <2>1 DEF DoorbellInv
<1>7. Held(0)
  <2>1. 0 \in 0 .. config.depth - 1 /\ 0 \in 0 .. (2 * config.cqDepth) - 1
        /\ 2 * config.cqDepth \in Nat \ {0}
    BY <1>c
  <2>2. 0 % config.depth = 0 /\ 0 % (2 * config.cqDepth) = 0
    BY Zenon, <2>1, <1>c, ModSmall
  <2>3. ASSUME config.provider = "ionic" PROVE 0 % Word = 0
    <3>1. Word \in Nat \ {0}
      BY Zenon, <1>0, <2>3, WordFacts
    <3>2. 0 \in 0 .. Word - 1
      BY <3>1
    <3> QED
      BY Zenon, <3>1, <3>2, ModSmall
  <2>4. 0 * BnxtSlotCount = 0
    BY DEF BnxtSlotCount
  <2>5. ConsumerInv(0)
    BY Zenon, <1>0, <2>2, <2>3, <2>4 DEF ConsumerInv
  <2>6. /\ 0 <= 0 /\ 0 - 0 <= config.batch /\ (0 - 0) * WqeSlots(config) <= Capacity
    BY <1>0, <1>c, SlotFacts DEF Capacity
  <2>7. OutstandingInv(0)
    BY Zenon, <1>0, <2>6 DEF OutstandingInv, InBatch
  <2> QED
    BY Zenon, <1>0, <2>5, <2>7 DEF Held, FailureInv
<1> QED
  BY Zenon, <1>n, <1>1, <1>2, <1>3, <1>4, <1>5, <1>6, <1>7 DEF EndpointInv, QueueInv


-----------------------------------------------------------------------------
(* The steps that neither post a work request nor complete one.            *)

\* They leave alone what the rings hold.
LEMMA RingsKept ==
    ASSUME UNCHANGED <<config, sq, tail, posted, done, failed, cq>>
    PROVE  /\ PlacesInv => PlacesInv'
           /\ CqInv => CqInv'
           /\ TailInv => TailInv'
           /\ \A h : FailureInv(h) => FailureInv(h)'
           /\ WqeSlots(config)' = WqeSlots(config) /\ Capacity' = Capacity
           /\ RingsNow' = RingsNow
<1>0. /\ config' = config /\ sq' = sq /\ tail' = tail /\ posted' = posted /\ done' = done
      /\ failed' = failed /\ cq' = cq
  BY Zenon
<1>1. WqeSlots(config)' = WqeSlots(config) /\ Capacity' = Capacity /\ RingsNow' = RingsNow
  BY Zenon, <1>0 DEF WqeSlots, Capacity, RingsNow
<1>2. \A k : Place(k)' = Place(k)
  BY Zenon, <1>0, <1>1 DEF Place
<1>3. PlacesInv => PlacesInv'
  BY Zenon, <1>0, <1>2 DEF PlacesInv
<1>4. CqInv => CqInv'
  BY Zenon, <1>0 DEF CqInv
<1>5. TailInv => TailInv'
  BY Zenon, <1>0, <1>1 DEF TailInv
<1>6. ASSUME NEW h, FailureInv(h) PROVE FailureInv(h)'
  <2>1. SUFFICES ASSUME failed, config.provider \in {"mlx5", "ionic"}
                 PROVE  \E n \in Nat : h <= n /\ n < done' /\ ~cq'[n % config'.cqDepth].ok
    BY <1>0, <2>1 DEF FailureInv
  <2>2. PICK n \in Nat : h <= n /\ n < done /\ ~cq[n % config.cqDepth].ok
    BY Zenon, <1>6, <2>1 DEF FailureInv
  <2> QED
    BY Zenon, <1>0, <2>2
<1> QED
  BY Zenon, <1>1, <1>3, <1>4, <1>5, <1>6

\* What remains to be shown of such a step.
LEMMA KeptStep ==
    ASSUME EndpointInv, UNCHANGED <<config, sq, tail, posted, done, failed, cq>>,
           EndpointTypes', LoopInv', ~guessed' => ~guessed,
           ~guessed' /\ DoorbellInv => DoorbellInv',
           \A h \in Nat : ~guessed' /\ QueueInv /\ Held(h) =>
             \E g \in Nat : ConsumerInv(g)' /\ OutstandingInv(g)' /\ FailureInv(g)
    PROVE  EndpointInv'
<1>1. SUFFICES ASSUME ~guessed' PROVE QueueInv' /\ \E h \in Nat : Held(h)'
  BY Zenon DEF EndpointInv
<1>2. QueueInv /\ \E h \in Nat : Held(h)
  BY Zenon, <1>1 DEF EndpointInv
<1>3. QueueInv'
  BY Zenon, <1>1, <1>2, RingsKept DEF QueueInv
<1>4. PICK h \in Nat : Held(h)
  BY Zenon, <1>2
<1>5. PICK g \in Nat : ConsumerInv(g)' /\ OutstandingInv(g)' /\ FailureInv(g)
  BY Zenon, <1>1, <1>2, <1>4
<1>6. FailureInv(g)'
  BY Zenon, <1>5, RingsKept
<1> QED
  BY Zenon, <1>3, <1>5, <1>6 DEF Held

\* The top of a loop.
LEMMA NextBatchInv ==
    ASSUME RingsFit, EndpointInv, NextBatch
    PROVE  EndpointInv'
<1>p. EndpointTypes /\ LoopInv
  BY Zenon DEF EndpointInv
<1>0. /\ pc = "top" /\ config' = config /\ opsDone' = opsDone /\ stop' = stop /\ guessed' = guessed
      /\ sq' = sq /\ tail' = tail /\ head' = head /\ posted' = posted /\ cons' = cons
      /\ doorbell' = doorbell /\ done' = done /\ failed' = failed /\ cq' = cq
  BY Zenon DEF NextBatch, queueVars, nicVars, mlx5Vars
<1>c. config.iterations \in Nat /\ config.batch \in Nat \ {0} /\ opsDone \in Nat
      /\ opsDone <= config.iterations /\ posted \in Nat
  BY Zenon, <1>p, ConfigFacts DEF EndpointTypes, LoopInv
<1>1. CASE pc' = "end" /\ b' = b /\ batchCount' = batchCount
  <2>1. EndpointTypes'
    BY Zenon, <1>0, <1>1, <1>p DEF EndpointTypes, KernelSteps
  <2>2. LoopInv'
    BY Zenon, <1>0, <1>1, <1>p DEF LoopInv, InBatch
  <2>3. DoorbellInv => DoorbellInv'
    BY Zenon, <1>0, <1>1 DEF DoorbellInv
  <2>4. ASSUME NEW h \in Nat, Held(h)
        PROVE  ConsumerInv(h)' /\ OutstandingInv(h)' /\ FailureInv(h)
    <3>1. ConsumerInv(h)'
      BY Zenon, <2>4, <1>0 DEF Held, ConsumerInv
    <3>2. Capacity' = Capacity /\ WqeSlots(config') = WqeSlots(config)
      BY Zenon, <1>0 DEF Capacity
    <3>3. OutstandingInv(h)'
      BY Zenon, <2>4, <1>0, <1>1, <3>2 DEF Held, OutstandingInv, InBatch
    <3> QED
      BY Zenon, <2>4, <3>1, <3>3 DEF Held
  <2> QED
    BY Zenon, <1>0, <2>1, <2>2, <2>3, <2>4, KeptStep
<1>2. CASE /\ ~stop /\ pc' = "space" /\ b' = 0 /\ config.iterations - opsDone # 0
           /\ batchCount' = IF config.iterations - opsDone < config.batch
                            THEN config.iterations - opsDone ELSE config.batch
  <2>1. /\ batchCount' \in Nat /\ 0 < batchCount' /\ 0 <= batchCount' /\ batchCount' <= config.batch
        /\ opsDone + batchCount' <= config.iterations /\ 0 \in Nat
    BY <1>2, <1>c
  <2>2. EndpointTypes'
    BY Zenon, <1>0, <1>2, <2>1, <1>p DEF EndpointTypes, KernelSteps, InBatch
  <2>3. LoopInv'
    BY Zenon, <1>0, <1>2, <2>1, <1>p DEF LoopInv, InBatch
  <2>4. DoorbellInv => DoorbellInv'
    <3>1. doorbell <= posted => doorbell + 0 <= posted
      BY <1>p DEF EndpointTypes
    <3> QED
      BY Zenon, <1>0, <1>2, <3>1 DEF DoorbellInv
  <2>5. ASSUME NEW h \in Nat, Held(h)
        PROVE  ConsumerInv(h)' /\ OutstandingInv(h)' /\ FailureInv(h)
    <3>1. ConsumerInv(h)'
      BY Zenon, <2>5, <1>0 DEF Held, ConsumerInv
    <3>2. Capacity' = Capacity /\ WqeSlots(config') = WqeSlots(config)
      BY Zenon, <1>0 DEF Capacity
    <3>3. posted = h
      BY Zenon, <2>5, <1>0, <1>2 DEF Held, OutstandingInv
    <3>4. posted - h <= 0
      BY <3>3, <1>c
    <3>5. OutstandingInv(h)'
      BY Zenon, <2>5, <1>0, <1>2, <3>2, <3>4 DEF Held, OutstandingInv, InBatch
    <3> QED
      BY Zenon, <2>5, <3>1, <3>5 DEF Held
  <2> QED
    BY Zenon, <1>0, <2>2, <2>3, <2>4, <2>5, KeptStep
<1> QED
  BY Zenon, <1>1, <1>2 DEF NextBatch

\* The end of an iteration.
LEMMA VerifyInv ==
    ASSUME RingsFit, EndpointInv, Verify
    PROVE  EndpointInv'
<1>p. EndpointTypes /\ LoopInv
  BY Zenon DEF EndpointInv
<1>0. /\ pc = "verify" /\ pc' = "top" /\ opsDone' = opsDone + batchCount
      /\ config' = config /\ batchCount' = batchCount /\ b' = b /\ stop' = stop /\ guessed' = guessed
      /\ sq' = sq /\ tail' = tail /\ head' = head /\ posted' = posted /\ cons' = cons
      /\ doorbell' = doorbell /\ done' = done /\ failed' = failed /\ cq' = cq
  BY Zenon DEF Verify, queueVars, nicVars, mlx5Vars
<1>1. opsDone + batchCount \in Nat
  BY <1>p DEF EndpointTypes
<1>2. EndpointTypes'
  BY Zenon, <1>0, <1>1, <1>p DEF EndpointTypes, KernelSteps
<1>3. LoopInv'
  BY Zenon, <1>0, <1>p DEF LoopInv, InBatch
<1>4. DoorbellInv => DoorbellInv'
  BY Zenon, <1>0 DEF DoorbellInv
<1>5. ASSUME NEW h \in Nat, Held(h)
      PROVE  ConsumerInv(h)' /\ OutstandingInv(h)' /\ FailureInv(h)
  <2>1. ConsumerInv(h)'
    BY Zenon, <1>5, <1>0 DEF Held, ConsumerInv
  <2>2. Capacity' = Capacity /\ WqeSlots(config') = WqeSlots(config)
    BY Zenon, <1>0 DEF Capacity
  <2>3. OutstandingInv(h)'
    BY Zenon, <1>5, <1>0, <2>2 DEF Held, OutstandingInv, InBatch
  <2> QED
    BY Zenon, <1>5, <2>1, <2>3 DEF Held
<1> QED
  BY Zenon, <1>0, <1>2, <1>3, <1>4, <1>5, KeptStep


\* The host sets the stop flag; no kernel of a caller has one.
LEMMA RequestStopInv ==
    ASSUME RingsFit, EndpointInv, RequestStop
    PROVE  EndpointInv'
<1>p. EndpointTypes /\ LoopInv
  BY Zenon DEF EndpointInv
<1>0. /\ config.kernel # "caller" /\ stop' /\ pc' = pc /\ opsDone' = opsDone
      /\ config' = config /\ batchCount' = batchCount /\ b' = b /\ guessed' = guessed
      /\ sq' = sq /\ tail' = tail /\ head' = head /\ posted' = posted /\ cons' = cons
      /\ doorbell' = doorbell /\ done' = done /\ failed' = failed /\ cq' = cq
  BY Zenon DEF RequestStop, queueVars, nicVars, mlx5Vars
<1>2. EndpointTypes'
  BY Zenon, <1>0, <1>p DEF EndpointTypes
<1>3. LoopInv'
  BY Zenon, <1>0, <1>p DEF LoopInv
<1>4. DoorbellInv => DoorbellInv'
  BY Zenon, <1>0 DEF DoorbellInv, RingsNow
<1>5. ASSUME NEW h \in Nat, Held(h)
      PROVE  ConsumerInv(h)' /\ OutstandingInv(h)' /\ FailureInv(h)
  <2>1. ConsumerInv(h)'
    BY Zenon, <1>5, <1>0 DEF Held, ConsumerInv
  <2>2. Capacity' = Capacity /\ WqeSlots(config') = WqeSlots(config)
    BY Zenon, <1>0 DEF Capacity
  <2>3. OutstandingInv(h)'
    BY Zenon, <1>5, <1>0, <2>2 DEF Held, OutstandingInv
  <2> QED
    BY Zenon, <1>5, <2>1, <2>3 DEF Held
<1> QED
  BY Zenon, <1>0, <1>2, <1>3, <1>4, <1>5, KeptStep

\* The doorbell at the end of a batch.
LEMMA RingDoorbellInv ==
    ASSUME RingsFit, EndpointInv, RingDoorbell
    PROVE  EndpointInv'
<1>p. EndpointTypes /\ LoopInv
  BY Zenon DEF EndpointInv
<1>0. /\ pc = "doorbell" /\ pc' = "quiet" /\ opsDone' = opsDone /\ stop' = stop
      /\ config' = config /\ batchCount' = batchCount /\ b' = b /\ guessed' = guessed
      /\ sq' = sq /\ tail' = tail /\ head' = head /\ posted' = posted /\ cons' = cons
      /\ doorbell' = (IF RingsNow THEN doorbell ELSE Rung(posted))
      /\ done' = done /\ failed' = failed /\ cq' = cq
  BY Zenon DEF RingDoorbell, queueVars, mlx5Vars
<1>1. /\ b \in Nat /\ 0 < b /\ doorbell \in Nat /\ posted \in Nat /\ done \in Nat
  BY Zenon, <1>0, <1>p DEF LoopInv, EndpointTypes
<1>2. doorbell' = doorbell \/ doorbell' = posted \/ (doorbell' = doorbell + 1 /\ ~RingsNow)
  BY Zenon, <1>0 DEF Rung
<1>3. EndpointTypes'
  <2>1. doorbell' \in Nat
    BY <1>1, <1>2
  <2> QED
    BY Zenon, <1>0, <2>1, <1>p DEF EndpointTypes, KernelSteps, InBatch
<1>4. LoopInv'
  BY Zenon, <1>0, <1>p DEF LoopInv, InBatch
<1>5. ASSUME DoorbellInv PROVE DoorbellInv'
  <2>1. done <= doorbell /\ doorbell <= posted /\ (~RingsNow => doorbell + b <= posted)
    BY Zenon, <1>5, <1>0 DEF DoorbellInv
  <2>2. done <= doorbell' /\ doorbell' <= posted
    <3>1. CASE doorbell' = doorbell
      BY Zenon, <3>1, <2>1
    <3>2. CASE doorbell' = posted
      BY <3>2, <2>1, <1>1
    <3>3. CASE doorbell' = doorbell + 1 /\ doorbell + b <= posted
      BY <3>3, <2>1, <1>1
    <3> QED
      BY Zenon, <1>2, <2>1, <3>1, <3>2, <3>3
  <2> QED
    BY Zenon, <1>0, <2>2 DEF DoorbellInv
<1>6. ASSUME NEW h \in Nat, Held(h)
      PROVE  ConsumerInv(h)' /\ OutstandingInv(h)' /\ FailureInv(h)
  <2>1. ConsumerInv(h)'
    BY Zenon, <1>6, <1>0 DEF Held, ConsumerInv
  <2>2. Capacity' = Capacity /\ WqeSlots(config') = WqeSlots(config)
    BY Zenon, <1>0 DEF Capacity
  <2>3. OutstandingInv(h)'
    BY Zenon, <1>6, <1>0, <2>2 DEF Held, OutstandingInv, InBatch
  <2> QED
    BY Zenon, <1>6, <2>1, <2>3 DEF Held
<1> QED
  BY Zenon, <1>0, <1>3, <1>4, <1>5, <1>6, KeptStep

-----------------------------------------------------------------------------
(* Polling.                                                                *)

\* A step of a poll loop has taken the completions from h up to g, and returns only
\* when the next work request fits, or when there is none left to wait for.
Taken(h, g) ==
    /\ h <= g /\ g <= done
    /\ ConsumerInv(g)' /\ FailureInv(g)
    /\ pc' = "write" => (posted + 1 - g) * WqeSlots(config) <= Capacity
    /\ pc' = "verify" => stop \/ posted = g

PollSteps ==
    \/ pc' = pc
    \/ pc = "space" /\ pc' = "write"
    \/ pc = "quiet" /\ pc' = "verify"
    \/ pc' = "abort"

\* The counts of the loops do not change.
LEMMA PollLoops ==
    ASSUME LoopInv, pc \in {"space", "quiet"}, PollSteps,
           UNCHANGED <<config, opsDone, batchCount, b>>, stop' = stop
    PROVE  LoopInv'
<1>0. config' = config /\ opsDone' = opsDone /\ batchCount' = batchCount /\ b' = b
  BY Zenon
<1>1. CASE pc' = pc
  BY Zenon, <1>1, <1>0 DEF LoopInv
<1>2. CASE pc = "space" /\ pc' = "write"
  BY Zenon, <1>2, <1>0 DEF LoopInv, InBatch
<1>3. CASE pc = "quiet" /\ pc' = "verify"
  BY Zenon, <1>3, <1>0 DEF LoopInv, InBatch
<1>4. CASE pc' = "abort"
  BY Zenon, <1>4, <1>0 DEF LoopInv, InBatch
<1> QED
  BY Zenon, <1>1, <1>2, <1>3, <1>4 DEF PollSteps

\* What is outstanding after the step.
LEMMA PollOutstanding ==
    ASSUME EndpointTypes, PollSteps, pc \in {"space", "quiet"}, RingsFit,
           UNCHANGED <<config, b, posted, done>>, stop' = stop,
           NEW h \in Nat, NEW g \in Nat, OutstandingInv(h), Taken(h, g)
    PROVE  OutstandingInv(g)'
<1>0. config' = config /\ b' = b /\ posted' = posted /\ done' = done
  BY Zenon
<1>2. /\ Capacity' = Capacity /\ Capacity \in Int /\ WqeSlots(config') = WqeSlots(config)
      /\ WqeSlots(config) \in {1, 3}
  <2>1. Capacity \in Int
    BY ConfigFacts DEF Capacity, EndpointTypes
  <2> QED
    BY Zenon, <2>1, <1>0, SlotFacts DEF Capacity, EndpointTypes
<1>3. /\ h <= g /\ g <= done /\ posted - h <= config.batch
      /\ (posted - h) * WqeSlots(config) <= Capacity /\ posted - h <= b
      /\ posted \in Nat /\ b \in Nat /\ config.batch \in Nat
  BY Zenon, ConfigFacts DEF OutstandingInv, Taken, EndpointTypes, InBatch
<1>4. posted - g <= config.batch /\ posted - g <= b
  BY <1>3
<1>5. (posted - g) * WqeSlots(config) <= Capacity
  BY <1>3, <1>2
<1>6. /\ pc' = "write" => (posted + 1 - g) * WqeSlots(config) <= Capacity
      /\ pc' = "verify" => stop \/ posted = g
      /\ pc' # "top" /\ g <= done
  BY Zenon DEF Taken, PollSteps
<1>7. pc' \in {"top", "verify"} => stop' \/ posted = g
  BY Zenon, <1>6, <1>0
<1> QED
  BY Zenon, <1>0, <1>2, <1>4, <1>5, <1>6, <1>7 DEF OutstandingInv

\* It is enough to show that of each of them.
LEMMA PollInv ==
    ASSUME RingsFit, EndpointInv, Polling, PollSteps, head' \in Nat, cons' \in Nat,
           UNCHANGED <<config, opsDone, batchCount, b, stop, sq, tail, posted, nicVars>>,
           ~guessed' => ~guessed,
           \A h \in Nat : ~guessed' /\ QueueInv /\ Held(h) => \E g \in Nat : Taken(h, g)
    PROVE  EndpointInv'
<1>p. EndpointTypes /\ LoopInv /\ pc \in {"space", "quiet"}
  BY Zenon DEF EndpointInv, Polling
<1>0. /\ config' = config /\ opsDone' = opsDone /\ stop' = stop /\ batchCount' = batchCount /\ b' = b
      /\ sq' = sq /\ tail' = tail /\ posted' = posted
      /\ doorbell' = doorbell /\ done' = done /\ failed' = failed /\ cq' = cq
  BY Zenon DEF nicVars
<1>1. EndpointTypes'
  <2>1. pc' \in KernelSteps
    BY Zenon, <1>p DEF PollSteps, KernelSteps, InBatch
  <2> QED
    BY Zenon, <1>0, <2>1, <1>p DEF EndpointTypes
<1>2. LoopInv'
  BY Zenon, <1>0, <1>p, PollLoops
<1>3. DoorbellInv => DoorbellInv'
  BY Zenon, <1>0, <1>p DEF DoorbellInv, RingsNow, PollSteps
<1>4. ASSUME NEW h \in Nat, ~guessed', QueueInv, Held(h)
      PROVE  \E g \in Nat : ConsumerInv(g)' /\ OutstandingInv(g)' /\ FailureInv(g)
  <2>1. PICK g \in Nat : Taken(h, g)
    BY Zenon, <1>4
  <2>2. OutstandingInv(h)
    BY Zenon, <1>4 DEF Held
  <2>6. OutstandingInv(g)'
    BY Zenon, <1>0, <1>p, <2>1, <2>2, PollOutstanding
  <2> QED
    BY Zenon, <2>1, <2>6 DEF Taken
<1> QED
  BY Zenon, <1>0, <1>1, <1>2, <1>3, <1>4, KeptStep

\* A batch that leaves a slot free has room for its next work request.
LEMMA BatchRoom ==
    ASSUME RingsFit, EndpointTypes, LoopInv, pc = "space", NEW h \in Nat, OutstandingInv(h),
           config.kernel # "caller" \/ config.provider \in {"bnxt", "ernic"}
    PROVE  (posted + 1 - h) * WqeSlots(config) <= Capacity
<1>1. /\ posted - h <= b /\ b < batchCount /\ batchCount <= config.batch
      /\ posted \in Nat /\ b \in Nat /\ batchCount \in Nat /\ config \in Configs
  BY Zenon DEF OutstandingInv, LoopInv, EndpointTypes, InBatch
<1>2. PICK d \in Nat, n \in Nat, s \in {1, 3} :
        d = config.depth /\ n = config.batch /\ s = WqeSlots(config)
  BY Zenon, <1>1, ConfigFacts, SlotFacts
<1>3. n * s < d
  BY Zenon, <1>1, <1>2, FitFacts
<1>4. Capacity \in Int /\ d - 1 <= Capacity
  BY <1>2 DEF Capacity
<1>5. posted + 1 - h <= n
  BY <1>1, <1>2
<1> QED
  BY <1>1, <1>2, <1>3, <1>4, <1>5


\* A step that takes no completion.
LEMMA TakenNone ==
    ASSUME NEW h \in Nat, Held(h), UNCHANGED <<config, head, cons>>,
           pc' = "write" => (posted + 1 - h) * WqeSlots(config) <= Capacity,
           pc' = "verify" => stop \/ posted = h
    PROVE  Taken(h, h)
<1>1. config' = config /\ head' = head /\ cons' = cons
  BY Zenon
<1>2. ConsumerInv(h)'
  BY Zenon, <1>1 DEF Held, ConsumerInv
<1>3. h <= h
  OBVIOUS
<1> QED
  BY Zenon, <1>2, <1>3 DEF Held, OutstandingInv, Taken

\* The completion at the consumer index is the next one in order.
LEMMA NextCompletion ==
    ASSUME RingsFit, EndpointTypes, QueueInv, NEW h \in Nat, Held(h), config.provider # "ernic",
           CqeReady
    PROVE  /\ cons = h /\ h + 1 \in Nat /\ h <= h + 1 /\ h + 1 <= done
           /\ cq[cons % config.cqDepth].wqe = h + 1
<1>1. cons = h /\ h <= done /\ done \in Nat /\ posted \in Nat /\ done <= doorbell
      /\ doorbell <= posted /\ doorbell \in Nat
  BY Zenon DEF Held, ConsumerInv, OutstandingInv, EndpointTypes, QueueInv, DoorbellInv
<1>2. config.cqDepth \in Nat \ {0}
  BY Zenon, ConfigFacts DEF EndpointTypes
<1>3. posted - h <= config.cqDepth
  BY Zenon, <1>1, OutstandingFits DEF Held, EndpointTypes
<1>4. h < done
  <2>1. SUFFICES ASSUME h = done PROVE FALSE
    BY <1>1
  <2>2. done <= h /\ h < done + config.cqDepth
    BY <2>1, <1>2, <1>1
  <2>3. cq[h % config.cqDepth].lap # (h \div config.cqDepth) % 2
    BY Zenon, <2>2 DEF QueueInv, CqInv
  <2> QED
    BY Zenon, <2>3, <1>1 DEF CqeReady
<1>5. done <= h + config.cqDepth
  BY <1>1, <1>2, <1>3
<1>6. cq[h % config.cqDepth].wqe = h + 1
  BY Zenon, <1>4, <1>5 DEF QueueInv, CqInv
<1>7. h + 1 \in Nat /\ h <= h + 1 /\ h + 1 <= done
  BY <1>1, <1>4
<1> QED
  BY Zenon, <1>1, <1>6, <1>7

\* A failure is not passed over.
LEMMA FailureNext ==
    ASSUME NEW h \in Nat, FailureInv(h), cons = h,
           CqeOk \/ config.provider \notin {"mlx5", "ionic"}
    PROVE  FailureInv(h + 1)
<1>1. SUFFICES ASSUME failed, config.provider \in {"mlx5", "ionic"}
               PROVE  \E n \in Nat : h + 1 <= n /\ n < done /\ ~cq[n % config.cqDepth].ok
  BY Zenon DEF FailureInv
<1>2. PICK n \in Nat : h <= n /\ n < done /\ ~cq[n % config.cqDepth].ok
  BY Zenon, <1>1 DEF FailureInv
<1>3. n # h
  BY Zenon, <1>1, <1>2 DEF CqeOk
<1>4. h + 1 <= n
  BY <1>2, <1>3
<1> QED
  BY Zenon, <1>2, <1>4

\* The slots between two indices of a ring are the ones between the counts.
LEMMA RingSlots ==
    ASSUME NEW d \in Nat \ {0}, NEW x \in Nat, NEW y \in Nat, y <= x, x - y < d
    PROVE  (((x % d) - (y % d)) + d) % d = x - y
<1>1. PICK u \in Int : u = (x % d) - (y % d)
  <2>1. x % d \in Int /\ y % d \in Int
    BY DivMod
  <2>2. \A i, j \in Int : i - j \in Int
    OBVIOUS
  <2> QED
    BY Zenon, <2>1, <2>2
<1>2. PICK v \in Int : v = u + d
  OBVIOUS
<1>3. v = u + d * 1 /\ 1 \in Int
  BY <1>2
<1>4. v % d = u % d
  BY Zenon, <1>3, ModShift
<1>5. x \in Int /\ y \in Int /\ x - y \in 0 .. d - 1
  OBVIOUS
<1>6. u % d = (x - y) % d
  BY Zenon, <1>1, <1>5, ModDistance
<1>7. (x - y) % d = x - y
  BY Zenon, <1>5, ModSmall
<1> QED
  BY Zenon, <1>1, <1>2, <1>4, <1>6, <1>7

\* bnxt and ernic: a ring with all slots available has nothing outstanding.
LEMMA RingEmpty ==
    ASSUME RingsFit, EndpointTypes, TailInv, config.provider \in {"bnxt", "ernic"},
           NEW g \in Nat, g <= posted, (posted - g) * WqeSlots(config) <= Capacity,
           RingAvailable((g * WqeSlots(config)) % config.depth) >= config.depth
    PROVE  posted = g
<1>1. /\ config \in Configs /\ posted \in Nat
      /\ tail = (posted * WqeSlots(config)) % config.depth /\ config.provider # "mlx5"
  BY Zenon DEF EndpointTypes, TailInv
<1>2. PICK d \in Nat \ {0}, s \in {1, 3} : d = config.depth /\ s = WqeSlots(config)
  BY Zenon, <1>1, ConfigFacts, SlotFacts
<1>3. PICK x \in Nat, y \in Nat : x = posted * s /\ y = g * s
  BY <1>1, <1>2
<1>4. Capacity = d - 1
  BY Zenon, <1>1, <1>2 DEF Capacity
<1>5. y <= x /\ x - y < d
  <2>1. x - y = (posted - g) * s
    BY <1>1, <1>2, <1>3
  <2>2. x - y <= d - 1
    BY Zenon, <2>1, <1>2, <1>4
  <2>3. y <= x
    BY <1>1, <1>2, <1>3
  <2> QED
    BY <2>2, <2>3
<1>6. (((x % d) - (y % d)) + d) % d = x - y
  BY Zenon, <1>5, RingSlots
<1>7. RingAvailable(y % d) = d - (x - y)
  BY Zenon, <1>1, <1>2, <1>3, <1>6 DEF RingAvailable
<1>8. d - (x - y) >= d
  BY Zenon, <1>2, <1>3, <1>7
<1>9. x = y
  BY <1>8, <1>5
<1>10. posted * s = g * s /\ posted \in Nat
  BY Zenon, <1>1, <1>3, <1>9
<1> QED
  BY <1>10


\* An error completion aborts the kernel.
LEMMA PollAbortsInv ==
    ASSUME RingsFit, EndpointInv, PollAborts
    PROVE  EndpointInv'
<1>0. /\ Polling /\ pc' = "abort" /\ config' = config /\ head' = head /\ cons' = cons
      /\ opsDone' = opsDone /\ batchCount' = batchCount /\ b' = b /\ stop' = stop
      /\ sq' = sq /\ tail' = tail /\ posted' = posted /\ nicVars' = nicVars /\ guessed' = guessed
  BY Zenon DEF PollAborts, queueVars, mlx5Vars
<1>1. head' \in Nat /\ cons' \in Nat
  BY Zenon, <1>0 DEF EndpointInv, EndpointTypes
<1>2. ASSUME NEW h \in Nat, Held(h) PROVE Taken(h, h)
  BY Zenon, <1>0, <1>2, TakenNone
<1>3. PollSteps
  BY Zenon, <1>0 DEF PollSteps
<1> QED
  BY Zenon, <1>0, <1>1, <1>2, <1>3, PollInv

\* A loop that sees the stop flag returns; the batch it belongs to leaves a slot free.
LEMMA PollStoppedInv ==
    ASSUME RingsFit, EndpointInv, PollStopped
    PROVE  EndpointInv'
<1>0. /\ Polling /\ stop /\ Return /\ config' = config /\ head' = head /\ cons' = cons
      /\ opsDone' = opsDone /\ batchCount' = batchCount /\ b' = b /\ stop' = stop
      /\ sq' = sq /\ tail' = tail /\ posted' = posted /\ nicVars' = nicVars /\ guessed' = guessed
  BY Zenon DEF PollStopped, queueVars, mlx5Vars
<1>1. head' \in Nat /\ cons' \in Nat /\ EndpointTypes /\ LoopInv /\ config.kernel # "caller"
  BY Zenon, <1>0 DEF EndpointInv, EndpointTypes, LoopInv
<1>2. PollSteps
  BY Zenon, <1>0 DEF PollSteps, Return, Polling
<1>3. ASSUME NEW h \in Nat, Held(h) PROVE Taken(h, h)
  <2>1. ASSUME pc' = "write" PROVE (posted + 1 - h) * WqeSlots(config) <= Capacity
    <3>1. pc = "space"
      BY Zenon, <1>0, <2>1 DEF Return, Polling
    <3> QED
      BY Zenon, <3>1, <1>1, <1>3, BatchRoom DEF Held
  <2> QED
    BY Zenon, <1>0, <1>3, <2>1, TakenNone
<1> QED
  BY Zenon, <1>0, <1>1, <1>2, <1>3, PollInv

\* mlx5: before the loop, the work requests posted so far fit the ring as they are.
LEMMA Mlx5EnterInv ==
    ASSUME RingsFit, EndpointInv, Mlx5Enter
    PROVE  EndpointInv'
<1>0. /\ Polling /\ config.provider = "mlx5" /\ config' = config /\ head' = head /\ cons' = cons
      /\ opsDone' = opsDone /\ batchCount' = batchCount /\ b' = b /\ stop' = stop
      /\ sq' = sq /\ tail' = tail /\ posted' = posted /\ nicVars' = nicVars /\ guessed' = guessed
      /\ pc' = pc \/ (Return /\ posted <= config.depth - Requested)
  BY Zenon DEF Mlx5Enter
<1>1. head' \in Nat /\ cons' \in Nat /\ EndpointTypes /\ config \in Configs /\ posted \in Nat
      /\ done \in Nat
  BY Zenon, <1>0 DEF EndpointInv, EndpointTypes
<1>2. PollSteps
  BY Zenon, <1>0 DEF PollSteps, Return, Polling
<1>3. WqeSlots(config) = 1 /\ Capacity = config.depth /\ config.depth \in Nat
  BY Zenon, <1>0, <1>1, SlotFacts, ConfigFacts DEF Capacity
<1>4. ASSUME NEW h \in Nat, QueueInv, Held(h) PROVE Taken(h, h)
  <2>1. ASSUME pc' = "write" PROVE (posted + 1 - h) * WqeSlots(config) <= Capacity
    <3>1. posted <= config.depth - 1
      BY Zenon, <1>0, <1>3, <2>1 DEF Return, Polling, Requested
    <3> QED
      BY <3>1, <1>1, <1>3
  <2>2. ASSUME pc' = "verify" PROVE posted = h
    <3>1. posted <= config.depth - config.depth
      BY Zenon, <1>0, <2>2 DEF Return, Polling, Requested
    <3>2. h <= done /\ done <= doorbell /\ doorbell <= posted /\ doorbell \in Nat
      BY Zenon, <1>1, <1>4 DEF Held, OutstandingInv, QueueInv, DoorbellInv, EndpointTypes
    <3> QED
      BY <3>1, <3>2, <1>1, <1>3
  <2> QED
    BY Zenon, <1>0, <1>4, <2>1, <2>2, TakenNone
<1> QED
  BY Zenon, <1>0, <1>1, <1>2, <1>4, PollInv

\* ernic: the index the NIC writes tells how many completions there are.
LEMMA ErnicPollInv ==
    ASSUME RingsFit, EndpointInv, ErnicPoll
    PROVE  EndpointInv'
<1>0. /\ Polling /\ config.provider = "ernic" /\ config' = config
      /\ opsDone' = opsDone /\ batchCount' = batchCount /\ b' = b /\ stop' = stop
      /\ sq' = sq /\ tail' = tail /\ posted' = posted /\ nicVars' = nicVars /\ guessed' = guessed
      /\ head' = IF done % (2 * config.cqDepth) # cons THEN (head + 1) % config.depth ELSE head
      /\ cons' = IF done % (2 * config.cqDepth) # cons THEN (cons + 1) % (2 * config.cqDepth) ELSE cons
      /\ pc' = pc \/ (Return /\ RingAvailable(head') >= Requested)
  BY Zenon DEF ErnicPoll, mlx5Vars, Resume
<1>1. /\ EndpointTypes /\ LoopInv /\ config \in Configs /\ posted \in Nat /\ done \in Nat
      /\ head \in Nat /\ cons \in Nat
  BY Zenon, <1>0 DEF EndpointInv, EndpointTypes
<1>2. PollSteps
  BY Zenon, <1>0 DEF PollSteps, Return, Polling
<1>3. /\ WqeSlots(config) = 1 /\ config.depth \in Nat \ {0} /\ 2 * config.cqDepth \in Nat \ {0}
  <2>1. WqeSlots(config) = 1 /\ config.depth \in Nat \ {0} /\ config.cqDepth \in Nat \ {0}
    BY Zenon, <1>0, <1>1, SlotFacts, ConfigFacts
  <2> QED
    BY <2>1
<1>4. head' \in Nat /\ cons' \in Nat
  <2>1. (head + 1) % config.depth \in Nat /\ (cons + 1) % (2 * config.cqDepth) \in Nat
    BY <1>1, <1>3
  <2> QED
    BY Zenon, <1>0, <1>1, <2>1
<1>5. ASSUME NEW h \in Nat, QueueInv, Held(h) PROVE \E g \in Nat : Taken(h, g)
  <2>0. /\ head = h % config.depth /\ cons = h % (2 * config.cqDepth) /\ h <= done
        /\ FailureInv(h) /\ OutstandingInv(h) /\ TailInv
    BY Zenon, <1>0, <1>5 DEF Held, ConsumerInv, OutstandingInv, QueueInv
  <2>1. PICK g \in Nat : /\ h <= g /\ g <= done
                         /\ head' = g % config.depth /\ cons' = g % (2 * config.cqDepth)
    <3>1. CASE done % (2 * config.cqDepth) # cons
      <4>1. h # done
        BY Zenon, <3>1, <2>0
      <4>2. h + 1 \in Nat /\ h <= h + 1 /\ h + 1 <= done /\ h \in Int /\ 1 \in Int
        BY <4>1, <2>0, <1>1
      <4>3. /\ ((h % config.depth) + 1) % config.depth = (h + 1) % config.depth
            /\ ((h % (2 * config.cqDepth)) + 1) % (2 * config.cqDepth) = (h + 1) % (2 * config.cqDepth)
        BY Zenon, <4>2, <1>3, ModPlus
      <4> QED
        BY Zenon, <3>1, <2>0, <1>0, <4>2, <4>3
    <3>2. CASE ~(done % (2 * config.cqDepth) # cons)
      <4>1. h <= h
        OBVIOUS
      <4> QED
        BY Zenon, <3>2, <2>0, <1>0, <4>1
    <3> QED
      BY Zenon, <3>1, <3>2
  <2>2. FailureInv(g) /\ ConsumerInv(g)'
    BY Zenon, <1>0, <2>1 DEF FailureInv, ConsumerInv
  <2>3. /\ h <= g /\ g <= done /\ done <= doorbell /\ doorbell <= posted /\ doorbell \in Nat
        /\ posted - h <= Capacity /\ Capacity \in Int
    <3>1. (posted - h) * 1 <= Capacity /\ Capacity = config.depth - 1
      BY Zenon, <1>0, <1>3, <2>0 DEF OutstandingInv, Capacity
    <3>2. posted - h <= Capacity /\ Capacity \in Int
      BY <3>1, <1>1, <1>3
    <3> QED
      BY Zenon, <3>2, <2>1, <1>1, <1>5 DEF QueueInv, DoorbellInv, EndpointTypes
  <2>4. ASSUME pc' = "write" PROVE (posted + 1 - g) * WqeSlots(config) <= Capacity
    <3>1. pc = "space"
      BY Zenon, <1>0, <2>4 DEF Return, Polling
    <3>2. (posted + 1 - h) * WqeSlots(config) <= Capacity
      BY Zenon, <3>1, <1>0, <1>1, <2>0, BatchRoom
    <3> QED
      BY <3>2, <1>3, <2>3, <1>1
  <2>5. ASSUME pc' = "verify" PROVE posted = g
    <3>1. RingAvailable(g % config.depth) >= config.depth
      BY Zenon, <1>0, <2>5, <2>1 DEF Return, Polling, Requested
    <3>2. g * WqeSlots(config) = g /\ (posted - g) * WqeSlots(config) <= Capacity /\ g <= posted
      BY <1>1, <1>3, <2>3
    <3> QED
      BY Zenon, <3>1, <3>2, <1>0, <1>1, <2>0, RingEmpty
  <2> QED
    BY Zenon, <2>2, <2>3, <2>4, <2>5 DEF Taken
<1> QED
  BY Zenon, <1>0, <1>1, <1>2, <1>4, <1>5, PollInv


\* The 16 bits of con_indx are enough to find the head.
LEMMA HeadOf ==
    ASSUME RingsFit, config \in Configs, config.provider = "bnxt", NEW x \in Nat
    PROVE  BnxtHead(x) = (x * BnxtSlotCount) % config.depth
<1>1. PICK d \in Nat \ {0}, w \in Nat \ {0} : d = config.depth /\ w = Word /\ (w * 3) % d = 0
  <2>1. Word \in Nat \ {0} /\ (Word * WqeSlots(config)) % config.depth = 0
    BY Zenon, ConfigAssumption
  <2> QED
    BY Zenon, <2>1, ConfigFacts, SlotFacts
<1>2. PICK q \in Int, r \in 0 .. w - 1 : q = x \div w /\ r = x % w /\ x = w * q + r
  <2>1. x \in Int
    OBVIOUS
  <2> QED
    BY Zenon, <2>1, DivPick
<1>3. w * 3 \in Int /\ r * 3 \in Int
  OBVIOUS
<1>4. PICK m \in Int, z \in 0 .. d - 1 : m = (w * 3) \div d /\ z = (w * 3) % d /\ w * 3 = d * m + z
  BY Zenon, <1>3, DivPick
<1>5. w * 3 = d * m
  BY <1>1, <1>4
<1>6. x * 3 = r * 3 + (w * 3) * q
  <2>1. (w * q) * 3 = (w * 3) * q
    BY q \in Int, w \in Nat
  <2>2. PICK t \in Int : t = w * q /\ x = t + r
    BY <1>2
  <2>3. x * 3 = r * 3 + t * 3
    BY <2>2
  <2> QED
    BY Zenon, <2>1, <2>2, <2>3
<1>7. (d * m) * q = d * (m * q) /\ m * q \in Int
  BY m \in Int, q \in Int, d \in Nat
<1>8. x * 3 \in Int
  OBVIOUS
<1>9. PICK k \in Int, s \in Int, y \in Int : s = r * 3 /\ y = x * 3 /\ y = s + d * k
  BY Zenon, <1>3, <1>5, <1>6, <1>7, <1>8
<1>10. y % d = s % d
  BY Zenon, <1>9, ModShift
<1> QED
  BY Zenon, <1>1, <1>2, <1>9, <1>10 DEF BnxtHead, BnxtSlotCount

\* bnxt: a completion tells how far the NIC has come.
LEMMA BnxtPollInv ==
    ASSUME RingsFit, EndpointInv, BnxtPoll
    PROVE  EndpointInv'
<1>0. /\ Polling /\ config.provider = "bnxt" /\ config' = config
      /\ opsDone' = opsDone /\ batchCount' = batchCount /\ b' = b /\ stop' = stop
      /\ sq' = sq /\ tail' = tail /\ posted' = posted /\ nicVars' = nicVars /\ guessed' = guessed
      /\ \/ Return /\ RingAvailable(head) >= Requested /\ head' = head /\ cons' = cons
         \/ /\ pc' = pc /\ CqeReady /\ cons' = cons + 1
            /\ head' = BnxtHead(cq[cons % config.cqDepth].wqe)
  BY Zenon DEF BnxtPoll, mlx5Vars
<1>1. /\ EndpointTypes /\ LoopInv /\ config \in Configs /\ posted \in Nat /\ done \in Nat
      /\ head \in Nat /\ cons \in Nat
  BY Zenon, <1>0 DEF EndpointInv, EndpointTypes
<1>2. PollSteps
  BY Zenon, <1>0 DEF PollSteps, Return, Polling
<1>3. WqeSlots(config) = 3 /\ BnxtSlotCount = 3 /\ config.depth \in Nat \ {0}
      /\ config.cqDepth \in Nat \ {0}
  BY Zenon, <1>0, <1>1, SlotFacts, ConfigFacts DEF BnxtSlotCount
<1>4. head' \in Nat /\ cons' \in Nat
  <2>1. cons + 1 \in Nat /\ cons % config.cqDepth \in 0 .. config.cqDepth - 1
    BY <1>1, <1>3
  <2>2. cq[cons % config.cqDepth].wqe \in Nat
    BY Zenon, <2>1, <1>1 DEF EndpointTypes, Completions
  <2>3. BnxtHead(cq[cons % config.cqDepth].wqe) \in Nat
    <3>1. BnxtHead(cq[cons % config.cqDepth].wqe)
            = (cq[cons % config.cqDepth].wqe * BnxtSlotCount) % config.depth
      BY Zenon, <1>0, <1>1, <2>2, HeadOf
    <3>2. (cq[cons % config.cqDepth].wqe * BnxtSlotCount) % config.depth \in Nat
      BY <2>2, <1>3
    <3> QED
      BY Zenon, <3>1, <3>2
  <2> QED
    BY Zenon, <1>0, <1>1, <2>1, <2>3
<1>5. ASSUME NEW h \in Nat, QueueInv, Held(h) PROVE \E g \in Nat : Taken(h, g)
  <2>0. /\ head = (h * BnxtSlotCount) % config.depth /\ cons = h /\ h <= done
        /\ FailureInv(h) /\ OutstandingInv(h) /\ TailInv
        /\ done <= doorbell /\ doorbell <= posted /\ doorbell \in Nat
        /\ (posted - h) * WqeSlots(config) <= Capacity
    BY Zenon, <1>0, <1>1, <1>5
       DEF Held, ConsumerInv, OutstandingInv, QueueInv, DoorbellInv, EndpointTypes
  <2>1. CASE Return /\ RingAvailable(head) >= Requested /\ head' = head /\ cons' = cons
    <3>1. ASSUME pc' = "write" PROVE (posted + 1 - h) * WqeSlots(config) <= Capacity
      <4>1. pc = "space"
        BY Zenon, <1>0, <2>1, <3>1 DEF Return, Polling
      <4> QED
        BY Zenon, <4>1, <1>0, <1>1, <2>0, BatchRoom
    <3>2. ASSUME pc' = "verify" PROVE posted = h
      <4>1. RingAvailable((h * WqeSlots(config)) % config.depth) >= config.depth
        BY Zenon, <2>0, <2>1, <3>2, <1>3 DEF Return, Polling, Requested
      <4>2. h <= posted
        BY <2>0, <1>1
      <4> QED
        BY Zenon, <4>1, <4>2, <1>0, <1>1, <2>0, RingEmpty
    <3> QED
      BY Zenon, <1>0, <1>5, <2>1, <3>1, <3>2, TakenNone
  <2>2. CASE /\ pc' = pc /\ CqeReady /\ cons' = cons + 1
             /\ head' = BnxtHead(cq[cons % config.cqDepth].wqe)
    <3>1. /\ cons = h /\ h + 1 \in Nat /\ h <= h + 1 /\ h + 1 <= done
          /\ cq[cons % config.cqDepth].wqe = h + 1
      BY Zenon, <1>0, <1>1, <1>5, <2>2, NextCompletion
    <3>2. ConsumerInv(h + 1)'
      <4>1. BnxtHead(h + 1) = ((h + 1) * BnxtSlotCount) % config.depth
        BY Zenon, <1>0, <1>1, <3>1, HeadOf
      <4> QED
        BY Zenon, <1>0, <2>2, <3>1, <4>1 DEF ConsumerInv
    <3>3. FailureInv(h + 1)
      BY Zenon, <1>0 DEF FailureInv
    <3>4. pc' # "write" /\ pc' # "verify"
      BY Zenon, <1>0, <2>2 DEF Polling
    <3> QED
      BY Zenon, <3>1, <3>2, <3>3, <3>4 DEF Taken
  <2> QED
    BY Zenon, <1>0, <2>1, <2>2
<1> QED
  BY Zenon, <1>0, <1>1, <1>2, <1>4, <1>5, PollInv

\* The counter of a completion, subtracted from the counter of what is posted.
LEMMA CounterDistance ==
    ASSUME NEW w \in Nat \ {0}, NEW x \in Nat, NEW y \in Nat, y <= x, x - y < w
    PROVE  ((x % w) - y) % w = x - y
<1>1. x \in Int /\ 0 - y \in Int /\ x - y \in 0 .. w - 1 /\ x + (0 - y) = x - y
  OBVIOUS
<1>2. ((x % w) + (0 - y)) % w = (x + (0 - y)) % w
  BY Zenon, <1>1, ModPlus
<1>3. (x % w) + (0 - y) = (x % w) - y
  <2>1. x % w \in Int
    BY <1>1, DivMod
  <2> QED
    BY <2>1
<1>4. (x - y) % w = x - y
  BY Zenon, <1>1, ModSmall
<1> QED
  BY Zenon, <1>1, <1>2, <1>3, <1>4

\* mlx5: the loop ends on a completion behind which there is room, or ends unassigned.
LEMMA Mlx5PollInv ==
    ASSUME RingsFit, EndpointInv, Mlx5Poll
    PROVE  EndpointInv'
<1> DEFINE sq_head == cq[cons % config.cqDepth].wqe - 1
           slots == config.depth - ((tail - (sq_head + 1)) % Word)
<1>0. /\ Polling /\ config.provider = "mlx5" /\ config' = config /\ head' = head
      /\ opsDone' = opsDone /\ batchCount' = batchCount /\ b' = b /\ stop' = stop
      /\ sq' = sq /\ tail' = tail /\ posted' = posted /\ nicVars' = nicVars
      /\ \/ /\ CqeReady /\ CqeOk /\ cons' = cons + 1 /\ Resume(slots >= Requested)
            /\ guessed' = (guessed \/ FALSE)
         \/ /\ ~CqeReady /\ cons' = cons /\ Resume(available >= Requested)
            /\ guessed' = (guessed \/ available >= Requested)
  <2>1. CASE CqeReady
    BY Zenon, <2>1 DEF Mlx5Poll
  <2>2. CASE ~CqeReady
    BY Zenon, <2>2 DEF Mlx5Poll
  <2> QED
    BY Zenon, <2>1, <2>2
<1> HIDE DEF sq_head, slots
<1>1. /\ EndpointTypes /\ LoopInv /\ config \in Configs /\ posted \in Nat /\ done \in Nat
      /\ head \in Nat /\ cons \in Nat
  BY Zenon, <1>0 DEF EndpointInv, EndpointTypes
<1>2. PollSteps
  BY Zenon, <1>0 DEF PollSteps, Return, Polling, Resume
<1>3. /\ WqeSlots(config) = 1 /\ config.depth \in Nat \ {0} /\ Capacity = config.depth
      /\ Word \in Nat \ {0} /\ 2 * config.depth <= Word
  BY Zenon, <1>0, <1>1, SlotFacts, ConfigFacts, WordFacts DEF Capacity
<1>4. head' \in Nat /\ cons' \in Nat
  <2>1. cons + 1 \in Nat
    BY <1>1
  <2> QED
    BY Zenon, <1>0, <1>1, <2>1
<1>5. ASSUME NEW h \in Nat, ~guessed', QueueInv, Held(h) PROVE \E g \in Nat : Taken(h, g)
  <2>0. /\ cons = h /\ h <= done /\ FailureInv(h) /\ tail = posted % Word
        /\ done <= doorbell /\ doorbell <= posted /\ doorbell \in Nat
        /\ (posted - h) * WqeSlots(config) <= Capacity
    BY Zenon, <1>0, <1>1, <1>5
       DEF Held, ConsumerInv, OutstandingInv, QueueInv, DoorbellInv, EndpointTypes, TailInv
  <2>1. CASE CqeReady /\ CqeOk /\ cons' = cons + 1 /\ Resume(slots >= Requested)
    <3>1. /\ h + 1 \in Nat /\ h <= h + 1 /\ h + 1 <= done
          /\ cq[cons % config.cqDepth].wqe = h + 1
      BY Zenon, <1>0, <1>1, <1>5, <2>1, NextCompletion
    <3>2. slots = config.depth - (posted - (h + 1))
      <4>1. sq_head + 1 = h + 1
        <5>1. sq_head = (h + 1) - 1
          BY Zenon, <3>1 DEF sq_head
        <5> QED
          BY <5>1
      <4>2. h + 1 <= posted /\ posted - (h + 1) < Word
        BY <2>0, <3>1, <1>1, <1>3
      <4>3. ((posted % Word) - (h + 1)) % Word = posted - (h + 1)
        BY Zenon, <4>2, <3>1, <1>1, <1>3, CounterDistance
      <4> QED
        BY Zenon, <4>1, <4>3, <2>0 DEF slots
    <3>3. ConsumerInv(h + 1)'
      BY Zenon, <1>0, <2>0, <2>1 DEF ConsumerInv
    <3>4. FailureInv(h + 1)
      BY Zenon, <2>0, <2>1, FailureNext
    <3>5. ASSUME pc' = "write" PROVE (posted + 1 - (h + 1)) * WqeSlots(config) <= Capacity
      <4>1. slots >= 1
        BY Zenon, <1>0, <1>3, <2>1, <3>5 DEF Return, Polling, Requested, Resume
      <4> QED
        BY <4>1, <3>2, <1>1, <1>3
    <3>6. ASSUME pc' = "verify" PROVE posted = h + 1
      <4>1. slots >= config.depth
        BY Zenon, <1>0, <2>1, <3>6 DEF Return, Polling, Requested, Resume
      <4> QED
        BY <4>1, <3>1, <3>2, <2>0, <1>1, <1>3
    <3> QED
      BY Zenon, <3>1, <3>3, <3>4, <3>5, <3>6 DEF Taken
  <2>2. CASE ~CqeReady /\ cons' = cons /\ pc' = pc
    <3>1. pc' # "write" /\ pc' # "verify"
      BY Zenon, <1>0, <2>2 DEF Polling
    <3> QED
      BY Zenon, <1>0, <1>5, <2>2, <3>1, TakenNone
  <2> QED
    BY Zenon, <1>0, <1>5, <2>1, <2>2 DEF Resume
<1>6. ~guessed' => ~guessed
  BY Zenon, <1>0
<1> QED
  BY Zenon, <1>0, <1>1, <1>2, <1>4, <1>5, <1>6, PollInv


\* ionic: the distance of two counters, and of a counter to the target of a reservation.
LEMMA CounterBehind ==
    ASSUME NEW w \in Nat \ {0}, NEW x \in Nat, NEW y \in Nat, NEW k \in Int
    PROVE  ((x % w) - ((y % w) + k)) % w = ((x - y) - k) % w
<1>1. /\ x \in Int /\ y \in Int /\ x % w \in Int /\ y % w \in Int
  BY DivMod
<1>2. PICK z \in Int : z = 0 - ((y % w) + k)
  <2>1. \A i, j \in Int : 0 - (i + j) \in Int
    OBVIOUS
  <2> QED
    BY Zenon, <2>1, <1>1
<1>3. (x % w) - ((y % w) + k) = (x % w) + z
  BY <1>1, <1>2
<1>4. ((x % w) + z) % w = (x + z) % w
  BY Zenon, <1>1, <1>2, ModPlus
<1>5. PICK u \in Int : u = x - k
  OBVIOUS
<1>6. x + z = u - (y % w)
  BY <1>1, <1>2, <1>5
<1>7. (u - (y % w)) % w = (u - y) % w
  BY Zenon, <1>1, <1>5, ModMinus
<1>8. u - y = (x - y) - k
  BY <1>5
<1> QED
  BY Zenon, <1>3, <1>4, <1>6, <1>7, <1>8

\* A counter that is behind the other by less than half of their range is seen behind it.
LEMMA SeenBehind ==
    ASSUME NEW w \in Nat \ {0}, NEW x \in Nat, NEW y \in Nat, NEW k \in Int,
           x < y + k, 2 * ((y + k) - x) <= w
    PROVE  ((x % w) - ((y % w) + k)) % w >= w \div 2
<1>1. PICK n \in Nat : n = (y + k) - x /\ n > 0 /\ 2 * n <= w
  OBVIOUS
<1>2. w - n \in 0 .. w - 1 /\ (x - y) - k = w * (0 - 1) + (w - n) /\ 0 - 1 \in Int
      /\ (x - y) - k \in Int
  BY <1>1
<1>3. ((x - y) - k) % w = w - n
  BY Zenon, <1>2, DivIs
<1>4. w - n >= w \div 2
  <2>1. PICK q \in Int : q = w \div 2 /\ 2 * q <= w
    OBVIOUS
  <2>2. 2 * (w - n) >= 2 * q
    BY <2>1, <1>1
  <2> QED
    BY <2>1, <2>2, <1>1
<1> QED
  BY Zenon, <1>3, <1>4, CounterBehind

\* ionic: the counter of what is completed has come up to the target.
LEMMA IonicPollInv ==
    ASSUME RingsFit, EndpointInv, IonicPoll
    PROVE  EndpointInv'
<1>0. /\ Polling /\ config.provider = "ionic" /\ config' = config
      /\ opsDone' = opsDone /\ batchCount' = batchCount /\ b' = b /\ stop' = stop
      /\ sq' = sq /\ tail' = tail /\ posted' = posted /\ nicVars' = nicVars /\ guessed' = guessed
      /\ \/ Return /\ ~Behind(head, IonicTarget) /\ head' = head /\ cons' = cons
         \/ /\ pc' = pc /\ CqeReady /\ CqeOk /\ cons' = cons + 1
            /\ head' = cq[cons % config.cqDepth].wqe % Word
  BY Zenon DEF IonicPoll, mlx5Vars
<1>1. /\ EndpointTypes /\ LoopInv /\ config \in Configs /\ posted \in Nat /\ done \in Nat
      /\ head \in Nat /\ cons \in Nat
  BY Zenon, <1>0 DEF EndpointInv, EndpointTypes
<1>2. PollSteps
  BY Zenon, <1>0 DEF PollSteps, Return, Polling
<1>3. /\ WqeSlots(config) = 1 /\ config.depth \in Nat \ {0} /\ config.cqDepth \in Nat \ {0}
      /\ Capacity = config.depth - 1 /\ Word \in Nat \ {0} /\ 2 * config.depth <= Word
  BY Zenon, <1>0, <1>1, SlotFacts, ConfigFacts, WordFacts DEF Capacity
<1>4. head' \in Nat /\ cons' \in Nat
  <2>1. cons + 1 \in Nat /\ cons % config.cqDepth \in 0 .. config.cqDepth - 1
    BY <1>1, <1>3
  <2>2. cq[cons % config.cqDepth].wqe \in Nat
    BY Zenon, <2>1, <1>1 DEF EndpointTypes, Completions
  <2>3. cq[cons % config.cqDepth].wqe % Word \in Nat
    BY <2>2, <1>3
  <2> QED
    BY Zenon, <1>0, <1>1, <2>1, <2>3
<1>5. ASSUME NEW h \in Nat, QueueInv, Held(h) PROVE \E g \in Nat : Taken(h, g)
  <2>0. /\ head = h % Word /\ cons = h /\ h <= done /\ FailureInv(h) /\ tail = posted % Word
        /\ done <= doorbell /\ doorbell <= posted /\ doorbell \in Nat
        /\ (posted - h) * WqeSlots(config) <= Capacity
    BY Zenon, <1>0, <1>1, <1>5
       DEF Held, ConsumerInv, OutstandingInv, QueueInv, DoorbellInv, EndpointTypes, TailInv
  <2>a. h <= posted /\ posted - h <= config.depth - 1
    BY <2>0, <1>1, <1>3
  <2>1. CASE Return /\ ~Behind(head, IonicTarget) /\ head' = head /\ cons' = cons
    <3>1. ASSUME pc' = "write" PROVE (posted + 1 - h) * WqeSlots(config) <= Capacity
      <4>1. PICK k \in Int : k = 1 - (config.depth - 1)
        BY <1>3
      <4>2. tail \in Int
        BY <1>1 DEF EndpointTypes
      <4>3. IonicTarget = tail + k
        <5>1. IonicTarget = tail + 1 - (config.depth - 1)
          BY Zenon, <1>0, <2>1, <3>1 DEF Return, Polling, IonicTarget
        <5> QED
          BY <5>1, <4>1, <4>2, <1>3
      <4>4. ~(((h % Word) - ((posted % Word) + k)) % Word >= Word \div 2)
        BY Zenon, <4>3, <2>0, <2>1 DEF Behind
      <4>5. ~(h < posted + k /\ 2 * ((posted + k) - h) <= Word)
        BY Zenon, <4>1, <4>4, <1>1, <1>3, SeenBehind
      <4>6. (posted + k) - h <= 1
        BY <2>a, <4>1, <1>1, <1>3
      <4>7. ~(h < posted + k)
        BY <4>5, <4>6, <4>1, <1>1, <1>3
      <4> QED
        BY <4>7, <4>1, <1>1, <1>3
    <3>2. ASSUME pc' = "verify" PROVE posted = h
      <4>1. IonicTarget = tail
        BY Zenon, <1>0, <2>1, <3>2 DEF Return, Polling, IonicTarget
      <4>2. (posted % Word) + 0 = posted % Word /\ 0 \in Int
        BY <1>1, <1>3
      <4>3. ~(((h % Word) - ((posted % Word) + 0)) % Word >= Word \div 2)
        BY Zenon, <4>1, <4>2, <2>0, <2>1 DEF Behind
      <4>4. ~(h < posted + 0 /\ 2 * ((posted + 0) - h) <= Word)
        BY Zenon, <4>2, <4>3, <1>1, <1>3, SeenBehind
      <4> QED
        BY <4>4, <2>a, <1>1, <1>3
    <3> QED
      BY Zenon, <1>0, <1>5, <2>1, <3>1, <3>2, TakenNone
  <2>2. CASE /\ pc' = pc /\ CqeReady /\ CqeOk /\ cons' = cons + 1
             /\ head' = cq[cons % config.cqDepth].wqe % Word
    <3>1. /\ cons = h /\ h + 1 \in Nat /\ h <= h + 1 /\ h + 1 <= done
          /\ cq[cons % config.cqDepth].wqe = h + 1
      BY Zenon, <1>0, <1>1, <1>5, <2>2, NextCompletion
    <3>2. ConsumerInv(h + 1)'
      BY Zenon, <1>0, <2>2, <3>1 DEF ConsumerInv
    <3>3. FailureInv(h + 1)
      BY Zenon, <2>0, <2>2, FailureNext
    <3>4. pc' # "write" /\ pc' # "verify"
      BY Zenon, <1>0, <2>2 DEF Polling
    <3> QED
      BY Zenon, <3>1, <3>2, <3>3, <3>4 DEF Taken
  <2> QED
    BY Zenon, <1>0, <2>1, <2>2
<1> QED
  BY Zenon, <1>0, <1>1, <1>2, <1>4, <1>5, PollInv


-----------------------------------------------------------------------------
(* Posting.                                                                *)

\* A work request is written at its place.
LEMMA WrittenAtPlace ==
    ASSUME RingsFit, EndpointTypes, TailInv
    PROVE  SlotsOf(tail) = Place(posted + 1)
<1>1. config \in Configs /\ posted \in Nat
  BY Zenon DEF EndpointTypes
<1>2. PICK d \in Nat \ {0}, s \in {1, 3} : d = config.depth /\ s = WqeSlots(config)
  BY Zenon, <1>1, ConfigFacts, SlotFacts
<1>3. PICK x \in Int : x = posted * s /\ x = ((posted + 1) - 1) * s
  BY <1>1, <1>2
<1>4. FirstSlot(tail) = x % d
  <2>1. CASE config.provider \in {"bnxt", "ernic"}
    BY Zenon, <2>1, <1>2, <1>3 DEF TailInv, FirstSlot
  <2>2. CASE config.provider \notin {"bnxt", "ernic"}
    <3>1. Word \in Nat \ {0} /\ Word % d = 0 /\ config.provider # "bnxt"
      BY Zenon, <2>2, <1>1, <1>2, WordFacts
    <3>2. x = posted /\ posted \in Int
      <4>1. s = 1
        BY Zenon, <3>1, <1>1, <1>2, SlotFacts
      <4> QED
        BY <4>1, <1>1, <1>3
    <3>3. (posted % Word) % d = posted % d
      BY Zenon, <3>1, <3>2, ModNested
    <3> QED
      BY Zenon, <2>2, <3>2, <3>3, <1>2 DEF TailInv, FirstSlot
  <2> QED
    BY Zenon, <2>1, <2>2
<1>5. ASSUME NEW i \in 0 .. s - 1 PROVE ((x % d) + i) % d = (x + i) % d
  <2>1. i \in Int
    BY <1>2
  <2> QED
    BY Zenon, <2>1, ModPlus
<1>6. SlotsOf(tail) = {((x % d) + i) % d : i \in 0 .. s - 1}
  BY Zenon, <1>2, <1>4 DEF SlotsOf
<1>7. Place(posted + 1) = {(x + i) % d : i \in 0 .. s - 1}
  BY Zenon, <1>2, <1>3 DEF Place
<1> QED
  BY Zenon, <1>5, <1>6, <1>7

\* The tail after the work request.
LEMMA TailNext ==
    ASSUME RingsFit, EndpointTypes, TailInv
    PROVE  /\ AdvanceTail \in Nat
           /\ AdvanceTail = IF config.provider \in {"bnxt", "ernic"}
                            THEN ((posted + 1) * WqeSlots(config)) % config.depth
                            ELSE (posted + 1) % Word
<1>1. config \in Configs /\ posted \in Nat /\ posted + 1 \in Nat
  BY DEF EndpointTypes
<1>2. PICK d \in Nat \ {0}, s \in {1, 3} : d = config.depth /\ s = WqeSlots(config)
  BY Zenon, <1>1, ConfigFacts, SlotFacts
<1>3. CASE config.provider \in {"bnxt", "ernic"}
  <2>1. PICK x \in Nat : x = posted * s /\ x + s = (posted + 1) * s
    BY <1>1, <1>2
  <2>2. x \in Int /\ s \in Int /\ (x + s) % d \in Nat
    BY <1>2
  <2>3. ((x % d) + s) % d = (x + s) % d
    BY Zenon, <2>2, ModPlus
  <2>4. AdvanceTail = (x + s) % d
    BY Zenon, <2>1, <2>3, <1>2, <1>3 DEF AdvanceTail, TailInv
  <2> QED
    BY Zenon, <2>1, <2>2, <2>4, <1>2, <1>3
<1>4. CASE config.provider \notin {"bnxt", "ernic"}
  <2>1. Word \in Nat \ {0}
    BY Zenon, <1>1, <1>4, WordFacts
  <2>2. posted \in Int /\ 1 \in Int /\ (posted + 1) % Word \in Nat
    BY <2>1, <1>1
  <2>3. ((posted % Word) + 1) % Word = (posted + 1) % Word
    BY Zenon, <2>1, <2>2, ModPlus
  <2> QED
    BY Zenon, <2>2, <2>3, <1>4 DEF AdvanceTail, TailInv
<1> QED
  BY Zenon, <1>3, <1>4

\* What WriteWqe changes.
LEMMA WriteChanges ==
    ASSUME WriteWqe
    PROVE  /\ pc = "write" /\ config' = config /\ opsDone' = opsDone /\ batchCount' = batchCount
           /\ stop' = stop /\ head' = head /\ cons' = cons /\ guessed' = guessed
           /\ done' = done /\ failed' = failed /\ cq' = cq
           /\ sq' = [s \in DOMAIN sq |-> IF s \in SlotsOf(tail) THEN posted + 1 ELSE sq[s]]
           /\ tail' = AdvanceTail /\ posted' = posted + 1 /\ b' = b + 1
           /\ doorbell' = (IF RingsNow THEN Rung(posted + 1) ELSE doorbell)
           /\ pc' = IF b + 1 < batchCount THEN "space" ELSE "doorbell"
  BY Zenon DEF WriteWqe, mlx5Vars

\* No work request is written over one that is not completed.
LEMMA WriteFree ==
    ASSUME RingsFit, EndpointInv, WriteWqe, ~guessed, NEW s \in DOMAIN sq, sq'[s] # sq[s]
    PROVE  sq[s] <= done
<1>p. EndpointTypes /\ QueueInv /\ pc = "write"
  BY Zenon, WriteChanges DEF EndpointInv
<1>1. PICK h \in Nat : Held(h)
  BY Zenon DEF EndpointInv
<1>2. /\ h <= done /\ (posted + 1 - h) * WqeSlots(config) <= Capacity /\ posted \in Nat
      /\ done \in Nat /\ config \in Configs
  BY Zenon, <1>p, <1>1 DEF Held, OutstandingInv, EndpointTypes
<1>3. PICK d \in Nat \ {0}, l \in {1, 3} : d = config.depth /\ l = WqeSlots(config)
  BY Zenon, <1>2, ConfigFacts, SlotFacts
<1>4. Capacity <= d /\ Capacity \in Int
  BY <1>3 DEF Capacity
<1>5. PICK i \in 0 .. l - 1 : s = (((posted + 1) - 1) * l + i) % d
  <2>1. s \in Place(posted + 1)
    BY Zenon, <1>p, WriteChanges, WrittenAtPlace DEF QueueInv
  <2> QED
    BY Zenon, <2>1, <1>3 DEF Place
<1>6. PICK k \in Nat : k = sq[s] /\ k <= posted
  <2>1. sq[s] \in Nat
    BY Zenon, <1>p DEF EndpointTypes
  <2> QED
    BY Zenon, <2>1, <1>p DEF QueueInv, PlacesInv
<1>7. SUFFICES ASSUME k > done PROVE FALSE
  BY <1>6, <1>2
<1>8. PICK j \in 0 .. l - 1 : s = ((k - 1) * l + j) % d
  <2>1. k # 0
    BY <1>7, <1>2
  <2>2. s \in Place(k)
    BY Zenon, <2>1, <1>6, <1>p DEF QueueInv, PlacesInv
  <2> QED
    BY Zenon, <2>2, <1>3 DEF Place
<1>9. PICK x \in Int, y \in Int : x = (k - 1) * l + j /\ y = ((posted + 1) - 1) * l + i
  BY <1>2, <1>3
<1>10. x < y /\ y - x < d
  <2>1. /\ (posted + 1 - h) * l <= d /\ k <= posted /\ k > done /\ h <= done
        /\ posted \in Nat /\ done \in Nat
    BY <1>2, <1>3, <1>4, <1>6, <1>7
  <2> QED
    BY <2>1, <1>9
<1>11. x % d = y % d
  BY Zenon, <1>5, <1>8, <1>9
<1> QED
  BY Zenon, <1>10, <1>11, ModDistinct


\* Posting a work request preserves the invariant.
LEMMA WriteWqeInv ==
    ASSUME RingsFit, EndpointInv, WriteWqe
    PROVE  EndpointInv'
<1>p. EndpointTypes /\ LoopInv
  BY Zenon DEF EndpointInv
<1>0. /\ pc = "write" /\ config' = config /\ opsDone' = opsDone /\ batchCount' = batchCount
      /\ stop' = stop /\ head' = head /\ cons' = cons /\ guessed' = guessed
      /\ done' = done /\ failed' = failed /\ cq' = cq
      /\ sq' = [s \in DOMAIN sq |-> IF s \in SlotsOf(tail) THEN posted + 1 ELSE sq[s]]
      /\ tail' = AdvanceTail /\ posted' = posted + 1 /\ b' = b + 1
      /\ doorbell' = (IF RingsNow THEN Rung(posted + 1) ELSE doorbell)
      /\ pc' = IF b + 1 < batchCount THEN "space" ELSE "doorbell"
  BY Zenon, WriteChanges
<1>1. /\ config \in Configs /\ posted \in Nat /\ b \in Nat /\ batchCount \in Nat /\ doorbell \in Nat
      /\ done \in Nat /\ b < batchCount /\ batchCount <= config.batch /\ config.batch \in Nat
  BY Zenon, <1>0, <1>p, ConfigFacts DEF EndpointTypes, LoopInv, InBatch
<1>2. posted + 1 \in Nat /\ b + 1 \in Nat /\ 0 < b + 1 /\ b + 1 <= batchCount /\ doorbell + 1 \in Nat
  BY <1>1
<1>3. LoopInv'
  BY Zenon, <1>0, <1>2, <1>p DEF LoopInv, InBatch
<1>4. EndpointTypes'
  <2>1. sq \in [0 .. config.depth - 1 -> Nat]
    BY Zenon, <1>p DEF EndpointTypes
  <2>2. sq' \in [0 .. config.depth - 1 -> Nat]
    BY Zenon, <1>0, <1>2, <2>1
  <2>3. doorbell' \in Nat
    BY Zenon, <1>0, <1>1, <1>2 DEF Rung
  <2>4. AdvanceTail \in Nat
    <3>1. PICK d \in Nat \ {0}, s \in {1, 3} : d = config.depth /\ s = WqeSlots(config)
      BY Zenon, <1>1, ConfigFacts, SlotFacts
    <3>2. tail \in Nat
      BY Zenon, <1>p DEF EndpointTypes
    <3>3. (tail + s) % d \in Nat
      BY <3>1, <3>2
    <3>4. ASSUME config.provider \notin {"bnxt", "ernic"} PROVE (tail + 1) % Word \in Nat
      <4>1. Word \in Nat \ {0}
        BY Zenon, <3>4, <1>1, WordFacts
      <4> QED
        BY <4>1, <3>2
    <3> QED
      BY Zenon, <3>1, <3>3, <3>4 DEF AdvanceTail
  <2>5. pc' \in KernelSteps
    BY Zenon, <1>0 DEF KernelSteps, InBatch
  <2> QED
    BY Zenon, <1>0, <1>2, <1>p, <2>2, <2>3, <2>4, <2>5 DEF EndpointTypes
<1>5. SUFFICES ASSUME ~guessed PROVE QueueInv' /\ \E h \in Nat : Held(h)'
  BY Zenon, <1>0, <1>3, <1>4 DEF EndpointInv
<1>6. QueueInv /\ \E h \in Nat : Held(h)
  BY Zenon, <1>5 DEF EndpointInv
<1>7. WqeSlots(config') = WqeSlots(config) /\ Capacity' = Capacity /\ RingsNow' = RingsNow
  BY Zenon, <1>0 DEF Capacity, RingsNow
<1>8. PlacesInv'
  <2>1. \A k : Place(k)' = Place(k)
    BY Zenon, <1>0, <1>7 DEF Place
  <2>2. ASSUME NEW s \in DOMAIN sq
        PROVE  sq'[s] <= posted + 1 /\ (sq'[s] # 0 => s \in Place(sq'[s]))
    <3>1. sq[s] \in Nat /\ sq[s] <= posted /\ (sq[s] # 0 => s \in Place(sq[s]))
      BY Zenon, <1>6, <1>p DEF QueueInv, PlacesInv, EndpointTypes
    <3>2. sq[s] <= posted + 1 /\ posted + 1 <= posted + 1
      BY <3>1, <1>1
    <3>3. s \in SlotsOf(tail) => s \in Place(posted + 1)
      BY Zenon, <1>p, <1>6, WrittenAtPlace DEF QueueInv
    <3>4. sq'[s] = IF s \in SlotsOf(tail) THEN posted + 1 ELSE sq[s]
      BY Zenon, <1>0
    <3> QED
      BY Zenon, <3>1, <3>2, <3>3, <3>4
  <2>3. DOMAIN sq' = DOMAIN sq
    BY Zenon, <1>0
  <2> QED
    BY Zenon, <1>0, <2>1, <2>2, <2>3 DEF PlacesInv
<1>9. CqInv'
  BY Zenon, <1>0, <1>6 DEF QueueInv, CqInv
<1>10. TailInv'
  BY Zenon, <1>0, <1>6, <1>7, <1>p, TailNext DEF QueueInv, TailInv
<1>11. DoorbellInv'
  <2>1. done <= doorbell /\ doorbell <= posted /\ (~RingsNow => doorbell + b <= posted)
    BY Zenon, <1>0, <1>6 DEF QueueInv, DoorbellInv
  <2>2. /\ done <= doorbell /\ done <= doorbell + 1 /\ done <= posted + 1
        /\ doorbell <= posted + 1 /\ doorbell + 1 <= posted + 1 /\ posted + 1 <= posted + 1
        /\ doorbell + b <= posted => doorbell + (b + 1) <= posted + 1
    BY <2>1, <1>1
  <2>3. doorbell' = IF RingsNow THEN (IF config.provider = "ernic" THEN doorbell + 1 ELSE posted + 1)
                    ELSE doorbell
    BY Zenon, <1>0 DEF Rung
  <2> QED
    BY Zenon, <1>0, <1>7, <2>1, <2>2, <2>3 DEF DoorbellInv
<1>12. \E h \in Nat : Held(h)'
  <2>1. PICK h \in Nat : Held(h)
    BY Zenon, <1>6
  <2>2. /\ h <= done /\ posted - h <= b /\ (posted + 1 - h) * WqeSlots(config) <= Capacity
    BY Zenon, <1>0, <2>1 DEF Held, OutstandingInv, InBatch
  <2>3. (posted + 1) - h <= config.batch /\ (posted + 1) - h <= b + 1
    BY <2>2, <1>1
  <2>4. ((posted + 1) - h) * WqeSlots(config) <= Capacity
    <3>1. (posted + 1) - h = posted + 1 - h
      BY <1>1
    <3> QED
      BY Zenon, <2>2, <3>1
  <2>5. OutstandingInv(h)'
    BY Zenon, <1>0, <1>7, <2>2, <2>3, <2>4 DEF OutstandingInv
  <2>6. ConsumerInv(h)'
    BY Zenon, <1>0, <2>1 DEF Held, ConsumerInv
  <2>7. FailureInv(h)'
    BY <1>0, <2>1 DEF Held, FailureInv
  <2> QED
    BY Zenon, <2>5, <2>6, <2>7 DEF Held
<1> QED
  BY Zenon, <1>8, <1>9, <1>10, <1>11, <1>12 DEF QueueInv

-----------------------------------------------------------------------------
(* The NIC.                                                                *)

\* A completion replaces the one a lap ago.
LEMMA NicCq ==
    ASSUME RingsFit, EndpointTypes, CqInv, config' = config, done' = done + 1, NEW ok \in BOOLEAN,
           cq' = [cq EXCEPT ![done % config.cqDepth] =
                    [wqe |-> done + 1, lap |-> (done \div config.cqDepth) % 2, ok |-> ok]]
    PROVE  CqInv'
<1>1. PICK q \in Nat \ {0} : q = config.cqDepth
  BY Zenon, ConfigFacts DEF EndpointTypes
<1>2. PICK e \in Nat : e = done
  BY Zenon DEF EndpointTypes
<1>3. cq \in [0 .. q - 1 -> Completions]
  BY Zenon, <1>1 DEF EndpointTypes
<1>4. e \in Int /\ e % q \in 0 .. q - 1 /\ e \div q \in Nat
  BY <1>2
<1>5. /\ cq'[e % q].wqe = e + 1 /\ cq'[e % q].lap = (e \div q) % 2
  BY Zenon, <1>1, <1>2, <1>3, <1>4
<1>6. ASSUME NEW n \in Nat, n % q # e % q PROVE cq'[n % q] = cq[n % q]
  <2>1. n % q \in 0 .. q - 1
    OBVIOUS
  <2> QED
    BY Zenon, <2>1, <1>1, <1>2, <1>3, <1>6
<1>7. ASSUME NEW n \in Nat, n < e + 1, e + 1 <= n + q
      PROVE  cq'[n % q].wqe = n + 1 /\ cq'[n % q].lap = (n \div q) % 2
  <2>1. CASE n = e
    BY Zenon, <2>1, <1>5
  <2>2. CASE n # e
    <3>1. n < e /\ e - n < q /\ e <= n + q /\ n \in Int
      BY <2>2, <1>7
    <3>2. n % q # e % q
      BY Zenon, <3>1, <1>4, ModDistinct
    <3>3. cq[n % q].wqe = n + 1 /\ cq[n % q].lap = (n \div q) % 2
      BY Zenon, <3>1, <1>1, <1>2 DEF CqInv
    <3> QED
      BY Zenon, <3>2, <3>3, <1>6
  <2> QED
    BY Zenon, <2>1, <2>2
<1>8. ASSUME NEW n \in Nat, e + 1 <= n, n < (e + 1) + q
      PROVE  cq'[n % q].lap # (n \div q) % 2
  <2>1. CASE n = e + q
    <3>1. n = e + q * 1 /\ 1 \in Int /\ n \in Int
      BY <2>1
    <3>2. n % q = e % q /\ n \div q = (e \div q) + 1
      BY Zenon, <3>1, <1>4, ModShift
    <3>3. (e \div q) % 2 # ((e \div q) + 1) % 2
      BY <1>4
    <3> QED
      BY Zenon, <3>2, <3>3, <1>5
  <2>2. CASE n # e + q
    <3>1. e < n /\ n - e < q /\ e <= n /\ n < e + q /\ n \in Int
      BY <2>2, <1>8
    <3>2. n % q # e % q
      BY Zenon, <3>1, <1>4, ModDistinct
    <3>3. cq[n % q].lap # (n \div q) % 2
      BY Zenon, <3>1, <1>1, <1>2 DEF CqInv
    <3> QED
      BY Zenon, <3>2, <3>3, <1>6
  <2> QED
    BY Zenon, <2>1, <2>2
<1> QED
  BY Zenon, <1>1, <1>2, <1>7, <1>8 DEF CqInv


\* Completing a work request preserves the invariant.
LEMMA NicInv ==
    ASSUME RingsFit, EndpointInv, Nic
    PROVE  EndpointInv'
<1>p. EndpointTypes /\ LoopInv
  BY Zenon DEF EndpointInv
<1>0. PICK ok \in BOOLEAN :
        /\ done < doorbell /\ done' = done + 1 /\ failed' = (failed \/ ~ok)
        /\ cq' = [cq EXCEPT ![done % config.cqDepth] =
                    [wqe |-> done + 1, lap |-> (done \div config.cqDepth) % 2, ok |-> ok]]
        /\ config' = config /\ pc' = pc /\ opsDone' = opsDone /\ batchCount' = batchCount /\ b' = b
        /\ stop' = stop /\ sq' = sq /\ tail' = tail /\ head' = head /\ posted' = posted
        /\ cons' = cons /\ guessed' = guessed /\ doorbell' = doorbell
  BY Zenon DEF Nic, kernelVars, queueVars, mlx5Vars
<1>1. /\ config \in Configs /\ posted \in Nat /\ doorbell \in Nat /\ done \in Nat
      /\ cq \in [0 .. config.cqDepth - 1 -> Completions] /\ config.cqDepth \in Nat \ {0}
  BY Zenon, <1>p, ConfigFacts DEF EndpointTypes
<1>2. /\ done + 1 \in Nat /\ done + 1 <= doorbell /\ done % config.cqDepth \in 0 .. config.cqDepth - 1
      /\ (done \div config.cqDepth) % 2 \in {0, 1}
  <2>1. PICK q \in Nat : q = done \div config.cqDepth
    BY <1>1
  <2>2. q % 2 \in {0, 1}
    OBVIOUS
  <2>3. done + 1 \in Nat /\ done + 1 <= doorbell /\ done % config.cqDepth \in 0 .. config.cqDepth - 1
    BY <1>0, <1>1
  <2> QED
    BY Zenon, <2>1, <2>2, <2>3
<1>3. EndpointTypes'
  <2>1. [wqe |-> done + 1, lap |-> (done \div config.cqDepth) % 2, ok |-> ok] \in Completions
    BY Zenon, <1>2 DEF Completions
  <2>2. cq' \in [0 .. config.cqDepth - 1 -> Completions]
    BY Zenon, <2>1, <1>0, <1>1
  <2> QED
    BY Zenon, <2>2, <1>0, <1>2, <1>p DEF EndpointTypes
<1>4. LoopInv'
  BY Zenon, <1>0, <1>p DEF LoopInv
<1>5. SUFFICES ASSUME ~guessed PROVE QueueInv' /\ \E h \in Nat : Held(h)'
  BY Zenon, <1>0, <1>3, <1>4 DEF EndpointInv
<1>6. QueueInv /\ \E h \in Nat : Held(h)
  BY Zenon, <1>5 DEF EndpointInv
<1>7. WqeSlots(config') = WqeSlots(config) /\ Capacity' = Capacity /\ RingsNow' = RingsNow
  BY Zenon, <1>0 DEF Capacity, RingsNow
<1>8. PlacesInv'
  <2>1. \A k : Place(k)' = Place(k)
    BY Zenon, <1>0, <1>7 DEF Place
  <2> QED
    BY Zenon, <1>0, <1>6, <2>1 DEF QueueInv, PlacesInv
<1>9. CqInv'
  BY Zenon, <1>0, <1>6, <1>p, NicCq DEF QueueInv
<1>10. TailInv'
  BY Zenon, <1>0, <1>6, <1>7 DEF QueueInv, TailInv
<1>11. DoorbellInv'
  BY Zenon, <1>0, <1>2, <1>6, <1>7 DEF QueueInv, DoorbellInv
<1>12. \E h \in Nat : Held(h)'
  <2>1. PICK h \in Nat : Held(h)
    BY Zenon, <1>6
  <2>2. h <= done /\ doorbell <= posted /\ posted - h <= config.cqDepth
    BY Zenon, <1>1, <1>6, <2>1, OutstandingFits DEF Held, OutstandingInv, QueueInv, DoorbellInv
  <2>3. h <= done + 1 /\ done - h < config.cqDepth
    BY <2>2, <1>1, <1>2
  <2>4. OutstandingInv(h)'
    BY Zenon, <1>0, <1>7, <2>1, <2>3 DEF Held, OutstandingInv
  <2>5. ConsumerInv(h)'
    BY Zenon, <1>0, <2>1 DEF Held, ConsumerInv
  <2>6. FailureInv(h)'
    <3>1. SUFFICES ASSUME failed', config.provider \in {"mlx5", "ionic"}
                   PROVE  \E n \in Nat : h <= n /\ n < done' /\ ~cq'[n % config'.cqDepth].ok
      BY <1>0 DEF FailureInv
    <3>2. CASE ~ok
      <4>1. cq'[done % config.cqDepth].ok = ok
        BY Zenon, <1>0, <1>1, <1>2
      <4>2. done < done + 1
        BY <1>1
      <4> QED
        BY Zenon, <3>2, <4>1, <4>2, <1>0, <1>1, <2>2
    <3>3. CASE failed
      <4>1. PICK n \in Nat : h <= n /\ n < done /\ ~cq[n % config.cqDepth].ok
        BY Zenon, <3>1, <3>3, <2>1 DEF Held, FailureInv
      <4>2. done - n < config.cqDepth /\ n < done + 1 /\ n \in Int /\ done \in Int
        BY <4>1, <2>3, <1>1
      <4>3. n % config.cqDepth # done % config.cqDepth
        BY Zenon, <4>1, <4>2, <1>1, ModDistinct
      <4>4. n % config.cqDepth \in 0 .. config.cqDepth - 1
        BY <1>1
      <4>5. cq'[n % config.cqDepth] = cq[n % config.cqDepth]
        BY Zenon, <4>3, <4>4, <1>0, <1>1
      <4> QED
        BY Zenon, <4>1, <4>2, <4>5, <1>0
    <3> QED
      BY Zenon, <3>1, <3>2, <3>3, <1>0
  <2> QED
    BY Zenon, <2>4, <2>5, <2>6 DEF Held
<1> QED
  BY Zenon, <1>8, <1>9, <1>10, <1>11, <1>12 DEF QueueInv

-----------------------------------------------------------------------------

\* A step that changes nothing.
LEMMA EndpointStutters ==
    ASSUME RingsFit, EndpointInv, UNCHANGED vars
    PROVE  EndpointInv'
<1>0. /\ config' = config /\ pc' = pc /\ opsDone' = opsDone /\ batchCount' = batchCount /\ b' = b
      /\ stop' = stop /\ sq' = sq /\ tail' = tail /\ head' = head /\ posted' = posted
      /\ cons' = cons /\ guessed' = guessed /\ doorbell' = doorbell
      /\ done' = done /\ failed' = failed /\ cq' = cq
  BY Zenon DEF vars, kernelVars, queueVars, mlx5Vars, nicVars
<1>1. EndpointTypes' /\ LoopInv'
  BY Zenon, <1>0 DEF EndpointInv, EndpointTypes, LoopInv
<1>2. DoorbellInv => DoorbellInv'
  BY Zenon, <1>0 DEF DoorbellInv, RingsNow
<1>3. ASSUME NEW h \in Nat, Held(h)
      PROVE  ConsumerInv(h)' /\ OutstandingInv(h)' /\ FailureInv(h)
  <2>1. ConsumerInv(h)'
    BY Zenon, <1>3, <1>0 DEF Held, ConsumerInv
  <2>2. Capacity' = Capacity /\ WqeSlots(config') = WqeSlots(config)
    BY Zenon, <1>0 DEF Capacity
  <2>3. OutstandingInv(h)'
    BY Zenon, <1>3, <1>0, <2>2 DEF Held, OutstandingInv
  <2> QED
    BY Zenon, <1>3, <2>1, <2>3 DEF Held
<1> QED
  BY Zenon, <1>0, <1>1, <1>2, <1>3, KeptStep

\* The invariant is inductive.
LEMMA NextEndpoint ==
    ASSUME RingsFit, EndpointInv, [Next]_vars
    PROVE  EndpointInv'
<1>1. CASE PollCqUntil
  BY Zenon, <1>1, ErnicPollInv, BnxtPollInv, Mlx5EnterInv, Mlx5PollInv, IonicPollInv,
     PollAbortsInv, PollStoppedInv DEF PollCqUntil
<1>2. CASE Kernel
  BY Zenon, <1>1, <1>2, NextBatchInv, VerifyInv, WriteWqeInv, RingDoorbellInv DEF Kernel
<1> QED
  BY Zenon, <1>2, NicInv, RequestStopInv, EndpointStutters DEF Next

LEMMA EndpointInvariant ==
    ASSUME RingsFit
    PROVE  Spec => []EndpointInv
<1>1. Init => EndpointInv
  BY Zenon, InitEndpoint
<1>2. EndpointInv /\ [Next]_vars => EndpointInv'
  BY Zenon, NextEndpoint
<1> QED
  BY <1>1, <1>2, PTL DEF Spec

\* quiet() of every provider waits for every work request that was posted, whatever the
\* depth of the rings and however the NIC and the stop flag race with it, and the loops of
\* mlx5 and ionic let no failure pass; with the exception QuietWaits names.
THEOREM QuietWaitsForAll ==
    ASSUME RingsFit
    PROVE  Spec => []QuietWaits
<1>1. ASSUME EndpointInv PROVE QuietWaits
  <2>1. SUFFICES ASSUME pc = "verify", ~stop, ~guessed
                 PROVE  /\ done = posted
                        /\ failed => config.provider \in {"bnxt", "ernic"}
    BY Zenon DEF QuietWaits
  <2>2. PICK h \in Nat : Held(h)
    BY Zenon, <1>1, <2>1 DEF EndpointInv
  <2>3. /\ posted = h /\ h <= done /\ done <= doorbell /\ doorbell <= posted
        /\ done \in Nat /\ doorbell \in Nat /\ posted \in Nat /\ config \in Configs
    BY Zenon, <1>1, <2>1, <2>2
       DEF EndpointInv, Held, OutstandingInv, QueueInv, DoorbellInv, EndpointTypes
  <2>4. done = posted
    BY <2>3
  <2>5. ASSUME failed, config.provider \notin {"bnxt", "ernic"} PROVE FALSE
    <3>1. config.provider \in {"mlx5", "ionic"}
      BY Zenon, <2>3, <2>5, WordFacts
    <3>2. PICK n \in Nat : h <= n /\ n < done
      BY Zenon, <3>1, <2>2, <2>5 DEF Held, FailureInv
    <3> QED
      BY <3>2, <2>3
  <2> QED
    BY Zenon, <2>4, <2>5
<1> QED
  BY <1>1, EndpointInvariant, PTL

\* No provider writes a work request over one the NIC has still to complete, in any ring.
THEOREM WritesOverCompleted ==
    ASSUME RingsFit
    PROVE  Spec => NoOverwrite
<1>1. ASSUME EndpointInv, [Next]_vars
      PROVE  [~guessed => \A s \in DOMAIN sq : sq'[s] # sq[s] => sq[s] <= done]_vars
  <2>1. CASE WriteWqe
    BY Zenon, <1>1, <2>1, WriteFree
  <2>2. CASE sq' = sq
    BY Zenon, <2>2
  <2>3. UNCHANGED vars => sq' = sq
    BY Zenon DEF vars, queueVars
  <2>4. PollCqUntil => sq' = sq
    BY Zenon DEF PollCqUntil, ErnicPoll, BnxtPoll, Mlx5Enter, Mlx5Poll, IonicPoll, PollAborts,
       PollStopped, queueVars
  <2>5. Nic \/ RequestStop \/ NextBatch \/ Verify \/ RingDoorbell => sq' = sq
    BY Zenon DEF Nic, RequestStop, NextBatch, Verify, RingDoorbell, queueVars
  <2> QED
    BY Zenon, <1>1, <2>1, <2>2, <2>3, <2>4, <2>5 DEF Next, Kernel
<1> QED
  BY <1>1, EndpointInvariant, PTL DEF Spec, NoOverwrite

-----------------------------------------------------------------------------
(* RdmaLibs: for every library the linker may find.                        *)

\* A complete table holds every symbol it names that is not optional.
LEMMA CompleteHolds ==
    ASSUME NEW handle, NEW names, NEW n \in Nat, DOMAIN names = 1 .. n, NEW optional, NEW at,
           LoadTable(handle, names, optional, at).ok
    PROVE  {names[i] : i \in 1 .. n} \ optional
             \subseteq LoadTable(handle, names, optional, at).funcs
  <1>1. /\ Complete(names, optional, at[handle])
        /\ LoadTable(handle, names, optional, at).funcs = Resolved(names, optional, at[handle])
    BY Zenon DEF LoadTable, Unopened
  <1>2. ASSUME NEW i \in 1 .. n, names[i] \notin optional
        PROVE  names[i] \in Resolved(names, optional, at[handle])
    BY <1>1, <1>2 DEF Complete, Resolved
  <1> QED  BY Zenon, <1>1, <1>2

\* open_dv_libs settles on a provider only if its *_dv_dl_init returned 0, and
\* then every direct-verbs function the provider's file calls without a test
\* was resolved, whatever the libraries installed export.
THEOREM ProviderComplete ==
    ASSUME NEW p \in {"bnxt", "mlx5", "ernic", "ionic"}, NEW at, DlInit(p, at).ok
    PROVE  CalledBy(p) \subseteq DlInit(p, at).funcs
  <1>1. CASE p = "bnxt"
    <2> DEFINE handle == dv_dlopen(<<>>, at)
               required == <<"create_qp", "destroy_qp", "modify_qp", "create_cq",
                             "destroy_cq", "umem_reg", "umem_dereg", "alloc_db_region",
                             "free_db_region", "get_default_db_region", "get_cq_id">>
    <2>1. DlInit(p, at) = LoadTable(handle, required, {}, at)
      BY Zenon, <1>1 DEF DlInit, bnxt_dv_dl_init
    <2>2. DOMAIN required = 1 .. 11 /\ 11 \in Nat
      OBVIOUS
    <2>3. CalledBy(p) \subseteq {required[i] : i \in 1 .. 11} \ {}
      BY <1>1 DEF CalledBy
    <2> HIDE DEF required, handle
    <2> QED  BY <2>1, <2>2, <2>3, CompleteHolds, Zenon
  <1>2. CASE p = "mlx5"
    <2> DEFINE handle == dv_dlopen(<<"/usr/lib/x86_64-linux-gnu", "/usr/lib/aarch64-linux-gnu", "/usr/lib64">>, at)
               required == <<"init_obj", "is_supported", "query_device">>
    <2>1. DlInit(p, at) = LoadTable(handle, required, {"is_supported", "query_device"}, at)
      BY Zenon, <1>2 DEF DlInit, mlx5_dv_dl_init
    <2>2. DOMAIN required = 1 .. 3 /\ 3 \in Nat
      OBVIOUS
    <2>3. CalledBy(p) \subseteq {required[i] : i \in 1 .. 3} \ {"is_supported", "query_device"}
      BY <1>2 DEF CalledBy
    <2> HIDE DEF required, handle
    <2> QED  BY <2>1, <2>2, <2>3, CompleteHolds, ZenonT(30)
  <1>3. CASE p = "ernic"
    <2> DEFINE handle == dv_dlopen(<<>>, at)
               required == <<"create_qp", "destroy_qp", "modify_qp", "create_cq",
                             "destroy_cq", "umem_reg", "umem_dereg", "get_cq_id",
                             "get_qp_attr">>
    <2>1. DlInit(p, at) = LoadTable(handle, required, {}, at)
      BY Zenon, <1>3 DEF DlInit, ernic_dv_dl_init
    <2>2. DOMAIN required = 1 .. 9 /\ 9 \in Nat
      OBVIOUS
    <2>3. CalledBy(p) \subseteq {required[i] : i \in 1 .. 9} \ {}
      BY <1>3 DEF CalledBy
    <2> HIDE DEF required, handle
    <2> QED  BY <2>1, <2>2, <2>3, CompleteHolds, Zenon
  <1>4. CASE p = "ionic"
    <2> DEFINE handle == dv_dlopen(<<>>, at)
               required == <<"get_ctx", "qp_get_udma_idx", "get_cq", "get_qp",
                             "pd_set_sqcmb", "pd_set_rqcmb", "pd_set_udma_mask",
                             "create_cq_ex", "qp_set_gda">>
    <2>1. DlInit(p, at) = LoadTable(handle, required, {}, at)
      BY Zenon, <1>4 DEF DlInit, ionic_dv_dl_init
    <2>2. DOMAIN required = 1 .. 9 /\ 9 \in Nat
      OBVIOUS
    <2>3. CalledBy(p) \subseteq {required[i] : i \in 1 .. 9} \ {}
      BY <1>4 DEF CalledBy
    <2> HIDE DEF required, handle
    <2> QED  BY <2>1, <2>2, <2>3, CompleteHolds, Zenon
  <1> QED  BY Zenon, <1>1, <1>2, <1>3, <1>4

\* An initialized IBVWrapper calls only functions it has loaded: its methods
\* call required ones, and reg_mr the optional ibv_reg_dmabuf_mr only where it
\* was found.
THEOREM WrapperCallsLoaded ==
    ASSUME NEW at, NEW options, NEW exported \in BOOLEAN, NEW plain \in BOOLEAN,
           IBVWrapper(at, options).is_initialized
    PROVE  IbvCalled \cup reg_mr(IBVWrapper(at, options), exported, plain)
             \subseteq IBVWrapper(at, options).table.funcs
  <1> DEFINE w == IBVWrapper(at, options)
  <1>1. PICK handle : w.table = ibv_init_function_table(handle, at)
    BY Zenon DEF IBVWrapper
  <1>2. w.table.ok
    BY Zenon DEF IBVWrapper
  <1>3. w.dmabuf_is_supported => "reg_dmabuf_mr" \in w.table.funcs
    BY Zenon DEF IBVWrapper, init_dmabuf_support_flag
  <1>4. IbvCalled \subseteq w.table.funcs
    <2> DEFINE required == <<"get_device_list", "free_device_list", "open_device",
                           "close_device", "get_device_name", "query_device",
                           "query_port", "query_gid", "query_gid_table", "alloc_pd",
                           "dealloc_pd", "reg_mr", "reg_dmabuf_mr", "reg_mr_iova2",
                           "dereg_mr", "create_cq", "destroy_cq", "create_qp",
                           "modify_qp", "destroy_qp">>
    <2>1. w.table = LoadTable(handle, required, {"reg_dmabuf_mr"}, at)
      BY Zenon, <1>1 DEF ibv_init_function_table
    <2>2. DOMAIN required = 1 .. 20 /\ 20 \in Nat
      OBVIOUS
    <2>3. IbvCalled \subseteq {required[i] : i \in 1 .. 20} \ {"reg_dmabuf_mr"}
      BY DEF IbvCalled
    <2> HIDE DEF required, w
    <2>4. LoadTable(handle, required, {"reg_dmabuf_mr"}, at).ok
      BY Zenon, <1>2, <2>1
    <2>5. {required[i] : i \in 1 .. 20} \ {"reg_dmabuf_mr"}
            \subseteq LoadTable(handle, required, {"reg_dmabuf_mr"}, at).funcs
      BY <2>2, <2>4, CompleteHolds, Zenon
    <2> QED  BY Zenon, <2>1, <2>3, <2>5
  <1> QED  BY <1>3, <1>4 DEF reg_mr, reg_mr_host, IbvCalled

\* The same of libnuma, whose handle an incomplete table closes.
THEOREM NumaCallsLoaded ==
    ASSUME NEW at, NUMAWrapper(at).is_initialized
    PROVE  NumaCalled \subseteq NUMAWrapper(at).table.funcs
  <1> DEFINE required == <<"bitmask_isbitset", "get_mems_allowed", "set_preferred",
                           "num_configured_nodes", "num_configured_cpus", "node_of_cpu",
                           "max_node", "move_pages", "distance">>
             w == NUMAWrapper(at)
  <1>1. PICK handle : w.table = LoadTable(handle, required, {}, at) /\ w.table.ok
    BY Zenon DEF NUMAWrapper
  <1>2. DOMAIN required = 1 .. 9 /\ 9 \in Nat
    OBVIOUS
  <1>3. NumaCalled \subseteq {required[i] : i \in 1 .. 9} \ {}
    BY DEF NumaCalled
  <1> HIDE DEF required, w
  <1>4. NumaCalled \subseteq w.table.funcs
    BY <1>1, <1>2, <1>3, CompleteHolds, Zenon
  <1> QED  BY Zenon, <1>4 DEF w
=============================================================================
