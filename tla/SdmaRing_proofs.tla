-------------------------- MODULE SdmaRing_proofs --------------------------
(***************************************************************************)
(* Safety of the shared SDMA ring for any number of threads, any ring size *)
(* and any packet lengths; and what the fields of a packet carry to the    *)
(* engine (SdmaWire), for every width of the fields.                       *)
(***************************************************************************)
EXTENDS SdmaRing, SdmaWire, TLAPS

-----------------------------------------------------------------------------
(* Division with remainder.                                                *)

\* A number is its quotient and its remainder.
LEMMA DivMod ==
    ASSUME NEW n \in Nat, NEW d \in Nat \ {0}
    PROVE  /\ n \div d \in Nat
           /\ n % d \in 0 .. d - 1
           /\ n = d * (n \div d) + (n % d)
  OBVIOUS

\* Quotient and remainder are unique.
LEMMA DivUnique ==
    ASSUME NEW d \in Nat \ {0}, NEW q \in Nat, NEW r \in 0 .. d - 1
    PROVE  /\ (d * q + r) \div d = q
           /\ (d * q + r) % d = r
  <1> DEFINE n == d * q + r
  <1>1. n \in Nat
    OBVIOUS
  <1>2. /\ n \div d \in Nat
        /\ n % d \in 0 .. d - 1
        /\ n = d * (n \div d) + (n % d)
    BY Zenon, <1>1, DivMod
  <1> HIDE DEF n
  <1>3. ASSUME NEW a \in Nat, NEW s \in 0 .. d - 1, d * q + r = d * a + s
        PROVE  a = q
    <2>1. ASSUME a > q PROVE FALSE
      <3>1. d * (a - q) >= d
        BY <2>1
      <3>2. d * (a - q) = d * a - d * q
        OBVIOUS
      <3> QED  BY <3>1, <3>2, <1>3
    <2>2. ASSUME a < q PROVE FALSE
      <3>1. d * (q - a) >= d
        BY <2>2
      <3>2. d * (q - a) = d * q - d * a
        OBVIOUS
      <3> QED  BY <3>1, <3>2, <1>3
    <2> QED  BY <2>1, <2>2
  <1>4. n \div d = q
    BY Zenon, <1>2, <1>3 DEF n
  <1> QED  BY <1>2, <1>4 DEF n

\* The same facts, with a name for each number.
LEMMA DivPick ==
    ASSUME NEW n \in Nat, NEW d \in Nat \ {0}
    PROVE  \E q \in Nat, r \in 0 .. d - 1 : q = n \div d /\ r = n % d /\ n = d * q + r
  BY DivMod, Zenon

\* Uniqueness, for a number that is given a name.
LEMMA DivIs ==
    ASSUME NEW d \in Nat \ {0}, NEW n \in Nat, NEW q \in Nat, NEW r \in 0 .. d - 1,
           n = d * q + r
    PROVE  n \div d = q /\ n % d = r
  BY DivUnique, Zenon

-----------------------------------------------------------------------------
(* SdmaWire: the engine reads back what was asked for.                     *)

\* The width of a full field.
LEMMA DwordType == Dword \in Nat \ {0}
  BY Zenon, WireAssumption

\* The two halves of a 64-bit value are put together to that value.
LEMMA Halves ==
    ASSUME NEW v \in Address
    PROVE  Whole(v % Dword, (v \div Dword) % Dword) = v
  <1>1. v \in Nat /\ v < Dword * Dword
    BY DwordType DEF Address
  <1>2. PICK q \in Nat, r \in 0 .. Dword - 1 :
          q = v \div Dword /\ r = v % Dword /\ v = Dword * q + r
    BY <1>1, DwordType, DivPick, Zenon
  <1>3. q < Dword
    <2>1. SUFFICES ASSUME q >= Dword PROVE FALSE
      BY <1>2, DwordType
    <2>2. Dword * q >= Dword * Dword
      BY <2>1, <1>2, DwordType
    <2> QED  BY <2>2, <1>1, <1>2, DwordType
  <1>4. q % Dword = q
    BY <1>3, <1>2, DwordType
  <1>5. q * Dword + r = v
    BY <1>2, DwordType
  <1> QED  BY Zenon, <1>2, <1>4, <1>5 DEF Whole

\* Multiplication distributes, with nothing else in the context.
LEMMA Distributes ==
    ASSUME NEW a \in Nat, NEW m \in Nat, NEW q \in Nat, NEW r \in Nat
    PROVE  a * (m * q + r) = (a * m) * q + a * r
  OBVIOUS

\* So are the halves of a multiple of Align whose low bits were dropped.
LEMMA AlignedHalves ==
    ASSUME NEW v \in Address, v % Align = 0
    PROVE  Whole(((v \div Align) % (Dword \div Align)) * Align, (v \div Dword) % Dword) = v
  <1>1. v \in Nat /\ v < Dword * Dword
    BY DwordType DEF Address
  <1>2. Align \in Nat \ {0}
    BY Zenon, WireAssumption
  <1>3. PICK m \in Nat \ {0} : Dword = Align * m
    <2>1. PICK k \in Nat, t \in 0 .. Align - 1 :
            k = Dword \div Align /\ t = Dword % Align /\ Dword = Align * k + t
      BY <1>2, DwordType, DivPick, ZenonT(30)
    <2>2. t = 0
      BY Zenon, <2>1, WireAssumption
    <2>3. Dword = Align * k
      BY <2>1, <2>2, <1>2
    <2>4. k # 0
      BY <2>3, <1>2, DwordType
    <2> QED  BY Zenon, <2>1, <2>3, <2>4
  <1>4. Dword \div Align = m
    <2>1. Dword = Align * m + 0 /\ 0 \in 0 .. Align - 1
      BY <1>2, <1>3
    <2> QED  BY <2>1, <1>2, <1>3, DwordType, DivIs, Zenon
  <1>5. PICK a \in Nat, s \in 0 .. Align - 1 :
          a = v \div Align /\ s = v % Align /\ v = Align * a + s
    BY <1>1, <1>2, DivPick, Zenon
  <1>6. v = Align * a
    BY <1>5, <1>2
  <1>7. PICK q \in Nat, r \in 0 .. m - 1 : q = a \div m /\ r = a % m /\ a = m * q + r
    BY <1>3, <1>5, DivPick, Zenon
  <1>8. v = Dword * q + Align * r
    <2>1. Align * (m * q + r) = (Align * m) * q + Align * r
      <3>1. Align \in Nat
        BY Zenon, <1>2
      <3>2. m \in Nat
        BY Zenon, <1>3
      <3>3. r \in Nat
        BY <3>2
      <3> QED  BY <3>1, <3>2, <3>3, Distributes
    <2> QED  BY Zenon, <2>1, <1>3, <1>6, <1>7
  <1>9. Align * r \in 0 .. Dword - 1
    <2>1. r + 1 <= m
      BY <1>7, <1>3
    <2>2. Align * (r + 1) <= Align * m
      BY <2>1, <1>2, <1>3, <1>7
    <2>3. Align * (r + 1) = Align * r + Align
      BY <1>2, <1>7
    <2> QED  BY <2>2, <2>3, <1>2, <1>3, <1>7
  <1>10. v \div Dword = q /\ (v % Dword) = Align * r
    <2>1. PICK t \in 0 .. Dword - 1 : t = Align * r
      BY Zenon, <1>9
    <2>2. v = Dword * q + t
      BY Zenon, <1>8, <2>1
    <2>3. v \div Dword = q /\ (v % Dword) = t
      <3>1. v \in Nat
        BY Zenon, <1>1
      <3> QED  BY <3>1, <2>2, DwordType, DivIs, ZenonT(30)
    <2> QED  BY Zenon, <2>1, <2>3
  <1>11. Whole(v % Dword, (v \div Dword) % Dword) = v
    BY Zenon, Halves
  <1>12. ((v \div Align) % (Dword \div Align)) * Align = Align * r
    BY <1>2, <1>4, <1>5, <1>7
  <1> QED  BY Zenon, <1>10, <1>11, <1>12

\* A count below the modulus survives the cut.
LEMMA CountKept ==
    ASSUME NEW size \in 1 .. CountMod
    PROVE  ((size - 1) % CountMod) + 1 = size
  <1>1. CountMod \in Nat \ {0}
    BY Zenon, WireAssumption
  <1> QED  BY <1>1

\* The fields of a linear copy packet that the engine reads.
LEMMA CopyFields ==
    ASSUME NEW src \in Address, NEW dst \in Address, NEW size \in Nat \ {0}
    PROVE  LET p == CopyLinearPacket(src, dst, size)
           IN  /\ p.count = (size - 1) % CountMod
               /\ p.src_addr_31_0 = src % Dword
               /\ p.src_addr_63_32 = (src \div Dword) % Dword
               /\ p.dst_addr_31_0 = dst % Dword
               /\ p.dst_addr_63_32 = (dst \div Dword) % Dword
  BY Zenon DEF CopyLinearPacket, Fill, SDMA_PKT_COPY_LINEAR

\* A linear copy packet makes the engine copy exactly the bytes asked for, as
\* long as there are at most 2^30 of them.
THEOREM CopyMovesAll ==
    ASSUME NEW src \in Address, NEW dst \in Address, NEW size \in 1 .. CountMod
    PROVE  EngineCopy(CopyLinearPacket(src, dst, size))
             = [src |-> src, dst |-> dst, bytes |-> size]
  <1>1. size \in Nat \ {0}
    BY WireAssumption
  <1> QED  BY <1>1, CopyFields, CountKept, Halves DEF EngineCopy

\* The assertion of CopyLinearPacket lets sizes up to 2^32 pass, and
\* CreateCopyPacket those up to 2^32 - 1: from 2^30 + 1 on the count field
\* drops the upper bits and the engine copies fewer bytes.
THEOREM CopyTruncates ==
    ASSUME NEW src \in Address, NEW dst \in Address, NEW size \in Nat, size > CountMod
    PROVE  EngineCopy(CopyLinearPacket(src, dst, size)).bytes < size
  <1>1. CountMod \in Nat \ {0}
    BY Zenon, WireAssumption
  <1>2. CopyLinearPacket(src, dst, size).count = (size - 1) % CountMod
    BY <1>1, CopyFields
  <1>3. (size - 1) % CountMod \in 0 .. CountMod - 1
    BY <1>1
  <1> QED  BY <1>1, <1>2, <1>3 DEF EngineCopy

\* Those of an atomic packet.
LEMMA AtomicFields ==
    ASSUME NEW ptr \in Address, NEW delta \in Address
    PROVE  LET p == AtomicAddPacket(ptr, delta)
           IN  /\ p.addr_31_0 = ptr % Dword
               /\ p.addr_63_32 = (ptr \div Dword) % Dword
               /\ p.src_data_31_0 = delta % Dword
               /\ p.src_data_63_32 = (delta \div Dword) % Dword
  BY DEF AtomicAddPacket, Fill, SDMA_PKT_ATOMIC

\* An atomic packet adds the whole 64-bit value to the whole 64-bit address.
THEOREM AtomicAddsWhole ==
    ASSUME NEW ptr \in Address, NEW delta \in Address
    PROVE  EngineAdd(AtomicAddPacket(ptr, delta)) = [addr |-> ptr, add |-> delta]
  BY AtomicFields, Halves DEF EngineAdd

\* Those of the fused packet.
LEMMA FusedFields ==
    ASSUME NEW src \in Address, NEW dst \in Address, NEW size \in Nat \ {0},
           NEW signal \in Address \ {Nullptr}, NEW data \in Address
    PROVE  LET p == CreateCopyWaitSignalPacketMI4(src, dst, size, signal, data)
           IN  /\ p.copy_count = (size - 1) % CountMod
               /\ p.src_addr_31_0 = src % Dword
               /\ p.src_addr_63_32 = (src \div Dword) % Dword
               /\ p.dst_addr_31_0 = dst % Dword
               /\ p.dst_addr_63_32 = (dst \div Dword) % Dword
               /\ p.signal_addr_31_3 = (signal \div Align) % (Dword \div Align)
               /\ p.signal_addr_63_32 = (signal \div Dword) % Dword
               /\ p.signal_data_31_0 = data % Dword
               /\ p.signal_data_63_32 = (data \div Dword) % Dword
  BY DEF CreateCopyWaitSignalPacketMI4, Fill, SDMA_PKT_COPY_LINEAR_WAIT_SIGNAL_MI4

\* The fast path of put_signal_counter_impl: for an aligned signal and every
\* size CreateCopyWaitSignalPacketMI4 asserts, the fused packet copies and adds
\* what the copy packet and the atomic packet it stands for would.
THEOREM FusedEqualsPair ==
    ASSUME NEW src \in Address, NEW dst \in Address, NEW size \in 1 .. CountMod,
           NEW signal \in Address \ {Nullptr}, signal % Align = 0, NEW data \in Address
    PROVE  LET p == CreateCopyWaitSignalPacketMI4(src, dst, size, signal, data)
           IN  /\ EngineFusedCopy(p) = EngineCopy(CopyLinearPacket(src, dst, size))
               /\ EngineFusedAdd(p) = EngineAdd(AtomicAddPacket(signal, data))
  <1> DEFINE p == CreateCopyWaitSignalPacketMI4(src, dst, size, signal, data)
  <1>1. size \in Nat \ {0}
    BY WireAssumption
  <1>2. EngineFusedCopy(p) = [src |-> src, dst |-> dst, bytes |-> size]
    BY <1>1, FusedFields, CountKept, Halves DEF EngineFusedCopy
  <1>3. EngineFusedAdd(p) = [addr |-> signal, add |-> data]
    BY <1>1, FusedFields, AlignedHalves, Halves DEF EngineFusedAdd
  <1> QED  BY Zenon, <1>2, <1>3, CopyMovesAll, AtomicAddsWhole

\* A putTile packet describes the window asked for, for every tile and pitch
\* that is not zero: the fields hold one less than each.
THEOREM WindowExact ==
    ASSUME NEW src \in Address, NEW dst \in Address,
           NEW w \in 1 .. Dword - 1, NEW h \in 1 .. Dword - 1,
           NEW sp \in 1 .. Dword - 1, NEW dp \in 1 .. Dword - 1,
           NEW sx \in 0 .. Dword - 1, NEW sy \in 0 .. Dword - 1,
           NEW dx \in 0 .. Dword - 1, NEW dy \in 0 .. Dword - 1
    PROVE  EngineWindow(LargeSubWindowCopyPacket(src, dst, w, h, sp, dp, sx, sy, dx, dy))
             = [src |-> src, dst |-> dst, width |-> w, height |-> h,
                srcPitch |-> sp, dstPitch |-> dp, at |-> <<sx, sy, 0, dx, dy, 0>>]
  <1> DEFINE p == LargeSubWindowCopyPacket(src, dst, w, h, sp, dp, sx, sy, dx, dy)
  <1>1. \A x \in 1 .. Dword - 1 : x \in Nat /\ ((x - 1) % Dword) + 1 = x
    BY DwordType
  <1>2. \A x \in 0 .. Dword - 1 : x \in Nat /\ x % Dword = x
    BY DwordType
  <1>3. /\ p.src_base_addr_31_0 = src % Dword
        /\ p.src_base_addr_63_32 = (src \div Dword) % Dword
        /\ p.dst_data_31_0 = dst % Dword
        /\ p.src_data_63_32 = (dst \div Dword) % Dword
    BY DEF LargeSubWindowCopyPacket, Fill, SDMA_PKT_LINEAR_LARGE_SUB_WINDOW_COPY
  <1>6. /\ p.rect_x = (w - 1) % Dword /\ p.rect_y = (h - 1) % Dword
        /\ p.src_pitch = (sp - 1) % Dword /\ p.dst_pitch = (dp - 1) % Dword
    BY DEF LargeSubWindowCopyPacket, Fill, SDMA_PKT_LINEAR_LARGE_SUB_WINDOW_COPY
  <1>7. /\ p.src_x = sx % Dword /\ p.src_y = sy % Dword /\ p.src_z = 0
        /\ p.dst_x = dx % Dword /\ p.dst_y = dy % Dword /\ p.dst_z = 0
    BY DEF LargeSubWindowCopyPacket, Fill, SDMA_PKT_LINEAR_LARGE_SUB_WINDOW_COPY
  <1> HIDE DEF p
  <1>4. /\ p.rect_x + 1 = w /\ p.rect_y + 1 = h
        /\ p.src_pitch + 1 = sp /\ p.dst_pitch + 1 = dp
        /\ p.src_x = sx /\ p.src_y = sy /\ p.src_z = 0
        /\ p.dst_x = dx /\ p.dst_y = dy /\ p.dst_z = 0
    BY Zenon, <1>1, <1>2, <1>6, <1>7
  <1>5. /\ Whole(p.src_base_addr_31_0, p.src_base_addr_63_32) = src
        /\ Whole(p.dst_data_31_0, p.src_data_63_32) = dst
    BY Zenon, <1>3, Halves
  <1> QED  BY Zenon, <1>4, <1>5 DEF EngineWindow, p

\* A timestamp, a poll and a fence name the address they were given.
THEOREM AddressExact ==
    ASSUME NEW addr \in Address, NEW data \in 0 .. Dword - 1
    PROVE  /\ EngineAddress(TimestampPacket(addr)) = addr
           /\ EngineAddress(PollRegmemPacket(addr, data)) = addr
           /\ EngineAddress(CreateFencePacket(addr, data)) = addr
  <1>1. /\ TimestampPacket(addr).addr_31_0 = addr % Dword
        /\ TimestampPacket(addr).addr_63_32 = (addr \div Dword) % Dword
    BY DEF TimestampPacket, Fill, SDMA_PKT_TIMESTAMP
  <1>2. /\ PollRegmemPacket(addr, data).addr_31_0 = addr % Dword
        /\ PollRegmemPacket(addr, data).addr_63_32 = (addr \div Dword) % Dword
    BY DEF PollRegmemPacket, Fill, SDMA_PKT_POLL_REGMEM
  <1>3. /\ CreateFencePacket(addr, data).addr_31_0 = addr % Dword
        /\ CreateFencePacket(addr, data).addr_63_32 = (addr \div Dword) % Dword
    BY Zenon DEF CreateFencePacket, Fill, SDMA_PKT_FENCE
  <1> QED  BY Zenon, <1>1, <1>2, <1>3, Halves DEF EngineAddress

-----------------------------------------------------------------------------
(* Positions of a ring.                                                    *)

\* The remainder is the only one below the divisor.
LEMMA ModUnique ==
    ASSUME NEW Q \in Nat \ {0}, NEW i \in Nat, NEW c \in Nat, NEW r \in Nat,
           i = Q * c + r, r < Q
    PROVE  i % Q = r
  BY SMT

\* A larger quotient is at least one divisor more.
LEMMA MulMono ==
    ASSUME NEW Q \in Nat \ {0}, NEW a \in Nat, NEW b \in Nat, a < b
    PROVE  Q * a + Q <= Q * b
  BY SMT

\* Consecutive indices occupy consecutive slots until the end of the ring.
LEMMA ModShift ==
    ASSUME NEW Q \in Nat \ {0}, NEW i \in Nat, NEW d \in Nat, (i % Q) + d < Q
    PROVE  (i + d) % Q = (i % Q) + d
  <1>1. /\ i % Q \in Nat
        /\ i \div Q \in Nat
        /\ i = Q * (i \div Q) + (i % Q)
    BY DivMod
  <1>2. Q * (i \div Q) \in Nat
    BY <1>1
  <1>3. /\ i + d = Q * (i \div Q) + ((i % Q) + d)
        /\ (i % Q) + d \in Nat
    BY <1>1, <1>2
  <1> QED
    BY <1>1, <1>3, ModUnique

\* Padding up to the end of the ring leads to slot 0.
LEMMA ModPad ==
    ASSUME NEW Q \in Nat \ {0}, NEW i \in Nat
    PROVE  (i + (Q - (i % Q))) % Q = 0
  <1>1. /\ i % Q \in 0 .. Q - 1
        /\ i \div Q \in Nat
        /\ i = Q * (i \div Q) + (i % Q)
    BY Zenon, DivMod
  <1> DEFINE m == i + (Q - (i % Q))
             c == (i \div Q) + 1
  <1>2. m = Q * c + 0 /\ m \in Nat /\ c \in Nat
    BY <1>1
  <1> HIDE DEF m, c
  <1>3. m % Q = 0
    BY <1>2, ModUnique
  <1> QED
    BY <1>3 DEF m

\* Two different indices less than a ring apart occupy different slots.
LEMMA ModDistinct ==
    ASSUME NEW Q \in Nat \ {0}, NEW i \in Nat, NEW j \in Nat, i < j, j - i < Q
    PROVE  i % Q # j % Q
  <1> SUFFICES ASSUME i % Q = j % Q PROVE FALSE
    OBVIOUS
  <1> DEFINE c == i \div Q
             d == j \div Q
             r == i % Q
  <1>1. r \in 0 .. Q - 1 /\ c \in Nat /\ i = Q * c + r
    BY Zenon, DivMod
  <1>2. d \in Nat /\ j = Q * d + r
    BY Zenon, DivMod
  <1> HIDE DEF c, d, r
  <1>3. Q * c \in Nat /\ Q * d \in Nat
    BY <1>1, <1>2
  <1>4. Q * c < Q * d /\ Q * d < Q * c + Q
    BY <1>1, <1>2, <1>3
  <1>5. CASE c < d
    BY <1>1, <1>2, <1>3, <1>4, <1>5, MulMono
  <1>6. CASE c = d
    BY <1>3, <1>4, <1>6
  <1>7. CASE d < c
    BY <1>1, <1>2, <1>3, <1>4, <1>7, MulMono
  <1> QED
    BY <1>1, <1>2, <1>5, <1>6, <1>7

-----------------------------------------------------------------------------
(* The inductive invariant.                                                *)

\* Every index in lo..hi-1 lies in the slots of a packet that was placed for it,
\* and whole packets tile the range.
Tiles(k, r, lo, hi, i) ==
    /\ k \in Packet
    /\ lo <= k.start /\ k.start <= i
    /\ i < k.start + k.len /\ k.start + k.len <= hi
    /\ WrapIntoRing(k.start) + k.len <= QueueSize
    /\ \A j \in k.start .. k.start + k.len - 1 : r[WrapIntoRing(j)] = k

Placed(r, lo, hi) ==
    \A i \in lo .. hi - 1 : Tiles(r[WrapIntoRing(i)], r, lo, hi, i)

\* Where the shared pointers stand while a thread publishes, and otherwise.
PointerInv ==
    /\ rptr <= doorbell /\ committedWptr <= cachedWptr /\ wptr <= cachedWptr
    /\ cachedWptr < rptr + QueueSize
    /\ Publishing = {} => doorbell = committedWptr /\ wptr = committedWptr
    /\ \A p \in Publishing :
          /\ committedWptr = base[p]
          /\ wptr = (IF pc[p] = "wptr" THEN base[p] ELSE pending[p])
          /\ doorbell = (IF pc[p] = "commit" THEN pending[p] ELSE base[p])

\* What a thread knows before its CAS: its padding matches the index it loaded,
\* and "cas" is reached only with room up to the new index.
ReserveInv ==
    \A p \in Producers :
        /\ cachedHwReadIndex[p] <= rptr
        /\ pc[p] \in {"reserve", "check", "cas"} => op[p] \in Ops /\ left[p] = op[p]
        /\ pc[p] \in {"check", "cas"} =>
              offset[p] = WrapOffset(base[p], SpaceRequired(op[p]))
        /\ pc[p] = "cas" => NewIndex(p) < rptr + QueueSize

\* What a thread owns after its CAS.
RegionInv ==
    \A p \in Reserved :
        /\ committedWptr <= base[p] /\ base[p] <= pending[p]
        /\ base[p] < RegionEnd(p) /\ RegionEnd(p) <= cachedWptr
        /\ pc[p] # "place" => left[p] = {} /\ offset[p] = 0
        /\ pc[p] = "place" => left[p] \in Op \union {{"counter"}}

\* The engine's part of the ring, and what each thread has filled so far.
ContentInv ==
    /\ Placed(ring, rptr, doorbell)
    /\ \A p \in Reserved : pc[p] # "commit" => Placed(ring, base[p], pending[p])

IInv == TypeOK /\ PointerInv /\ ReserveInv /\ RegionInv /\ RegionsDisjoint
        /\ PlacedInBounds /\ ContentInv
-----------------------------------------------------------------------------
\* WrapIntoRing, restated from the ring lemmas.
LEMMA WrapType == \A i \in Nat : WrapIntoRing(i) \in Slots
  BY RingAssumption, DivMod DEF WrapIntoRing, Slots

LEMMA WrapShift ==
    ASSUME NEW i \in Nat, NEW d \in Nat, WrapIntoRing(i) + d < QueueSize
    PROVE  WrapIntoRing(i + d) = WrapIntoRing(i) + d
  BY ZenonT(60), RingAssumption, ModShift DEF WrapIntoRing

LEMMA WrapPad == \A i \in Nat : WrapIntoRing(i + (QueueSize - WrapIntoRing(i))) = 0
  BY ZenonT(60), RingAssumption, ModPad DEF WrapIntoRing

LEMMA WrapDistinct ==
    ASSUME NEW i \in Nat, NEW j \in Nat, i # j, i < j + QueueSize, j < i + QueueSize
    PROVE  WrapIntoRing(i) # WrapIntoRing(j)
  <1>1. CASE i < j
    <2>1. j - i < QueueSize
      BY RingAssumption
    <2> QED
      BY ZenonT(60), <1>1, <2>1, RingAssumption, ModDistinct DEF WrapIntoRing
  <1>2. CASE j < i
    <2>1. i - j < QueueSize
      BY RingAssumption
    <2> QED
      BY ZenonT(60), <1>2, <2>1, RingAssumption, ModDistinct DEF WrapIntoRing
  <1> QED
    BY <1>1, <1>2

\* Flags that can still be waiting to be placed.
Flags == Op \union {{"counter"}}

\* Placing the next packet takes its length off the space that is required.
LEMMA SpaceSplit ==
    ASSUME NEW f \in Flags
    PROVE  /\ NextPacket(f) \subseteq f
           /\ NextPacket(f) \subseteq {"put", "signal", "counter", "tile"}
           /\ PacketLen(NextPacket(f)) \in Nat \ {0}
           /\ SpaceRequired(f) \in Nat \ {0}
           /\ SpaceRequired(f \ NextPacket(f)) \in Nat
           /\ SpaceRequired(f) =
                 PacketLen(NextPacket(f)) + SpaceRequired(f \ NextPacket(f))
           /\ f # NextPacket(f) => f \ NextPacket(f) \in Flags
           /\ f = NextPacket(f) => f \ NextPacket(f) = {}
  <1> USE PacketAssumption DEF SpaceRequired, NextPacket, PacketLen, Fusable
  <1>1. CASE f = {"put"}
    BY SMTT(60), <1>1
  <1>2. CASE f = {"signal"}
    BY SMTT(60), <1>2
  <1>3. CASE f = {"counter"}
    BY SMTT(60), <1>3
  <1>4. CASE f = {"tile"}
    BY SMTT(60), <1>4
  <1>5. CASE f = {"put", "signal"}
    <2>1. f \ {"put"} = {"signal"} /\ f \ {"put", "signal"} = {}
      BY <1>5
    <2> QED
      BY SMTT(60), <1>5, <2>1 DEF Flags, Op
  <1>6. CASE f = {"put", "counter"}
    <2>1. f \ {"put"} = {"counter"} /\ f \ {"put", "counter"} = {}
      BY <1>6
    <2> QED
      BY SMTT(60), <1>6, <2>1 DEF Flags, Op
  <1>7. CASE f = {"signal", "counter"}
    <2>1. f \ {"signal"} = {"counter"}
      BY <1>7
    <2> QED
      BY SMTT(60), <1>7, <2>1 DEF Flags, Op
  <1>8. CASE f = {"put", "signal", "counter"}
    <2>1. /\ f \ {"put"} = {"signal", "counter"}
          /\ f \ {"put", "signal"} = {"counter"}
      BY <1>8
    <2> QED
      BY SMTT(60), <1>8, <2>1 DEF Flags, Op
  <1> QED
    BY ZenonT(60), <1>1, <1>2, <1>3, <1>4, <1>5, <1>6, <1>7, <1>8 DEF Flags, Op

LEMMA SpaceEmpty == SpaceRequired({}) = 0
  BY PacketAssumption DEF SpaceRequired, Fusable

\* A placed range survives every change of the ring outside its slots.
LEMMA PlacedFrame ==
    ASSUME NEW r1, NEW r2, NEW lo \in Nat, NEW hi \in Nat, Placed(r1, lo, hi),
           \A i \in lo .. hi - 1 : r2[WrapIntoRing(i)] = r1[WrapIntoRing(i)]
    PROVE  Placed(r2, lo, hi)
  <1> SUFFICES ASSUME NEW i \in lo .. hi - 1
               PROVE  Tiles(r2[WrapIntoRing(i)], r2, lo, hi, i)
    BY DEF Placed
  <1> DEFINE k == r1[WrapIntoRing(i)]
  <1>1. Tiles(k, r1, lo, hi, i) /\ r2[WrapIntoRing(i)] = k
    BY DEF Placed
  <1>2. k.start \in Nat /\ k.len \in Nat
    BY ZenonT(60), <1>1 DEF Tiles, Packet
  <1>3. \A j \in k.start .. k.start + k.len - 1 : j \in lo .. hi - 1
    BY SMTT(60), <1>1, <1>2 DEF Tiles
  <1> QED
    BY ZenonT(60), <1>1, <1>3 DEF Tiles

\* Adjacent placed ranges form one.
LEMMA PlacedConcat ==
    ASSUME NEW r, NEW lo \in Nat, NEW mid \in Nat, NEW hi \in Nat, lo <= mid, mid <= hi,
           Placed(r, lo, mid), Placed(r, mid, hi)
    PROVE  Placed(r, lo, hi)
  <1> SUFFICES ASSUME NEW i \in lo .. hi - 1
               PROVE  Tiles(r[WrapIntoRing(i)], r, lo, hi, i)
    BY DEF Placed
  <1> DEFINE k == r[WrapIntoRing(i)]
  <1>1. CASE i < mid
    <2>1. Tiles(k, r, lo, mid, i)
      BY <1>1 DEF Placed
    <2>2. k.start \in Nat /\ k.len \in Nat
      BY ZenonT(60), <2>1 DEF Tiles, Packet
    <2> QED
      BY SMTT(60), <2>1, <2>2 DEF Tiles
  <1>2. CASE mid <= i
    <2>1. Tiles(k, r, mid, hi, i)
      BY <1>2 DEF Placed
    <2>2. k.start \in Nat /\ k.len \in Nat
      BY ZenonT(60), <2>1 DEF Tiles, Packet
    <2> QED
      BY SMTT(60), <2>1, <2>2 DEF Tiles
  <1> QED
    BY <1>1, <1>2

\* The packet at the start of a placed range can be taken off.
LEMMA PlacedHead ==
    ASSUME NEW r, NEW lo \in Nat, NEW hi \in Nat, lo < hi, Placed(r, lo, hi)
    PROVE  LET k == r[WrapIntoRing(lo)] IN
               /\ k \in Packet
               /\ k.start = lo /\ k.len \in Nat \ {0} /\ lo + k.len <= hi
               /\ WrapIntoRing(lo) + k.len <= QueueSize
               /\ \A j \in lo .. lo + k.len - 1 : r[WrapIntoRing(j)] = k
               /\ Placed(r, lo + k.len, hi)
  <1> DEFINE k == r[WrapIntoRing(lo)]
  <1>1. Tiles(k, r, lo, hi, lo)
    BY DEF Placed
  <1>2. k.start \in Nat /\ k.len \in Nat
    BY ZenonT(60), <1>1 DEF Tiles, Packet
  <1>3. k.start = lo /\ k.len # 0 /\ lo + k.len <= hi
    BY SMTT(60), <1>1, <1>2 DEF Tiles
  <1>4. ASSUME NEW i \in lo + k.len .. hi - 1
        PROVE  Tiles(r[WrapIntoRing(i)], r, lo + k.len, hi, i)
    <2> DEFINE m == r[WrapIntoRing(i)]
    <2>1. i \in lo .. hi - 1
      BY SMTT(60), <1>2
    <2>2. Tiles(m, r, lo, hi, i)
      BY <2>1 DEF Placed
    <2>3. m.start \in Nat /\ m.len \in Nat
      BY ZenonT(60), <2>2 DEF Tiles, Packet
    <2>4. ASSUME m.start < lo + k.len PROVE FALSE
      <3>1. r[WrapIntoRing(m.start)] = m
        BY SMTT(60), <2>2, <2>3 DEF Tiles
      <3>2. r[WrapIntoRing(m.start)] = k
        BY SMTT(60), <1>1, <1>2, <1>3, <2>2, <2>3, <2>4 DEF Tiles
      <3> QED
        BY SMTT(60), <3>1, <3>2, <1>2, <1>3, <2>2, <2>3 DEF Tiles
    <2> QED
      BY SMTT(60), <2>2, <2>3, <2>4, <1>2 DEF Tiles
  <1> QED
    BY ZenonT(60), <1>1, <1>2, <1>3, <1>4 DEF Tiles, Placed

\* An empty range is placed.
LEMMA PlacedEmpty == ASSUME NEW r, NEW lo \in Nat PROVE Placed(r, lo, lo)
  BY DEF Placed

\* One packet in its own slots is a placed range.
LEMMA PlacedOne ==
    ASSUME NEW r, NEW k \in Packet, WrapIntoRing(k.start) + k.len <= QueueSize,
           \A j \in k.start .. k.start + k.len - 1 : r[WrapIntoRing(j)] = k
    PROVE  Placed(r, k.start, k.start + k.len)
  <1>1. k.start \in Nat /\ k.len \in Nat
    BY ZenonT(60) DEF Packet
  <1> QED
    BY SMTT(60), <1>1 DEF Placed, Tiles
-----------------------------------------------------------------------------
\* The inductive invariant holds initially.
LEMMA InitIInv == Init => IInv
  <1> SUFFICES ASSUME Init PROVE IInv
    OBVIOUS
  <1>1. TypeOK
    BY SMTT(60), RingAssumption DEF Init, TypeOK, PC, Slots
  <1>2. Reserved = {} /\ Publishing = {}
    BY DEF Init, Reserved, Publishing
  <1>3. PointerInv
    BY SMTT(60), <1>2, RingAssumption DEF Init, PointerInv
  <1>4. ReserveInv
    BY DEF Init, ReserveInv
  <1>5. RegionInv /\ RegionsDisjoint
    BY ZenonT(60), <1>2 DEF RegionInv, RegionsDisjoint
  <1>6. PlacedInBounds
    BY ZenonT(60) DEF Init, PlacedInBounds
  <1>7. ContentInv
    BY <1>2, PlacedEmpty DEF Init, ContentInv
  <1> QED
    BY <1>1, <1>3, <1>4, <1>5, <1>6, <1>7 DEF IInv

\* What the owners hold is untouched by a step of a thread that owns nothing.
Untouched(q) ==
    /\ pc'[q] = pc[q] /\ base'[q] = base[q] /\ offset'[q] = offset[q]
    /\ pending'[q] = pending[q] /\ left'[q] = left[q]

LEMMA OwnerFrame ==
    ASSUME IInv, Reserved' = Reserved, \A q \in Reserved : Untouched(q),
           UNCHANGED <<cachedWptr, committedWptr, doorbell, rptr, ring>>
    PROVE  RegionInv' /\ RegionsDisjoint' /\ PlacedInBounds' /\ ContentInv'
  <1>1. \A q \in Reserved : RegionEnd(q)' = RegionEnd(q)
    BY ZenonT(60) DEF Untouched, RegionEnd
  <1>2. RegionInv'
    BY ZenonT(60), <1>1 DEF IInv, RegionInv, Untouched
  <1>3. RegionsDisjoint'
    <2> SUFFICES ASSUME NEW a \in Reserved, NEW b \in Reserved, a # b
                 PROVE  RegionEnd(a)' <= base'[b] \/ RegionEnd(b)' <= base'[a]
      BY DEF RegionsDisjoint
    <2>1. RegionEnd(a) <= base[b] \/ RegionEnd(b) <= base[a]
      BY DEF IInv, RegionsDisjoint
    <2> QED
      BY ZenonT(60), <1>1, <2>1 DEF Untouched
  <1>4. PlacedInBounds'
    BY ZenonT(60) DEF IInv, PlacedInBounds, Untouched, Reserved
  <1>5. ContentInv'
    BY ZenonT(60) DEF IInv, ContentInv, Untouched
  <1> QED
    BY <1>2, <1>3, <1>4, <1>5

\* SdmaQueueState::init caches the real read index.
LEMMA InitStateStep ==
    ASSUME IInv, NEW p \in Producers, InitState(p)
    PROVE  IInv'
  <1> USE DEF IInv
  <1>1. TypeOK'
    BY ZenonT(60) DEF InitState, TypeOK
  <1>2. Reserved' = Reserved /\ Publishing' = Publishing
    BY DEF InitState, Reserved, Publishing
  <1>3. PointerInv'
    BY ZenonT(60), <1>2 DEF InitState, PointerInv
  <1>4. ReserveInv'
    BY SMTT(60) DEF InitState, TypeOK, ReserveInv, NewIndex
  <1>5. \A q \in Reserved : Untouched(q)
    BY ZenonT(60) DEF InitState, Untouched
  <1>6. RegionInv' /\ RegionsDisjoint' /\ PlacedInBounds' /\ ContentInv'
    BY ZenonT(60), <1>2, <1>5, OwnerFrame DEF InitState
  <1> QED
    BY <1>1, <1>3, <1>4, <1>6

\* Starting an operation touches no shared state.
LEMMA BeginStep ==
    ASSUME IInv, NEW p \in Producers, NEW o \in Ops, Begin(p, o)
    PROVE  IInv'
  <1> USE DEF IInv
  <1>1. TypeOK'
    BY ZenonT(60), RingAssumption DEF Begin, TypeOK, PC, Op
  <1>2. Reserved' = Reserved /\ Publishing' = Publishing
    BY ZenonT(60) DEF Begin, TypeOK, Reserved, Publishing
  <1>3. PointerInv'
    BY ZenonT(60), <1>2 DEF Begin, TypeOK, PointerInv, Publishing
  <1>4. ReserveInv'
    BY ZenonT(60) DEF Begin, TypeOK, ReserveInv, NewIndex
  <1>5. \A q \in Reserved : Untouched(q)
    BY ZenonT(60) DEF Begin, TypeOK, Reserved, Untouched
  <1>6. RegionInv' /\ RegionsDisjoint' /\ PlacedInBounds' /\ ContentInv'
    BY ZenonT(60), <1>2, <1>5, OwnerFrame DEF Begin
  <1> QED
    BY <1>1, <1>3, <1>4, <1>6

\* Loading cachedWptr computes the padding that belongs to it.
LEMMA ReserveLoadStep ==
    ASSUME IInv, NEW p \in Producers, ReserveLoad(p)
    PROVE  IInv'
  <1> USE DEF IInv
  <1>1. TypeOK'
    <2>1. WrapIntoRing(cachedWptr) \in 0 .. QueueSize - 1
      BY ZenonT(60), WrapType DEF TypeOK, Slots
    <2>2. WrapOffset(cachedWptr, SpaceRequired(op[p])) \in Nat
      BY <2>1, RingAssumption DEF WrapOffset
    <2> QED
      BY ZenonT(60), <2>2 DEF ReserveLoad, TypeOK, PC
  <1>2. Reserved' = Reserved /\ Publishing' = Publishing
    BY ZenonT(60) DEF ReserveLoad, TypeOK, Reserved, Publishing
  <1>3. PointerInv'
    BY ZenonT(60), <1>2 DEF ReserveLoad, TypeOK, PointerInv, Publishing
  <1>4. ReserveInv'
    BY ZenonT(60) DEF ReserveLoad, TypeOK, ReserveInv, NewIndex
  <1>5. \A q \in Reserved : Untouched(q)
    BY ZenonT(60) DEF ReserveLoad, TypeOK, Reserved, Untouched
  <1>6. RegionInv' /\ RegionsDisjoint' /\ PlacedInBounds' /\ ContentInv'
    BY ZenonT(60), <1>2, <1>5, OwnerFrame DEF ReserveLoad
  <1> QED
    BY <1>1, <1>3, <1>4, <1>6

\* A fast-path decision rests on a read index that is at most the real one.
LEMMA CanWriteCachedStep ==
    ASSUME IInv, NEW p \in Producers, CanWriteCached(p)
    PROVE  IInv'
  <1> USE DEF IInv
  <1>1. TypeOK'
    BY ZenonT(60) DEF CanWriteCached, TypeOK, PC
  <1>2. Reserved' = Reserved /\ Publishing' = Publishing
    BY ZenonT(60) DEF CanWriteCached, TypeOK, Reserved, Publishing
  <1>3. PointerInv'
    BY ZenonT(60), <1>2 DEF CanWriteCached, TypeOK, PointerInv, Publishing
  <1>4. op[p] \in Ops /\ SpaceRequired(op[p]) \in Nat
    BY ZenonT(60), SpaceSplit, RingAssumption DEF CanWriteCached, ReserveInv, Flags
  <1>5. NewIndex(p) \in Nat
    BY SMTT(60), <1>4 DEF NewIndex, TypeOK
  <1>6. NewIndex(p) < rptr + QueueSize
    BY SMTT(60), <1>5, RingAssumption DEF CanWriteCached, ReserveInv, HasSpace, TypeOK
  <1>7. ReserveInv'
    BY ZenonT(60), <1>6 DEF CanWriteCached, TypeOK, ReserveInv, NewIndex
  <1>8. \A q \in Reserved : Untouched(q)
    BY ZenonT(60) DEF CanWriteCached, TypeOK, Reserved, Untouched
  <1>9. RegionInv' /\ RegionsDisjoint' /\ PlacedInBounds' /\ ContentInv'
    BY ZenonT(60), <1>2, <1>8, OwnerFrame DEF CanWriteCached
  <1> QED
    BY <1>1, <1>3, <1>7, <1>9

\* A slow-path decision rests on the real read index, which only grows.
LEMMA CanWriteUptoStep ==
    ASSUME IInv, NEW p \in Producers, CanWriteUpto(p)
    PROVE  IInv'
  <1> USE DEF IInv
  <1>1. TypeOK'
    BY ZenonT(60) DEF CanWriteUpto, TypeOK, PC
  <1>2. Reserved' = Reserved /\ Publishing' = Publishing
    BY ZenonT(60) DEF CanWriteUpto, TypeOK, Reserved, Publishing
  <1>3. PointerInv'
    BY ZenonT(60), <1>2 DEF CanWriteUpto, TypeOK, PointerInv, Publishing
  <1>4. op[p] \in Ops /\ SpaceRequired(op[p]) \in Nat
    BY ZenonT(60), SpaceSplit, RingAssumption DEF CanWriteUpto, ReserveInv, Flags
  <1>5. NewIndex(p) \in Nat
    BY <1>4 DEF NewIndex, TypeOK
  <1>6. HasSpace(NewIndex(p), rptr) => NewIndex(p) < rptr + QueueSize
    BY SMTT(60), <1>5, RingAssumption DEF HasSpace, TypeOK
  <1>7. ReserveInv'
    BY SMTT(60), <1>6 DEF CanWriteUpto, TypeOK, ReserveInv, NewIndex
  <1>8. \A q \in Reserved : Untouched(q)
    BY ZenonT(60) DEF CanWriteUpto, TypeOK, Reserved, Untouched
  <1>9. RegionInv' /\ RegionsDisjoint' /\ PlacedInBounds' /\ ContentInv'
    BY ZenonT(60), <1>2, <1>8, OwnerFrame DEF CanWriteUpto
  <1> QED
    BY <1>1, <1>3, <1>7, <1>9

\* quietAll and its return change no shared state.
LEMMA QuietStep ==
    ASSUME IInv, NEW p \in Producers, QuietAll(p) \/ QuietReturn(p)
    PROVE  IInv'
  <1> USE DEF IInv
  <1>1. TypeOK'
    <2>1. CASE QuietAll(p)
      BY ZenonT(60), <2>1 DEF QuietAll, TypeOK, PC
    <2>2. CASE QuietReturn(p)
      BY ZenonT(60), <2>2 DEF QuietReturn, TypeOK, PC
    <2> QED
      BY <2>1, <2>2
  <1>2. Reserved' = Reserved /\ Publishing' = Publishing
    BY ZenonT(60) DEF QuietAll, QuietReturn, TypeOK, Reserved, Publishing
  <1>3. PointerInv'
    BY ZenonT(60), <1>2 DEF QuietAll, QuietReturn, TypeOK, PointerInv, Publishing
  <1>4. ReserveInv'
    <2>1. CASE QuietAll(p)
      BY ZenonT(60), <2>1 DEF QuietAll, TypeOK, ReserveInv, NewIndex
    <2>2. CASE QuietReturn(p)
      BY ZenonT(60), <2>2 DEF QuietReturn, TypeOK, ReserveInv, NewIndex
    <2> QED
      BY <2>1, <2>2
  <1>5. \A q \in Reserved : Untouched(q)
    BY ZenonT(60) DEF QuietAll, QuietReturn, TypeOK, Reserved, Untouched
  <1>6. RegionInv' /\ RegionsDisjoint' /\ PlacedInBounds' /\ ContentInv'
    BY ZenonT(60), <1>2, <1>5, OwnerFrame DEF QuietAll, QuietReturn
  <1> QED
    BY <1>1, <1>3, <1>4, <1>6

\* A reserved region has natural bounds.
LEMMA RegionType ==
    ASSUME IInv, NEW p \in Reserved
    PROVE  /\ p \in Producers
           /\ base[p] \in Nat /\ pending[p] \in Nat /\ RegionEnd(p) \in Nat
           /\ pending[p] <= RegionEnd(p)
           /\ pc[p] # "place" => RegionEnd(p) = pending[p]
  <1>1. p \in Producers /\ base[p] \in Nat /\ pending[p] \in Nat /\ offset[p] \in Nat
    BY ZenonT(60) DEF IInv, TypeOK, Reserved
  <1>2. CASE pc[p] = "place"
    <2>1. SpaceRequired(left[p]) \in Nat
      BY ZenonT(60), <1>2, SpaceSplit DEF IInv, RegionInv, Flags
    <2> QED
      BY SMTT(60), <1>1, <1>2, <2>1 DEF RegionEnd
  <1>3. CASE pc[p] # "place"
    <2>1. left[p] = {} /\ offset[p] = 0
      BY ZenonT(60), <1>3 DEF IInv, RegionInv
    <2> QED
      BY SMTT(60), <1>1, <2>1, SpaceEmpty DEF RegionEnd
  <1> QED
    BY ZenonT(60), <1>1, <1>2, <1>3

\* At most one thread is inside the publishing section.
LEMMA PublishUnique ==
    ASSUME IInv, NEW p \in Publishing, NEW q \in Publishing
    PROVE  p = q
  <1> SUFFICES ASSUME p # q PROVE FALSE
    OBVIOUS
  <1>1. p \in Reserved /\ q \in Reserved
    BY DEF Publishing, Reserved
  <1>2. base[p] = base[q]
    BY ZenonT(60) DEF IInv, PointerInv
  <1>3. RegionEnd(p) <= base[q] \/ RegionEnd(q) <= base[p]
    BY <1>1 DEF IInv, RegionsDisjoint
  <1>4. base[p] < RegionEnd(p) /\ base[q] < RegionEnd(q)
    BY ZenonT(60), <1>1 DEF IInv, RegionInv
  <1> QED
    BY SMTT(60), <1>1, <1>2, <1>3, <1>4, RegionType

\* The engine's part of the ring lies below every region still being filled.
LEMMA DoorbellBelow ==
    ASSUME IInv
    PROVE  /\ committedWptr <= doorbell /\ doorbell <= cachedWptr
           /\ \A q \in Reserved : pc[q] # "commit" => doorbell <= base[q]
  <1>0. committedWptr \in Nat /\ doorbell \in Nat /\ cachedWptr \in Nat
    BY ZenonT(60) DEF IInv, TypeOK
  <1>1. CASE Publishing = {}
    BY SMTT(60), <1>0, <1>1 DEF IInv, PointerInv, RegionInv
  <1>2. ASSUME NEW p \in Publishing
        PROVE  /\ committedWptr <= doorbell /\ doorbell <= cachedWptr
               /\ \A q \in Reserved : pc[q] # "commit" => doorbell <= base[q]
    <2>1. p \in Reserved /\ committedWptr = base[p]
      BY ZenonT(60) DEF Publishing, Reserved, IInv, PointerInv
    <2>2. CASE pc[p] # "commit"
      <3>1. doorbell = committedWptr
        BY ZenonT(60), <2>1, <2>2, <1>2 DEF IInv, PointerInv
      <3> QED
        BY SMTT(60), <3>1, <1>0 DEF IInv, PointerInv, RegionInv
    <2>3. CASE pc[p] = "commit"
      <3>1. doorbell = RegionEnd(p) /\ RegionEnd(p) <= cachedWptr /\ base[p] < RegionEnd(p)
        BY ZenonT(60), <2>1, <2>3, <1>2, RegionType DEF IInv, PointerInv, RegionInv
      <3>2. ASSUME NEW q \in Reserved, pc[q] # "commit"
            PROVE  doorbell <= base[q]
        <4>1. q # p
          BY <2>3, <3>2
        <4>2. RegionEnd(p) <= base[q] \/ RegionEnd(q) <= base[p]
          BY ZenonT(60), <4>1, <2>1, <3>2 DEF IInv, RegionsDisjoint
        <4>3. committedWptr <= base[q] /\ base[q] < RegionEnd(q)
          BY ZenonT(60), <3>2 DEF IInv, RegionInv
        <4> QED
          BY SMTT(60), <4>2, <4>3, <3>1, <2>1, <3>2, RegionType, <1>0
      <3> QED
        BY SMTT(60), <3>1, <3>2, <2>1, <1>0, RegionType
    <2> QED
      BY ZenonT(60), <2>2, <2>3
  <1> QED
    BY ZenonT(60), <1>1, <1>2

\* Leaving the committedWptr spin: nobody else is publishing.
LEMMA SubmitWaitStep ==
    ASSUME IInv, NEW p \in Producers, SubmitWait(p)
    PROVE  IInv'
  <1>1. TypeOK'
    BY ZenonT(60) DEF IInv, SubmitWait, TypeOK, PC
  <1>2. p \in Reserved /\ p \notin Publishing
    BY ZenonT(60) DEF SubmitWait, Reserved, Publishing
  <1>3. Publishing = {}
    <2> SUFFICES ASSUME NEW q \in Publishing PROVE FALSE
      OBVIOUS
    <2>1. q \in Reserved /\ q # p /\ base[q] = base[p]
      BY ZenonT(60), <1>2 DEF Publishing, Reserved, IInv, PointerInv, SubmitWait, Turn
    <2>2. RegionEnd(p) <= base[q] \/ RegionEnd(q) <= base[p]
      BY <1>2, <2>1 DEF IInv, RegionsDisjoint
    <2>3. base[p] < RegionEnd(p) /\ base[q] < RegionEnd(q)
      BY ZenonT(60), <1>2, <2>1 DEF IInv, RegionInv
    <2> QED
      BY SMTT(60), <1>2, <2>1, <2>2, <2>3, RegionType
  <1>4. Reserved' = Reserved /\ Publishing' = {p}
    BY ZenonT(60), <1>3 DEF SubmitWait, IInv, TypeOK, Reserved, Publishing
  <1>5. PointerInv'
    BY ZenonT(60), <1>3, <1>4 DEF SubmitWait, Turn, IInv, TypeOK, PointerInv
  <1>6. ReserveInv'
    BY ZenonT(60) DEF SubmitWait, IInv, TypeOK, ReserveInv, NewIndex
  <1>7. \A q \in Producers : RegionEnd(q)' = RegionEnd(q)
    BY ZenonT(60) DEF SubmitWait, RegionEnd
  <1>8. RegionInv'
    BY ZenonT(60), <1>4, <1>7 DEF SubmitWait, IInv, TypeOK, RegionInv, Reserved
  <1>9. RegionsDisjoint'
    BY ZenonT(60), <1>4, <1>7 DEF SubmitWait, IInv, RegionsDisjoint, Reserved
  <1>10. PlacedInBounds'
    BY ZenonT(60) DEF SubmitWait, IInv, TypeOK, PlacedInBounds
  <1>11. ContentInv'
    BY ZenonT(60), <1>4 DEF SubmitWait, IInv, TypeOK, ContentInv, Reserved
  <1> QED
    BY <1>1, <1>5, <1>6, <1>8, <1>9, <1>10, <1>11 DEF IInv

\* The store to wptr moves it to the end of the publisher's region.
LEMMA StoreWptrStep ==
    ASSUME IInv, NEW p \in Producers, StoreWptr(p)
    PROVE  IInv'
  <1>1. TypeOK'
    BY ZenonT(60) DEF IInv, StoreWptr, TypeOK, PC
  <1>2. p \in Reserved /\ p \in Publishing
    BY ZenonT(60) DEF StoreWptr, Reserved, Publishing
  <1>3. Publishing = {p}
    BY <1>2, PublishUnique
  <1>4. Reserved' = Reserved /\ Publishing' = {p}
    BY ZenonT(60), <1>3 DEF StoreWptr, IInv, TypeOK, Reserved, Publishing
  <1>5. pending[p] <= cachedWptr
    BY ZenonT(60), <1>2, RegionType DEF StoreWptr, IInv, RegionInv
  <1>6. PointerInv'
    BY ZenonT(60), <1>3, <1>4, <1>5 DEF StoreWptr, IInv, TypeOK, PointerInv
  <1>7. ReserveInv'
    BY ZenonT(60) DEF StoreWptr, IInv, TypeOK, ReserveInv, NewIndex
  <1>8. \A q \in Producers : RegionEnd(q)' = RegionEnd(q)
    BY ZenonT(60) DEF StoreWptr, RegionEnd
  <1>9. RegionInv'
    BY ZenonT(60), <1>4, <1>8 DEF StoreWptr, IInv, TypeOK, RegionInv, Reserved
  <1>10. RegionsDisjoint'
    BY ZenonT(60), <1>4, <1>8 DEF StoreWptr, IInv, RegionsDisjoint, Reserved
  <1>11. PlacedInBounds'
    BY ZenonT(60) DEF StoreWptr, IInv, TypeOK, PlacedInBounds
  <1>12. ContentInv'
    BY ZenonT(60), <1>4 DEF StoreWptr, IInv, TypeOK, ContentInv, Reserved
  <1> QED
    BY <1>1, <1>6, <1>7, <1>9, <1>10, <1>11, <1>12 DEF IInv

\* The doorbell hands the publisher's region to the engine: it continues the
\* engine's part of the ring.
LEMMA RingDoorbellStep ==
    ASSUME IInv, NEW p \in Producers, RingDoorbell(p)
    PROVE  IInv'
  <1>1. TypeOK'
    BY ZenonT(60) DEF IInv, RingDoorbell, TypeOK, PC
  <1>2. p \in Reserved /\ p \in Publishing
    BY ZenonT(60) DEF RingDoorbell, Reserved, Publishing
  <1>3. Publishing = {p}
    BY <1>2, PublishUnique
  <1>4. Reserved' = Reserved /\ Publishing' = {p}
    BY ZenonT(60), <1>3 DEF RingDoorbell, IInv, TypeOK, Reserved, Publishing
  <1>5. doorbell = base[p] /\ rptr <= doorbell /\ base[p] <= pending[p]
    BY ZenonT(60), <1>2 DEF RingDoorbell, IInv, PointerInv, RegionInv
  <1>6. PointerInv'
    BY SMTT(60), <1>3, <1>4, <1>5 DEF RingDoorbell, IInv, TypeOK, PointerInv
  <1>7. ReserveInv'
    BY ZenonT(60) DEF RingDoorbell, IInv, TypeOK, ReserveInv, NewIndex
  <1>8. \A q \in Producers : RegionEnd(q)' = RegionEnd(q)
    BY ZenonT(60) DEF RingDoorbell, RegionEnd
  <1>9. RegionInv'
    BY ZenonT(60), <1>4, <1>8 DEF RingDoorbell, IInv, TypeOK, RegionInv, Reserved
  <1>10. RegionsDisjoint'
    BY ZenonT(60), <1>4, <1>8 DEF RingDoorbell, IInv, RegionsDisjoint, Reserved
  <1>11. PlacedInBounds'
    BY ZenonT(60) DEF RingDoorbell, IInv, TypeOK, PlacedInBounds
  <1>12. Placed(ring, rptr, pending[p])
    <2>1. Placed(ring, rptr, base[p]) /\ Placed(ring, base[p], pending[p])
      BY ZenonT(60), <1>2, <1>5 DEF RingDoorbell, IInv, ContentInv
    <2> QED
      BY ZenonT(60), <2>1, <1>5, PlacedConcat DEF IInv, TypeOK
  <1>13. ContentInv'
    BY ZenonT(60), <1>4, <1>12 DEF RingDoorbell, IInv, TypeOK, ContentInv, Reserved
  <1> QED
    BY <1>1, <1>6, <1>7, <1>9, <1>10, <1>11, <1>13 DEF IInv

\* The store to committedWptr releases the thread's region and admits the next.
LEMMA StoreCommittedStep ==
    ASSUME IInv, NEW p \in Producers, StoreCommitted(p)
    PROVE  IInv'
  <1>1. TypeOK'
    BY SMTT(60) DEF IInv, StoreCommitted, TypeOK, PC
  <1>2. p \in Reserved /\ p \in Publishing
    BY ZenonT(60) DEF StoreCommitted, Reserved, Publishing
  <1>3. Publishing = {p}
    BY <1>2, PublishUnique
  <1>4. Reserved' = Reserved \ {p} /\ Publishing' = {}
    BY ZenonT(60), <1>3 DEF StoreCommitted, IInv, TypeOK, Reserved, Publishing
  <1>5. /\ committedWptr = base[p] /\ wptr = pending[p] /\ doorbell = pending[p]
        /\ RegionEnd(p) = pending[p] /\ pending[p] <= cachedWptr
    BY ZenonT(60), <1>2, RegionType DEF StoreCommitted, IInv, PointerInv, RegionInv
  <1>6. PointerInv'
    BY ZenonT(60), <1>4, <1>5 DEF StoreCommitted, IInv, TypeOK, PointerInv
  <1>7. ReserveInv'
    BY ZenonT(60) DEF StoreCommitted, IInv, TypeOK, ReserveInv, NewIndex
  <1>8. \A q \in Reserved' : RegionEnd(q)' = RegionEnd(q)
    BY ZenonT(60), <1>4 DEF StoreCommitted, IInv, TypeOK, RegionEnd, Reserved
  <1>9. ASSUME NEW q \in Reserved' PROVE pending[p] <= base[q]
    <2>1. q \in Reserved /\ q # p
      BY <1>4
    <2>2. RegionEnd(p) <= base[q] \/ RegionEnd(q) <= base[p]
      BY ZenonT(60), <1>2, <2>1 DEF IInv, RegionsDisjoint
    <2>3. committedWptr <= base[q] /\ base[q] < RegionEnd(q)
      BY ZenonT(60), <2>1 DEF IInv, RegionInv
    <2> QED
      BY SMTT(60), <2>1, <2>2, <2>3, <1>2, <1>5, RegionType
  <1>10. RegionInv'
    BY ZenonT(60), <1>4, <1>8, <1>9 DEF StoreCommitted, IInv, TypeOK, RegionInv, Reserved
  <1>11. RegionsDisjoint'
    <2> SUFFICES ASSUME NEW a \in Reserved', NEW b \in Reserved', a # b
                 PROVE  RegionEnd(a)' <= base'[b] \/ RegionEnd(b)' <= base'[a]
      BY ZenonT(60) DEF RegionsDisjoint
    <2>1. base'[a] = base[a] /\ base'[b] = base[b]
      BY ZenonT(60), <1>4 DEF StoreCommitted, IInv, TypeOK, Reserved
    <2> QED
      BY ZenonT(60), <1>4, <1>8, <2>1 DEF IInv, RegionsDisjoint
  <1>12. PlacedInBounds'
    BY ZenonT(60) DEF StoreCommitted, IInv, TypeOK, PlacedInBounds
  <1>13. ContentInv'
    BY ZenonT(60), <1>4 DEF StoreCommitted, IInv, TypeOK, ContentInv, Reserved
  <1> QED
    BY <1>1, <1>6, <1>7, <1>10, <1>11, <1>12, <1>13 DEF IInv

\* What winning the CAS gives a thread: a region behind all others, that fits
\* the ring without wrapping.
LEMMA CasFacts ==
    ASSUME IInv, NEW p \in Producers, pc[p] = "cas", cachedWptr = base[p]
    PROVE  /\ op[p] \in Op /\ left[p] = op[p]
           /\ SpaceRequired(op[p]) \in Nat \ {0}
           /\ base[p] < NewIndex(p) /\ NewIndex(p) < rptr + QueueSize
           /\ NewIndex(p) \in Nat
           /\ WrapIntoRing(base[p]) + offset[p] <= QueueSize
           /\ WrapIntoRing(base[p] + offset[p]) + SpaceRequired(op[p]) <= QueueSize
  <1>1. /\ op[p] \in Ops /\ left[p] = op[p] /\ NewIndex(p) < rptr + QueueSize
        /\ offset[p] = WrapOffset(base[p], SpaceRequired(op[p]))
    BY ZenonT(60) DEF IInv, ReserveInv
  <1>2. SpaceRequired(op[p]) \in Nat \ {0}
    BY ZenonT(60), <1>1, SpaceSplit, RingAssumption DEF Flags
  <1>3. base[p] \in Nat /\ offset[p] \in Nat
    BY ZenonT(60) DEF IInv, TypeOK
  <1>4. WrapIntoRing(base[p]) \in 0 .. QueueSize - 1
    BY ZenonT(60), <1>3, WrapType DEF Slots
  <1>5. SpaceRequired(op[p]) <= QueueSize
    <2>1. 2 * SpaceRequired(op[p]) <= QueueSize
      BY ZenonT(60), <1>1, BatchFits
    <2> QED
      BY SMTT(60), <2>1, <1>2, RingAssumption
  <1>6. CASE WrapIntoRing(base[p]) + SpaceRequired(op[p]) > QueueSize
    <2>1. offset[p] = QueueSize - WrapIntoRing(base[p])
      BY ZenonT(60), <1>1, <1>6 DEF WrapOffset
    <2>2. WrapIntoRing(base[p] + offset[p]) = 0
      BY ZenonT(60), <2>1, <1>3, WrapPad
    <2>3. WrapIntoRing(base[p]) + offset[p] <= QueueSize
      BY SMTT(60), <2>1, <1>4, RingAssumption
    <2>4. WrapIntoRing(base[p] + offset[p]) + SpaceRequired(op[p]) <= QueueSize
      BY SMTT(60), <2>2, <1>2, <1>5, RingAssumption
    <2>5. base[p] < NewIndex(p) /\ NewIndex(p) \in Nat
      BY SMTT(60), <1>2, <1>3 DEF NewIndex
    <2> QED
      BY ZenonT(60), <1>1, <1>2, <2>3, <2>4, <2>5, RingAssumption
  <1>7. CASE ~(WrapIntoRing(base[p]) + SpaceRequired(op[p]) > QueueSize)
    <2>1. offset[p] = 0
      BY ZenonT(60), <1>1, <1>7 DEF WrapOffset
    <2>2. base[p] + offset[p] = base[p]
      BY SMTT(60), <2>1, <1>3
    <2> QED
      BY SMTT(60), <1>1, <1>2, <1>3, <1>4, <1>7, <2>1, <2>2, RingAssumption DEF NewIndex
  <1> QED
    BY ZenonT(60), <1>6, <1>7

\* A lost CAS starts over; a won one appends a region.
LEMMA ReserveCasStep ==
    ASSUME IInv, NEW p \in Producers, ReserveCas(p)
    PROVE  IInv'
  <1>1. CASE cachedWptr # base[p]
    <2>1. TypeOK'
      BY ZenonT(60), <1>1 DEF IInv, ReserveCas, CasSucceeds, TypeOK, PC
    <2>2. Reserved' = Reserved /\ Publishing' = Publishing
      BY ZenonT(60), <1>1 DEF IInv, ReserveCas, CasSucceeds, TypeOK, Reserved, Publishing
    <2>3. PointerInv'
      BY ZenonT(60), <1>1, <2>2
         DEF IInv, ReserveCas, CasSucceeds, TypeOK, PointerInv, Publishing
    <2>4. ReserveInv'
      BY ZenonT(60), <1>1 DEF IInv, ReserveCas, CasSucceeds, TypeOK, ReserveInv, NewIndex
    <2>5. \A q \in Reserved : Untouched(q)
      BY ZenonT(60), <1>1 DEF IInv, ReserveCas, CasSucceeds, TypeOK, Reserved, Untouched
    <2>6. RegionInv' /\ RegionsDisjoint' /\ PlacedInBounds' /\ ContentInv'
      BY ZenonT(60), <1>1, <2>2, <2>5, OwnerFrame DEF ReserveCas, CasSucceeds
    <2> QED
      BY <2>1, <2>3, <2>4, <2>6 DEF IInv
  <1>2. CASE cachedWptr = base[p]
    <2>1. /\ op[p] \in Op /\ left[p] = op[p]
          /\ SpaceRequired(op[p]) \in Nat \ {0}
          /\ base[p] < NewIndex(p) /\ NewIndex(p) < rptr + QueueSize
          /\ NewIndex(p) \in Nat
          /\ WrapIntoRing(base[p]) + offset[p] <= QueueSize
          /\ WrapIntoRing(base[p] + offset[p]) + SpaceRequired(op[p]) <= QueueSize
      BY ZenonT(60), <1>2, CasFacts DEF ReserveCas, CasSucceeds
    <2>2. /\ cachedWptr' = NewIndex(p)
          /\ pending' = [pending EXCEPT ![p] = base[p]]
          /\ pc' = [pc EXCEPT ![p] = "place"]
          /\ pc[p] = "cas"
          /\ UNCHANGED <<committedWptr, wptr, doorbell, rptr, ring, op, left, base,
                         offset, cachedHwReadIndex, maxWritePtr, target, done, executed>>
      BY ZenonT(60), <1>2 DEF ReserveCas, CasSucceeds
    <2>3. TypeOK'
      BY ZenonT(60), <2>1, <2>2 DEF IInv, TypeOK, PC
    <2>4. Reserved' = Reserved \union {p} /\ p \notin Reserved /\ Publishing' = Publishing
      BY ZenonT(60), <2>2 DEF IInv, TypeOK, Reserved, Publishing
    <2>5. PointerInv'
      <3>1. \A q \in Publishing : pc'[q] = pc[q] /\ pending'[q] = pending[q]
        BY ZenonT(60), <2>2 DEF Publishing, IInv, TypeOK
      <3>2. committedWptr <= cachedWptr' /\ wptr <= cachedWptr'
        BY SMTT(60), <1>2, <2>1, <2>2 DEF IInv, TypeOK, PointerInv
      <3>3. rptr <= doorbell /\ cachedWptr' < rptr + QueueSize
        BY ZenonT(60), <2>1, <2>2 DEF IInv, PointerInv
      <3> QED
        BY ZenonT(60), <2>2, <2>4, <3>1, <3>2, <3>3 DEF IInv, PointerInv
    <2>6. ReserveInv'
      BY ZenonT(60), <2>2 DEF IInv, TypeOK, ReserveInv, NewIndex
    <2>7. \A q \in Reserved : Untouched(q) /\ RegionEnd(q)' = RegionEnd(q)
      BY ZenonT(60), <2>2, <2>4 DEF IInv, TypeOK, Reserved, Untouched, RegionEnd
    <2>8. /\ pc'[p] = "place" /\ base'[p] = base[p] /\ pending'[p] = base[p]
          /\ left'[p] = op[p] /\ offset'[p] = offset[p]
          /\ RegionEnd(p)' = NewIndex(p)
      BY SMTT(60), <2>1, <2>2 DEF IInv, TypeOK, RegionEnd, NewIndex
    <2>9. RegionInv'
      <3>1. ASSUME NEW q \in Reserved
            PROVE  /\ committedWptr <= base[q] /\ base[q] <= pending[q]
                   /\ base[q] < RegionEnd(q) /\ RegionEnd(q) <= cachedWptr'
                   /\ pc[q] # "place" => left[q] = {} /\ offset[q] = 0
                   /\ pc[q] = "place" => left[q] \in Op \union {{"counter"}}
        <4>1. RegionEnd(q) <= cachedWptr /\ RegionEnd(q) \in Nat
          BY ZenonT(60), <3>1, RegionType DEF IInv, RegionInv
        <4>2. RegionEnd(q) <= cachedWptr'
          BY SMTT(60), <4>1, <1>2, <2>1, <2>2 DEF IInv, TypeOK
        <4> QED
          BY ZenonT(60), <3>1, <4>2 DEF IInv, RegionInv
      <3>2. committedWptr <= base[p] /\ base[p] \in Nat
        BY ZenonT(60), <1>2 DEF IInv, TypeOK, PointerInv
      <3>3. ASSUME NEW q \in Reserved
            PROVE  /\ committedWptr' <= base'[q] /\ base'[q] <= pending'[q]
                   /\ base'[q] < RegionEnd(q)' /\ RegionEnd(q)' <= cachedWptr'
                   /\ pc'[q] # "place" => left'[q] = {} /\ offset'[q] = 0
                   /\ pc'[q] = "place" => left'[q] \in Op \union {{"counter"}}
        BY ZenonT(60), <2>2, <2>7, <3>1 DEF Untouched
      <3>4. /\ committedWptr' <= base'[p] /\ base'[p] <= pending'[p]
            /\ base'[p] < RegionEnd(p)' /\ RegionEnd(p)' <= cachedWptr'
            /\ pc'[p] # "place" => left'[p] = {} /\ offset'[p] = 0
            /\ pc'[p] = "place" => left'[p] \in Op \union {{"counter"}}
        BY SMTT(60), <2>1, <2>2, <2>8, <3>2
      <3> QED
        BY ZenonT(60), <2>4, <3>3, <3>4 DEF RegionInv
    <2>10. RegionsDisjoint'
      <3> SUFFICES ASSUME NEW a \in Reserved', NEW b \in Reserved', a # b
                   PROVE  RegionEnd(a)' <= base'[b] \/ RegionEnd(b)' <= base'[a]
        BY DEF RegionsDisjoint
      <3>1. \A q \in Reserved : RegionEnd(q)' <= base'[p]
        BY ZenonT(60), <1>2, <2>7, <2>8 DEF IInv, RegionInv
      <3>2. CASE a \in Reserved /\ b \in Reserved
        BY ZenonT(60), <2>7, <3>2 DEF IInv, RegionsDisjoint, Untouched
      <3> QED
        BY ZenonT(60), <2>4, <3>1, <3>2
    <2>11. PlacedInBounds'
      <3>1. ASSUME NEW q \in Producers, q # p, pc'[q] = "place"
            PROVE  Untouched(q) /\ pc[q] = "place"
        BY ZenonT(60), <2>2, <3>1 DEF Untouched, IInv, TypeOK
      <3> QED
        BY ZenonT(60), <2>1, <2>8, <3>1 DEF IInv, PlacedInBounds, Untouched
    <2>12. ContentInv'
      <3>1. Placed(ring, base[p], base[p])
        BY ZenonT(60), PlacedEmpty DEF IInv, TypeOK
      <3> QED
        BY ZenonT(60), <2>2, <2>4, <2>7, <2>8, <3>1 DEF IInv, ContentInv, Untouched
    <2> QED
      BY <2>3, <2>5, <2>6, <2>9, <2>10, <2>11, <2>12 DEF IInv
  <1> QED
    BY <1>1, <1>2

\* The engine takes one whole packet off the front of its part of the ring.
LEMMA EngineStep ==
    ASSUME IInv, Engine
    PROVE  IInv'
  <1>0. rptr \in Nat /\ doorbell \in Nat /\ rptr < doorbell
    BY ZenonT(60) DEF IInv, TypeOK, Engine
  <1>1. /\ Fetched \in Packet /\ Fetched.len \in Nat \ {0}
        /\ rptr + Fetched.len <= doorbell
        /\ Placed(ring, rptr + Fetched.len, doorbell)
    BY ZenonT(60), <1>0, PlacedHead DEF IInv, ContentInv, Fetched
  <1>2. rptr' = rptr + Fetched.len /\ rptr' \in Nat /\ rptr < rptr' /\ rptr' <= doorbell
    BY SMTT(60), <1>0, <1>1 DEF Engine
  <1>3. executed' \in Seq(Packet)
    BY SMTT(60), <1>1 DEF Engine, IInv, TypeOK
  <1>4. TypeOK'
    BY ZenonT(60), <1>2, <1>3 DEF Engine, IInv, TypeOK
  <1>5. Reserved' = Reserved /\ Publishing' = Publishing
    BY ZenonT(60) DEF Engine, Reserved, Publishing
  <1>6. PointerInv'
    BY SMTT(60), <1>0, <1>2, <1>5, RingAssumption DEF Engine, IInv, TypeOK, PointerInv
  <1>7. ReserveInv'
    <2> SUFFICES ASSUME NEW q \in Producers
                 PROVE  /\ cachedHwReadIndex[q] <= rptr'
                        /\ pc[q] = "cas" => NewIndex(q) < rptr' + QueueSize
      BY ZenonT(60) DEF Engine, ReserveInv, IInv, NewIndex
    <2>1. cachedHwReadIndex[q] \in Nat /\ cachedHwReadIndex[q] <= rptr
      BY ZenonT(60) DEF IInv, TypeOK, ReserveInv
    <2>2. ASSUME pc[q] = "cas" PROVE NewIndex(q) < rptr' + QueueSize
      <3>1. NewIndex(q) < rptr + QueueSize /\ op[q] \in Ops
        BY ZenonT(60), <2>2 DEF IInv, ReserveInv
      <3>2. NewIndex(q) \in Nat
        <4>1. SpaceRequired(op[q]) \in Nat
          BY ZenonT(60), <3>1, SpaceSplit, RingAssumption DEF Flags
        <4> QED
          BY SMTT(60), <4>1 DEF NewIndex, IInv, TypeOK
      <3> QED
        BY SMTT(60), <3>1, <3>2, <1>0, <1>2, RingAssumption
    <2> QED
      BY SMTT(60), <2>1, <2>2, <1>0, <1>2
  <1>8. \A q \in Producers : RegionEnd(q)' = RegionEnd(q)
    BY ZenonT(60) DEF Engine, RegionEnd
  <1>9. RegionInv' /\ RegionsDisjoint' /\ PlacedInBounds'
    BY ZenonT(60), <1>5, <1>8
       DEF Engine, IInv, RegionInv, RegionsDisjoint, PlacedInBounds, Reserved
  <1>10. ContentInv'
    BY ZenonT(60), <1>1, <1>2, <1>5 DEF Engine, IInv, ContentInv
  <1> QED
    BY ZenonT(60), <1>4, <1>6, <1>7, <1>9, <1>10 DEF IInv

\* The slots placePacket stores to are those of the packet's own indices.
LEMMA SlotIndex ==
    ASSUME NEW i \in Nat, NEW len \in Nat, WrapIntoRing(i) + len <= QueueSize
    PROVE  /\ \A j \in i .. i + len - 1 : WrapIntoRing(j) \in PlacedSlots(i, len)
           /\ \A s \in PlacedSlots(i, len) :
                 \E j \in i .. i + len - 1 : s = WrapIntoRing(j)
  <1>0. WrapIntoRing(i) \in 0 .. QueueSize - 1 /\ QueueSize \in Nat
    BY WrapType, RingAssumption DEF Slots
  <1>1. ASSUME NEW j \in i .. i + len - 1
        PROVE  WrapIntoRing(j) \in PlacedSlots(i, len)
    <2>1. j - i \in Nat /\ WrapIntoRing(i) + (j - i) < QueueSize /\ i + (j - i) = j
      BY <1>0
    <2>2. WrapIntoRing(j) = WrapIntoRing(i) + (j - i)
      BY ZenonT(60), <2>1, WrapShift
    <2> QED
      BY SMTT(60), <1>0, <2>2 DEF PlacedSlots
  <1>2. ASSUME NEW s \in PlacedSlots(i, len)
        PROVE  \E j \in i .. i + len - 1 : s = WrapIntoRing(j)
    <2> DEFINE d == s - WrapIntoRing(i)
    <2>1. d \in Nat /\ d < len /\ s = WrapIntoRing(i) + d /\ s < QueueSize
      BY SMTT(60), <1>0 DEF PlacedSlots
    <2>2. WrapIntoRing(i + d) = s
      BY ZenonT(60), <2>1, WrapShift
    <2>3. i + d \in i .. i + len - 1
      BY <2>1
    <2> QED
      BY ZenonT(60), <2>2, <2>3
  <1> QED
    BY ZenonT(60), <1>1, <1>2

\* What the thread that places a packet knows of its region.
LEMMA PlaceFacts ==
    ASSUME IInv, NEW p \in Producers, pc[p] = "place"
    PROVE  LET pkt == NextPacket(left[p])
               len == PacketLen(pkt)
               at  == pending[p] + offset[p]
           IN  /\ pkt \subseteq {"put", "signal", "counter", "tile"}
               /\ len \in Nat \ {0} /\ at \in Nat /\ offset[p] \in Nat
               /\ base[p] \in Nat /\ pending[p] \in Nat
               /\ SpaceRequired(left[p] \ pkt) \in Nat
               /\ RegionEnd(p) = at + len + SpaceRequired(left[p] \ pkt)
               /\ left[p] # pkt => left[p] \ pkt \in Flags
               /\ left[p] = pkt => left[p] \ pkt = {}
               /\ rptr <= doorbell /\ doorbell <= base[p] /\ base[p] <= pending[p]
               /\ RegionEnd(p) <= cachedWptr /\ cachedWptr < rptr + QueueSize
               /\ WrapIntoRing(pending[p]) + offset[p] <= QueueSize
               /\ WrapIntoRing(at) + len + SpaceRequired(left[p] \ pkt) <= QueueSize
  <1>1. p \in Reserved
    BY DEF Reserved
  <1>2. left[p] \in Flags
    BY ZenonT(60), <1>1 DEF IInv, RegionInv, Flags
  <1>3. pending[p] \in Nat /\ offset[p] \in Nat /\ base[p] \in Nat
    BY ZenonT(60) DEF IInv, TypeOK
  <1> DEFINE pkt == NextPacket(left[p])
             rest == left[p] \ pkt
             at == pending[p] + offset[p]
  <1>4. /\ pkt \subseteq {"put", "signal", "counter", "tile"}
        /\ PacketLen(pkt) \in Nat \ {0}
        /\ SpaceRequired(left[p]) = PacketLen(pkt) + SpaceRequired(rest)
        /\ SpaceRequired(rest) \in Nat
        /\ left[p] # pkt => rest \in Flags
        /\ left[p] = pkt => rest = {}
    BY ZenonT(60), <1>2, SpaceSplit
  <1>5. /\ WrapIntoRing(pending[p]) + offset[p] <= QueueSize
        /\ WrapIntoRing(at) + SpaceRequired(left[p]) <= QueueSize
    BY ZenonT(60) DEF IInv, PlacedInBounds
  <1>6. WrapIntoRing(at) \in Nat
    <2>1. at \in Nat
      BY SMTT(60), <1>3
    <2> HIDE DEF at
    <2> QED
      BY <2>1, WrapType DEF Slots
  <1>7. RegionEnd(p) <= cachedWptr /\ base[p] <= pending[p]
    BY ZenonT(60), <1>1 DEF IInv, RegionInv
  <1>8. rptr <= doorbell /\ doorbell <= base[p] /\ cachedWptr < rptr + QueueSize
    BY ZenonT(60), <1>1, DoorbellBelow DEF IInv, PointerInv
  <1>9. RegionEnd(p) = at + PacketLen(pkt) + SpaceRequired(rest)
    BY SMTT(60), <1>3, <1>4 DEF RegionEnd
  <1>10. WrapIntoRing(at) + PacketLen(pkt) + SpaceRequired(rest) <= QueueSize
    BY SMTT(60), <1>4, <1>5, <1>6
  <1> QED
    BY SMTT(60), <1>3, <1>4, <1>5, <1>7, <1>8, <1>9, <1>10

\* placePacket fills its own indices and changes no other index of the ring.
LEMMA PlaceContent ==
    ASSUME IInv, NEW p \in Producers, PlacePacket(p)
    PROVE  LET len == PacketLen(NextPacket(left[p]))
               end == pending[p] + offset[p] + len
           IN  /\ ring' \in [Slots -> Packet \union {Unwritten}]
               /\ Placed(ring', pending[p], end)
               /\ \A i \in Nat :
                     rptr <= i /\ i < rptr + QueueSize /\ (i < pending[p] \/ end <= i)
                     => ring'[WrapIntoRing(i)] = ring[WrapIntoRing(i)]
  <1> DEFINE pkt == NextPacket(left[p])
             len == PacketLen(pkt)
             lo == pending[p]
             off == offset[p]
             at == lo + off
             end == at + len
             nop == [by |-> p, n |-> done[p], eff |-> {}, start |-> lo, len |-> off]
             body == [by |-> p, n |-> done[p], eff |-> pkt, start |-> at, len |-> len]
  <1>1. /\ len \in Nat \ {0} /\ at \in Nat /\ lo \in Nat /\ off \in Nat /\ end \in Nat
        /\ at = lo + off /\ end = at + len
        /\ rptr <= lo /\ end < rptr + QueueSize
        /\ WrapIntoRing(lo) + off <= QueueSize
        /\ WrapIntoRing(at) + len <= QueueSize
    <2> DEFINE w == WrapIntoRing(at)
               rest == SpaceRequired(left[p] \ pkt)
    <2>1. rptr \in Nat /\ doorbell \in Nat /\ cachedWptr \in Nat /\ QueueSize \in Nat
      BY ZenonT(60), RingAssumption DEF IInv, TypeOK
    <2>2. /\ len \in Nat \ {0} /\ at \in Nat /\ lo \in Nat /\ off \in Nat
          /\ base[p] \in Nat /\ rest \in Nat
          /\ RegionEnd(p) = at + len + rest
          /\ rptr <= doorbell /\ doorbell <= base[p] /\ base[p] <= lo
          /\ RegionEnd(p) <= cachedWptr /\ cachedWptr < rptr + QueueSize
          /\ WrapIntoRing(lo) + off <= QueueSize
          /\ w + len + rest <= QueueSize
      BY ZenonT(60), PlaceFacts DEF PlacePacket
    <2> HIDE DEF at
    <2>3. w \in Nat
      <3>1. at \in Nat
        BY ZenonT(60), <2>2
      <3> QED
        BY <2>1, <3>1, WrapType DEF Slots
    <2> HIDE DEF w, rest, len, lo, off
    <2> QED
      BY SMTT(60), <2>1, <2>2, <2>3 DEF at, w
  <1>2. rptr \in Nat /\ QueueSize \in Nat
    BY ZenonT(60), RingAssumption DEF IInv, TypeOK
  <1>3. nop \in Packet /\ body \in Packet
    <2>1. pkt \subseteq {"put", "signal", "counter", "tile"}
      BY ZenonT(60), PlaceFacts DEF PlacePacket
    <2> QED
      BY ZenonT(60), <1>1, <2>1 DEF Packet, IInv, TypeOK
  <1>4. ring' = [s \in Slots |-> IF s \in PlacedSlots(at, len) THEN body
                                 ELSE IF s \in PlacedSlots(lo, off) THEN nop
                                 ELSE ring[s]]
    BY ZenonT(60) DEF PlacePacket
  <1>5. ring' \in [Slots -> Packet \union {Unwritten}]
    BY ZenonT(60), <1>3, <1>4 DEF IInv, TypeOK
  <1>6. nop.start = lo /\ nop.len = off /\ body.start = at /\ body.len = len
    BY ZenonT(60)
  <1> HIDE DEF pkt, len, lo, off, at, end, nop, body
  <1>7. ASSUME NEW i \in at .. end - 1 PROVE ring'[WrapIntoRing(i)] = body
    <2>1. i \in Nat /\ i \in at .. at + len - 1
      BY SMTT(60), <1>1
    <2> QED
      BY ZenonT(60), <2>1, <1>1, <1>4, SlotIndex, WrapType
  <1>8. ASSUME NEW i \in Nat, rptr <= i, i < rptr + QueueSize, i \notin at .. end - 1
        PROVE  WrapIntoRing(i) \notin PlacedSlots(at, len)
    <2> SUFFICES ASSUME NEW j \in at .. at + len - 1, WrapIntoRing(i) = WrapIntoRing(j)
                 PROVE  FALSE
      BY SMTT(60), <1>1, SlotIndex
    <2>1. j \in Nat /\ rptr <= j /\ j < rptr + QueueSize /\ i # j
      BY SMTT(60), <1>1, <1>2, <1>8
    <2>2. i < j + QueueSize /\ j < i + QueueSize
      BY SMTT(60), <2>1, <1>2, <1>8
    <2> QED
      BY ZenonT(60), <2>1, <2>2, WrapDistinct
  <1>9. ASSUME NEW i \in lo .. at - 1 PROVE ring'[WrapIntoRing(i)] = nop
    <2>1. i \in Nat /\ rptr <= i /\ i < rptr + QueueSize /\ i \notin at .. end - 1
          /\ i \in lo .. lo + off - 1
      BY SMTT(60), <1>1, <1>2
    <2>2. WrapIntoRing(i) \notin PlacedSlots(at, len)
      BY ZenonT(60), <2>1, <1>8
    <2>3. WrapIntoRing(i) \in PlacedSlots(lo, off)
      BY ZenonT(60), <2>1, <1>1, SlotIndex
    <2> QED
      BY ZenonT(60), <2>1, <2>2, <2>3, <1>4, WrapType
  <1>10. ASSUME NEW i \in Nat, rptr <= i, i < rptr + QueueSize, i < lo \/ end <= i
         PROVE  ring'[WrapIntoRing(i)] = ring[WrapIntoRing(i)]
    <2>1. i \notin at .. end - 1 /\ i \notin lo .. lo + off - 1
      BY SMTT(60), <1>1, <1>10
    <2>2. WrapIntoRing(i) \notin PlacedSlots(at, len)
      BY ZenonT(60), <2>1, <1>8, <1>10
    <2>3. WrapIntoRing(i) \notin PlacedSlots(lo, off)
      <3> SUFFICES ASSUME NEW j \in lo .. lo + off - 1,
                          WrapIntoRing(i) = WrapIntoRing(j)
                   PROVE  FALSE
        BY SMTT(60), <1>1, SlotIndex
      <3>1. j \in Nat /\ rptr <= j /\ j < rptr + QueueSize /\ i # j
        BY SMTT(60), <1>1, <1>2, <2>1
      <3>2. i < j + QueueSize /\ j < i + QueueSize
        BY SMTT(60), <3>1, <1>2, <1>10
      <3> QED
        BY ZenonT(60), <3>1, <3>2, WrapDistinct
    <2> QED
      BY ZenonT(60), <2>2, <2>3, <1>4, WrapType
  <1>11. Placed(ring', lo, at)
    <2>1. \A j \in nop.start .. nop.start + nop.len - 1 : ring'[WrapIntoRing(j)] = nop
      BY SMTT(60), <1>1, <1>6, <1>9
    <2> QED
      BY ZenonT(60), <2>1, <1>1, <1>3, <1>6, PlacedOne
  <1>12. Placed(ring', at, end)
    <2>1. \A j \in body.start .. body.start + body.len - 1 : ring'[WrapIntoRing(j)] = body
      BY SMTT(60), <1>1, <1>6, <1>7
    <2> QED
      BY ZenonT(60), <2>1, <1>1, <1>3, <1>6, PlacedOne
  <1>13. Placed(ring', lo, end)
    BY SMTT(60), <1>1, <1>11, <1>12, PlacedConcat
  <1> QED
    BY ZenonT(60), <1>5, <1>10, <1>13 DEF pkt, len, lo, off, at, end

\* placePacket moves the thread on inside its region.
LEMMA PlacePacketStep ==
    ASSUME IInv, NEW p \in Producers, PlacePacket(p)
    PROVE  IInv'
  <1> DEFINE pkt == NextPacket(left[p])
             rest == left[p] \ pkt
             end == pending[p] + offset[p] + PacketLen(pkt)
             space == SpaceRequired(rest)
  <1>1. /\ pc[p] = "place" /\ left' = [left EXCEPT ![p] = rest]
        /\ pending' = [pending EXCEPT ![p] = end] /\ offset' = [offset EXCEPT ![p] = 0]
        /\ pc' = [pc EXCEPT ![p] = IF left[p] = pkt THEN "wait" ELSE "place"]
        /\ UNCHANGED <<cachedWptr, committedWptr, wptr, doorbell, rptr, op, base,
                       cachedHwReadIndex, maxWritePtr, target, done, executed>>
    BY ZenonT(60) DEF PlacePacket
  <1>2. /\ end \in Nat /\ space \in Nat /\ RegionEnd(p) = end + space
        /\ base[p] \in Nat /\ pending[p] \in Nat /\ pending[p] < end
        /\ left[p] # pkt => rest \in Flags
        /\ left[p] = pkt => rest = {}
        /\ rptr <= doorbell /\ doorbell <= base[p] /\ base[p] <= pending[p]
        /\ RegionEnd(p) <= cachedWptr /\ cachedWptr < rptr + QueueSize
    <2> DEFINE len == PacketLen(pkt)
    <2>1. /\ len \in Nat \ {0} /\ offset[p] \in Nat /\ space \in Nat
          /\ RegionEnd(p) = pending[p] + offset[p] + len + space
          /\ base[p] \in Nat /\ pending[p] \in Nat
          /\ left[p] # pkt => rest \in Flags
          /\ left[p] = pkt => rest = {}
          /\ rptr <= doorbell /\ doorbell <= base[p] /\ base[p] <= pending[p]
          /\ RegionEnd(p) <= cachedWptr /\ cachedWptr < rptr + QueueSize
      BY ZenonT(60), <1>1, PlaceFacts
    <2> HIDE DEF len, space, rest
    <2>2. end = pending[p] + offset[p] + len
      BY ZenonT(60) DEF len
    <2>3. end \in Nat /\ RegionEnd(p) = end + space /\ pending[p] < end
      BY SMTT(60), <2>1, <2>2
    <2> QED
      BY ZenonT(60), <2>1, <2>3
  <1>3. left[p] # pkt => /\ space \in Nat \ {0}
                         /\ WrapIntoRing(end) + space <= QueueSize
                         /\ WrapIntoRing(end) <= QueueSize
    <2> SUFFICES ASSUME left[p] # pkt
                 PROVE  /\ space \in Nat \ {0}
                        /\ WrapIntoRing(end) + space <= QueueSize
                        /\ WrapIntoRing(end) <= QueueSize
      BY ZenonT(60)
    <2> DEFINE at == pending[p] + offset[p]
               len == PacketLen(pkt)
    <2>1. space \in Nat \ {0}
      BY ZenonT(60), <1>2, SpaceSplit
    <2>2. /\ at \in Nat /\ len \in Nat /\ end = at + len
          /\ WrapIntoRing(at) + len + space <= QueueSize
      BY ZenonT(60), <1>1, PlaceFacts
    <2> HIDE DEF at, len, space, end
    <2>3. WrapIntoRing(at) \in Nat /\ QueueSize \in Nat
      BY SMTT(60), <2>2, WrapType, RingAssumption DEF Slots
    <2>4. WrapIntoRing(end) = WrapIntoRing(at) + len
      BY SMTT(60), <2>1, <2>2, <2>3, WrapShift
    <2> QED
      BY SMTT(60), <2>1, <2>2, <2>3, <2>4
  <1>4. /\ ring' \in [Slots -> Packet \union {Unwritten}]
        /\ Placed(ring', pending[p], end)
        /\ \A i \in Nat :
              rptr <= i /\ i < rptr + QueueSize /\ (i < pending[p] \/ end <= i)
              => ring'[WrapIntoRing(i)] = ring[WrapIntoRing(i)]
    BY ZenonT(60), PlaceContent
  <1>5. p \in Reserved /\ p \notin Publishing
    BY ZenonT(60), <1>1 DEF Reserved, Publishing
  <1>6. space = 0 <=> left[p] = pkt
    BY ZenonT(60), <1>2, <1>3, SpaceEmpty
  <1> HIDE DEF end, rest, space, pkt
  <1>7. TypeOK'
    <2>1. rest \in SUBSET {"put", "signal", "counter", "tile"}
      BY ZenonT(60) DEF rest, IInv, TypeOK
    <2> QED
      BY ZenonT(60), <1>1, <1>2, <1>4, <2>1 DEF IInv, TypeOK, PC
  <1>8. Reserved' = Reserved /\ Publishing' = Publishing
    BY ZenonT(60), <1>1 DEF IInv, TypeOK, Reserved, Publishing
  <1>9. \A q \in Producers : q # p => Untouched(q) /\ RegionEnd(q)' = RegionEnd(q)
    BY ZenonT(60), <1>1 DEF IInv, TypeOK, Untouched, RegionEnd
  <1>10. /\ pending'[p] = end /\ offset'[p] = 0 /\ left'[p] = rest /\ base'[p] = base[p]
         /\ pc'[p] = (IF left[p] = pkt THEN "wait" ELSE "place")
         /\ RegionEnd(p)' = RegionEnd(p)
    BY SMTT(60), <1>1, <1>2 DEF IInv, TypeOK, RegionEnd, space
  <1>11. PointerInv'
    <2>1. /\ rptr' = rptr /\ doorbell' = doorbell /\ wptr' = wptr
          /\ committedWptr' = committedWptr /\ cachedWptr' = cachedWptr
      BY ZenonT(60), <1>1
    <2>2. ASSUME NEW q \in Publishing
          PROVE  /\ committedWptr = base'[q]
                 /\ wptr = (IF pc'[q] = "wptr" THEN base'[q] ELSE pending'[q])
                 /\ doorbell = (IF pc'[q] = "commit" THEN pending'[q] ELSE base'[q])
      <3>1. q \in Producers /\ q # p
        BY ZenonT(60), <1>5 DEF Publishing
      <3>2. pc'[q] = pc[q] /\ base'[q] = base[q] /\ pending'[q] = pending[q]
        BY ZenonT(60), <1>9, <3>1 DEF Untouched
      <3> QED
        BY ZenonT(60), <3>2 DEF IInv, PointerInv
    <2> QED
      BY ZenonT(60), <1>8, <2>1, <2>2 DEF IInv, PointerInv
  <1>12. ReserveInv'
    BY ZenonT(60), <1>1 DEF IInv, TypeOK, ReserveInv, NewIndex
  <1>13. RegionInv'
    <2>1. ASSUME NEW q \in Reserved, q # p
          PROVE  /\ committedWptr' <= base'[q] /\ base'[q] <= pending'[q]
                 /\ base'[q] < RegionEnd(q)' /\ RegionEnd(q)' <= cachedWptr'
                 /\ pc'[q] # "place" => left'[q] = {} /\ offset'[q] = 0
                 /\ pc'[q] = "place" => left'[q] \in Op \union {{"counter"}}
      BY ZenonT(60), <1>1, <1>9, <2>1 DEF IInv, RegionInv, Untouched, Reserved
    <2>2. /\ committedWptr' <= base'[p] /\ base'[p] <= pending'[p]
          /\ base'[p] < RegionEnd(p)' /\ RegionEnd(p)' <= cachedWptr'
      BY SMTT(60), <1>1, <1>2, <1>5, <1>10 DEF IInv, RegionInv
    <2>3. /\ pc'[p] # "place" => left'[p] = {} /\ offset'[p] = 0
          /\ pc'[p] = "place" => left'[p] \in Op \union {{"counter"}}
      BY ZenonT(60), <1>2, <1>10 DEF Flags
    <2> QED
      BY ZenonT(60), <1>8, <2>1, <2>2, <2>3 DEF RegionInv
  <1>14. RegionsDisjoint'
    BY SMTT(60), <1>1, <1>8, <1>9, <1>10 DEF IInv, RegionsDisjoint, Reserved
  <1>15. PlacedInBounds'
    <2>1. ASSUME NEW q \in Producers, q # p, pc'[q] = "place"
          PROVE  /\ WrapIntoRing(pending'[q]) + offset'[q] <= QueueSize
                 /\ WrapIntoRing(pending'[q] + offset'[q]) + SpaceRequired(left'[q])
                       <= QueueSize
      BY ZenonT(60), <1>9, <2>1 DEF IInv, PlacedInBounds, Untouched
    <2>2. ASSUME pc'[p] = "place"
          PROVE  /\ WrapIntoRing(pending'[p]) + offset'[p] <= QueueSize
                 /\ WrapIntoRing(pending'[p] + offset'[p]) + SpaceRequired(left'[p])
                       <= QueueSize
      <3>1. end + 0 = end /\ left[p] # pkt
        BY SMTT(60), <1>2, <1>10, <2>2
      <3>2. WrapIntoRing(end) + 0 = WrapIntoRing(end)
        BY SMTT(60), <1>2, WrapType, RingAssumption DEF Slots
      <3> QED
        BY ZenonT(60), <3>1, <3>2, <1>3, <1>10 DEF space
    <2> QED
      BY ZenonT(60), <2>1, <2>2 DEF PlacedInBounds
  <1>16. ContentInv'
    <2>0. rptr \in Nat /\ doorbell \in Nat /\ cachedWptr \in Nat /\ QueueSize \in Nat
      BY RingAssumption DEF IInv, TypeOK
    <2>1. Placed(ring', rptr, doorbell)
      <3>1. \A i \in rptr .. doorbell - 1 :
               ring'[WrapIntoRing(i)] = ring[WrapIntoRing(i)]
        <4>1. \A i \in rptr .. doorbell - 1 :
                 /\ i \in Nat /\ rptr <= i /\ i < rptr + QueueSize
                 /\ i < pending[p] \/ end <= i
          BY SMTT(60), <1>2, <2>0
        <4> QED
          BY ZenonT(60), <1>4, <4>1
      <3> QED
        BY ZenonT(60), <3>1, <2>0, PlacedFrame DEF IInv, ContentInv
    <2>2. Placed(ring', base[p], end)
      <3>1. \A i \in base[p] .. pending[p] - 1 :
               ring'[WrapIntoRing(i)] = ring[WrapIntoRing(i)]
        <4>1. \A i \in base[p] .. pending[p] - 1 :
                 /\ i \in Nat /\ rptr <= i /\ i < rptr + QueueSize
                 /\ i < pending[p] \/ end <= i
          BY SMTT(60), <1>2, <2>0
        <4> QED
          BY ZenonT(60), <1>4, <4>1
      <3>2. Placed(ring, base[p], pending[p])
        BY ZenonT(60), <1>1, <1>5 DEF IInv, ContentInv
      <3>3. Placed(ring', base[p], pending[p])
        BY ZenonT(60), <3>1, <3>2, <1>2, PlacedFrame
      <3> QED
        BY SMTT(60), <3>3, <1>2, <1>4, PlacedConcat
    <2>3. ASSUME NEW q \in Reserved, q # p, pc[q] # "commit"
          PROVE  Placed(ring', base[q], pending[q])
      <3>1. /\ base[q] \in Nat /\ pending[q] \in Nat /\ RegionEnd(q) \in Nat
            /\ pending[q] <= RegionEnd(q) /\ RegionEnd(q) <= cachedWptr
            /\ doorbell <= base[q]
        BY ZenonT(60), <2>3, RegionType, DoorbellBelow DEF IInv, RegionInv
      <3>2. RegionEnd(p) <= base[q] \/ RegionEnd(q) <= base[p]
        BY ZenonT(60), <1>5, <2>3 DEF IInv, RegionsDisjoint
      <3>3. \A i \in base[q] .. pending[q] - 1 :
               ring'[WrapIntoRing(i)] = ring[WrapIntoRing(i)]
        <4>1. \A i \in base[q] .. pending[q] - 1 :
                 /\ i \in Nat /\ rptr <= i /\ i < rptr + QueueSize
                 /\ i < pending[p] \/ end <= i
          BY SMTT(60), <1>2, <2>0, <3>1, <3>2
        <4> QED
          BY ZenonT(60), <1>4, <4>1
      <3>4. Placed(ring, base[q], pending[q])
        BY ZenonT(60), <2>3 DEF IInv, ContentInv
      <3> QED
        BY ZenonT(60), <3>1, <3>3, <3>4, PlacedFrame
    <2> QED
      BY SMTT(60), <1>1, <1>8, <1>9, <1>10, <2>1, <2>2, <2>3
         DEF ContentInv, Untouched, Reserved
  <1> QED
    BY <1>7, <1>11, <1>12, <1>13, <1>14, <1>15, <1>16 DEF IInv
-----------------------------------------------------------------------------
\* Every step of the specification preserves the inductive invariant.
LEMMA NextIInv == IInv /\ [Next]_vars => IInv'
  <1> SUFFICES ASSUME IInv, [Next]_vars PROVE IInv'
    OBVIOUS
  <1>1. ASSUME NEW p \in Producers, NEW o \in Ops, Begin(p, o) PROVE IInv'
    BY <1>1, BeginStep
  <1>0. ASSUME NEW p \in Producers, InitState(p) PROVE IInv'
    BY <1>0, InitStateStep
  <1>2. ASSUME NEW p \in Producers, Submit(p) PROVE IInv'
    BY ZenonT(60), <1>2, ReserveLoadStep, CanWriteCachedStep, CanWriteUptoStep,
       ReserveCasStep,
       PlacePacketStep, SubmitWaitStep, StoreWptrStep, RingDoorbellStep,
       StoreCommittedStep DEF Submit
  <1>3. ASSUME NEW p \in Producers, QuietAll(p) \/ QuietReturn(p) PROVE IInv'
    BY <1>3, QuietStep
  <1>4. CASE Engine
    BY <1>4, EngineStep
  <1>5. CASE UNCHANGED vars
    BY ZenonT(60), <1>5
       DEF vars, IInv, TypeOK, PointerInv, ReserveInv, RegionInv, RegionsDisjoint,
       PlacedInBounds, ContentInv, Publishing, Reserved, RegionEnd, NewIndex
  <1> QED
    BY ZenonT(60), <1>0, <1>1, <1>2, <1>3, <1>4, <1>5 DEF Next

\* The inductive invariant: where every pointer, every reserved region and every
\* placed packet stands in any reachable state of the shared ring.
THEOREM Inductive == Spec => []IInv
  BY InitIInv, NextIInv, PTL DEF Spec

\* Every variable keeps its type; in particular the ring only ever holds packets
\* of the known layouts.
THEOREM TypeCorrect == Spec => []TypeOK
  <1>1. IInv => TypeOK
    BY DEF IInv
  <1> QED
    BY <1>1, Inductive, PTL

\* ReserveQueueSpace never hands out space the engine has still to read, for any
\* number of threads, whatever stale read index a decision was taken on.
THEOREM NeverOverwrites == Spec => []NoOverwrite
  <1>1. IInv => NoOverwrite
    <2> SUFFICES ASSUME IInv PROVE NoOverwrite
      OBVIOUS
    <2>1. rptr <= doorbell /\ doorbell <= cachedWptr /\ cachedWptr < rptr + QueueSize
      BY ZenonT(60), DoorbellBelow DEF IInv, PointerInv
    <2>2. rptr \in Nat /\ doorbell \in Nat /\ cachedWptr \in Nat /\ QueueSize \in Nat
      BY ZenonT(60), RingAssumption DEF IInv, TypeOK
    <2> QED
      BY <2>1, <2>2 DEF NoOverwrite
  <1> QED
    BY <1>1, Inductive, PTL

\* Threads that won their CAS own disjoint regions.
THEOREM DisjointRegions == Spec => []RegionsDisjoint
  <1>1. IInv => RegionsDisjoint
    BY DEF IInv
  <1> QED
    BY <1>1, Inductive, PTL

\* placePacket stays inside queueBuf although it wraps only its start index.
THEOREM PlacementInBounds == Spec => []PlacedInBounds
  <1>1. IInv => PlacedInBounds
    BY DEF IInv
  <1> QED
    BY <1>1, Inductive, PTL

\* The committedWptr wait admits one thread at a time to the stores of
\* submitPacket, the one with the oldest reservation.
THEOREM ExclusivePublication == Spec => []PublishExclusive
  <1>1. IInv => PublishExclusive
    <2> SUFFICES ASSUME IInv, NEW p \in Publishing
                 PROVE  /\ \A q \in Publishing : q = p
                        /\ \A q \in Reserved : base[p] <= base[q]
      BY DEF PublishExclusive
    <2>1. \A q \in Reserved : base[p] <= base[q]
      BY ZenonT(60) DEF IInv, PointerInv, RegionInv
    <2> QED
      BY <2>1, PublishUnique
  <1> QED
    BY <1>1, Inductive, PTL

\* Below the doorbell the engine always fetches a whole packet that was placed
\* for the index it reads.
THEOREM EngineSeesWholePackets == Spec => []EngineReadsPlaced
  <1>1. IInv => EngineReadsPlaced
    <2> SUFFICES ASSUME IInv, rptr < doorbell
                 PROVE  /\ Fetched # Unwritten
                        /\ Fetched.start = rptr
                        /\ rptr + Fetched.len <= doorbell
                        /\ \A s \in PlacedSlots(rptr, Fetched.len) :
                              s \in Slots /\ ring[s] = Fetched
      BY ZenonT(60) DEF EngineReadsPlaced
    <2>1. rptr \in Nat /\ doorbell \in Nat
      BY ZenonT(60) DEF IInv, TypeOK
    <2>2. /\ Fetched \in Packet /\ Fetched.start = rptr /\ Fetched.len \in Nat
          /\ rptr + Fetched.len <= doorbell
          /\ WrapIntoRing(rptr) + Fetched.len <= QueueSize
          /\ \A j \in rptr .. rptr + Fetched.len - 1 : ring[WrapIntoRing(j)] = Fetched
      BY ZenonT(60), <2>1, PlacedHead DEF IInv, ContentInv, Fetched
    <2>3. Fetched.by \in Producers
      BY ZenonT(60), <2>2 DEF Packet
    <2>4. Fetched # Unwritten
      BY SMTT(60), <2>3, RingAssumption DEF Unwritten
    <2>5. ASSUME NEW s \in PlacedSlots(rptr, Fetched.len)
          PROVE  s \in Slots /\ ring[s] = Fetched
      <3>1. PICK j \in rptr .. rptr + Fetched.len - 1 : s = WrapIntoRing(j)
        BY ZenonT(60), <2>1, <2>2, SlotIndex
      <3>2. j \in Nat
        BY <2>1
      <3> QED
        BY ZenonT(60), <3>1, <3>2, <2>2, WrapType
    <2> QED
      BY ZenonT(60), <2>2, <2>4, <2>5
  <1> QED
    BY <1>1, Inductive, PTL

\* wptr, doorbell and committedWptr never move backwards.
THEOREM MonotonePointers == Spec => PointersMonotone
  <1>1. IInv /\ [Next]_vars =>
           [wptr' >= wptr /\ doorbell' >= doorbell /\ committedWptr' >= committedWptr]_vars
    <2> SUFFICES ASSUME IInv, Next
                 PROVE  wptr' >= wptr /\ doorbell' >= doorbell
                        /\ committedWptr' >= committedWptr
      OBVIOUS
    <2>0. wptr \in Nat /\ doorbell \in Nat /\ committedWptr \in Nat
      BY ZenonT(60) DEF IInv, TypeOK
    <2>1. ASSUME NEW p \in Producers, StoreWptr(p) \/ RingDoorbell(p) \/ StoreCommitted(p)
          PROVE  wptr' >= wptr /\ doorbell' >= doorbell
                 /\ committedWptr' >= committedWptr
      <3>1. p \in Publishing /\ p \in Reserved
        BY ZenonT(60), <2>1
           DEF StoreWptr, RingDoorbell, StoreCommitted, Publishing, Reserved
      <3>2. base[p] <= pending[p] /\ committedWptr = base[p]
            /\ (pc[p] = "wptr" => wptr = base[p])
            /\ (pc[p] = "doorbell" => doorbell = base[p])
        BY ZenonT(60), <3>1 DEF IInv, PointerInv, RegionInv
      <3>3. base[p] \in Nat /\ pending[p] \in Nat
        BY ZenonT(60) DEF IInv, TypeOK
      <3> QED
        BY SMTT(60), <2>0, <2>1, <3>2, <3>3 DEF StoreWptr, RingDoorbell, StoreCommitted
    <2>2. CASE UNCHANGED <<wptr, doorbell, committedWptr>>
      BY <2>0, <2>2
    <2> QED
      BY ZenonT(60), <2>1, <2>2
         DEF Next, Submit, InitState, Begin, ReserveLoad, CanWriteCached, CanWriteUpto,
         ReserveCas, PlacePacket, SubmitWait, QuietAll, QuietReturn, Engine
  <1> QED
    BY <1>1, Inductive, PTL DEF Spec, PointersMonotone
=============================================================================
