-------------------------- MODULE NvmeBatch_proofs --------------------------
(***************************************************************************)
(* The I/O kernel over one queue pair, for rings of any size, any number   *)
(* of operations, any --batch-size and any order of completions, when one  *)
(* wavefront drives the pair; and the PRP entries, lists and fields of a   *)
(* command (NvmePrp), for every page size.                                 *)
(***************************************************************************)
EXTENDS NvmeBatch, NvmePrp, TLAPS

-----------------------------------------------------------------------------
(* Division with remainder.                                                *)

\* A number is its quotient and its remainder.
LEMMA DivMod ==
    ASSUME NEW n \in Nat, NEW d \in Nat \ {0}
    PROVE  /\ n \div d \in Nat
           /\ n % d \in 0 .. d - 1
           /\ n = d * (n \div d) + (n % d)
  OBVIOUS

\* Quotient and remainder are unique.
LEMMA DivUnique ==
    ASSUME NEW d \in Nat \ {0}, NEW q \in Nat, NEW r \in 0 .. d - 1
    PROVE  /\ (d * q + r) \div d = q
           /\ (d * q + r) % d = r
  <1> DEFINE n == d * q + r
  <1>1. n \in Nat
    OBVIOUS
  <1>2. /\ n \div d \in Nat
        /\ n % d \in 0 .. d - 1
        /\ n = d * (n \div d) + (n % d)
    BY Zenon, <1>1, DivMod
  <1> HIDE DEF n
  <1>3. ASSUME NEW a \in Nat, NEW s \in 0 .. d - 1, d * q + r = d * a + s
        PROVE  a = q
    <2>1. ASSUME a > q PROVE FALSE
      <3>1. d * (a - q) >= d
        BY <2>1
      <3>2. d * (a - q) = d * a - d * q
        OBVIOUS
      <3> QED  BY <3>1, <3>2, <1>3
    <2>2. ASSUME a < q PROVE FALSE
      <3>1. d * (q - a) >= d
        BY <2>2
      <3>2. d * (q - a) = d * q - d * a
        OBVIOUS
      <3> QED  BY <3>1, <3>2, <1>3
    <2> QED  BY <2>1, <2>2
  <1>4. n \div d = q
    BY Zenon, <1>2, <1>3 DEF n
  <1> QED  BY <1>2, <1>4 DEF n

\* The same facts, with a name for each number.
LEMMA DivPick ==
    ASSUME NEW n \in Nat, NEW d \in Nat \ {0}
    PROVE  \E q \in Nat, r \in 0 .. d - 1 : q = n \div d /\ r = n % d /\ n = d * q + r
  BY DivMod, Zenon

\* Uniqueness, for a number that is given a name.
LEMMA DivIs ==
    ASSUME NEW d \in Nat \ {0}, NEW n \in Nat, NEW q \in Nat, NEW r \in 0 .. d - 1,
           n = d * q + r
    PROVE  n \div d = q /\ n % d = r
  BY DivUnique, Zenon

-----------------------------------------------------------------------------
(* NvmePrp: for every page size and every transfer.                        *)

-----------------------------------------------------------------------------
(* The pages of a transfer.                                                *)

\* Pages rounds up.
LEMMA PagesRoundsUp ==
    ASSUME NEW n \in Nat \ {0}
    PROVE  /\ Pages(n) \in Nat \ {0}
           /\ NVME_PAGE_SIZE * (Pages(n) - 1) < n
           /\ n <= NVME_PAGE_SIZE * Pages(n)
  <1> DEFINE P == NVME_PAGE_SIZE
             q == (n + P - 1) \div P
             r == (n + P - 1) % P
  <1>1. P \in Nat \ {0}
    BY Zenon, PrpAssumption
  <1>2. /\ q \in Nat /\ r \in 0 .. P - 1
        /\ n + P - 1 = P * q + r
    <2>1. n + P - 1 \in Nat
      BY <1>1
    <2> HIDE DEF P
    <2> QED  BY Zenon, <1>1, <2>1, DivMod
  <1>3. q # 0
    BY <1>1, <1>2
  <1>4. P * (q - 1) = P * q - P
    BY <1>1, <1>2
  <1> HIDE DEF q, r
  <1>5. P * (q - 1) < n /\ n <= P * q
    BY <1>1, <1>2, <1>4
  <1> QED  BY Zenon, <1>2, <1>3, <1>5 DEF Pages, q

\* The first page of a transfer ends at a page boundary.
LEMMA FirstPage ==
    ASSUME NEW a \in Nat
    PROVE  FirstPageSize(a) \in 1 .. NVME_PAGE_SIZE
  BY PrpAssumption, DivMod DEF FirstPageSize

\* The pages of a transfer behind its first hold every byte behind it.
LEMMA ByteInPage ==
    ASSUME NEW a \in Nat, NEW size \in Nat, NEW o \in Nat,
           o < size, FirstPageSize(a) <= o
    PROVE  /\ RemainingPages(a, size) \in Nat \ {0}
           /\ (o - FirstPageSize(a)) \div NVME_PAGE_SIZE \in 0 .. RemainingPages(a, size) - 1
  <1> DEFINE P == NVME_PAGE_SIZE
             d == o - FirstPageSize(a)
             m == size - FirstPageSize(a)
             n == Pages(m)
             k == d \div P
  <1>1. P \in Nat \ {0} /\ FirstPageSize(a) \in 1 .. P
    BY Zenon, PrpAssumption, FirstPage
  <1>2. d \in Nat /\ m \in Nat \ {0} /\ d < m
    BY <1>1
  <1>3. RemainingPages(a, size) = n
    BY <1>1 DEF RemainingPages
  <1>4. n \in Nat \ {0} /\ m <= P * n
    BY Zenon, <1>2, PagesRoundsUp
  <1>5. k \in Nat /\ d % P \in 0 .. P - 1 /\ d = P * k + (d % P)
    BY Zenon, <1>1, <1>2, DivMod
  <1> HIDE DEF d, m, n, k
  <1>6. P * k < P * n
    BY <1>1, <1>2, <1>4, <1>5
  <1>7. k < n
    <2>1. ASSUME k >= n PROVE FALSE
      <3>1. P * (k - n) >= 0 /\ P * (k - n) = P * k - P * n
        BY <2>1, <1>1, <1>4, <1>5
      <3> QED  BY <3>1, <1>6, <1>1, <1>4, <1>5
    <2> QED  BY <2>1, <1>4, <1>5
  <1> QED  BY <1>3, <1>4, <1>5, <1>7 DEF k, d

\* What the controller finds behind the first page is what calculatePrps put
\* there: the page at hand, whether it is in PRP2 or in the list.
LEMMA PrpTranslates ==
    ASSUME NEW a \in Nat, NEW size \in Nat, NEW place \in Nat, place # nullptr, NEW dma, NEW pages,
           NEW pageOff,
           RemainingPages(a, size) <= prpListEntriesPerPage,
           NEW o \in Nat, o < size
    PROVE  PrpByte(calculatePrps(a, size, place, dma, pages, pageOff), size, o) =
               IF o < FirstPageSize(a) THEN a + o
               ELSE PageBehindFirst(a, pages, pageOff, (o - FirstPageSize(a)) \div NVME_PAGE_SIZE)
                        + ((o - FirstPageSize(a)) % NVME_PAGE_SIZE)
  <1> DEFINE first == FirstPageSize(a)
             n == RemainingPages(a, size)
             k == (o - first) \div NVME_PAGE_SIZE
             within == (o - first) % NVME_PAGE_SIZE
             Page(i) == PageBehindFirst(a, pages, pageOff, i)
             prps == calculatePrps(a, size, place, dma, pages, pageOff)
  <1>1. PrpByte(prps, size, o) =
            IF o < first THEN a + o
            ELSE IF n = 1 THEN prps.prp2 + within
            ELSE prps.list[k + 1] + within
    <2>1. prps.prp1 = a
      BY Zenon DEF calculatePrps
    <2> QED  BY Zenon, <2>1 DEF PrpByte
  <1>2. first \in Nat
    BY FirstPage, PrpAssumption
  <1>3. CASE o < first
    BY Zenon, <1>1, <1>3
  <1>4. CASE first <= o
    <2>1. n \in Nat \ {0} /\ k \in 0 .. n - 1
      BY Zenon, <1>4, ByteInPage
    <2>2. NumRemainingPages(a, size) = n
      BY <2>1, PrpAssumption DEF NumRemainingPages, prpListEntriesPerPage, EntryBytes
    <2>3. CASE n = 1
      <3>1. prps.prp2 = Page(0)
        BY <2>2, <2>3 DEF calculatePrps
      <3>2. k = 0
        BY <2>1, <2>3
      <3> QED  BY Zenon, <1>1, <1>2, <1>4, <2>3, <3>1, <3>2
    <2>4. CASE n > 1
      <3>1. prps.list = [j \in 1 .. n |-> Page(j - 1)]
        BY Zenon, <2>1, <2>2, <2>4 DEF calculatePrps
      <3>2. k + 1 \in 1 .. n /\ (k + 1) - 1 = k
        BY <2>1
      <3>3. prps.list[k + 1] = Page(k)
        BY Zenon, <3>1, <3>2
      <3> QED  BY <1>1, <1>2, <1>4, <2>1, <2>4, <3>3
    <2> QED  BY <2>1, <2>3, <2>4
  <1> QED  BY <1>2, <1>3, <1>4

\* Every byte of a transfer in a contiguous buffer is where the buffer has it
\* (calculatePrps), if the pages behind the first fit in one list.
THEOREM ContiguousTransfer ==
    ASSUME NEW a \in Nat, NEW size \in Nat, NEW place \in Nat, place # nullptr, NEW dma, NEW pageOff,
           RemainingPages(a, size) <= prpListEntriesPerPage,
           NEW o \in Nat, o < size
    PROVE  PrpByte(calculatePrps(a, size, place, dma, Contiguous, pageOff), size, o) = a + o
  <1> DEFINE first == FirstPageSize(a)
             k == (o - first) \div NVME_PAGE_SIZE
             within == (o - first) % NVME_PAGE_SIZE
  <1>1. first \in Nat /\ NVME_PAGE_SIZE \in Nat \ {0}
    BY FirstPage, PrpAssumption
  <1>2. PrpByte(calculatePrps(a, size, place, dma, Contiguous, pageOff), size, o) =
            IF o < first THEN a + o ELSE a + first + k * NVME_PAGE_SIZE + within
    BY PrpTranslates DEF PageBehindFirst
  <1>3. CASE o >= first
    <2>1. o - first \in Nat
      BY <1>1, <1>3
    <2>2. PICK j \in Nat, s \in 0 .. NVME_PAGE_SIZE - 1 :
              j = k /\ s = within /\ o - first = NVME_PAGE_SIZE * j + s
      <3> HIDE DEF first
      <3>1. /\ k \in Nat /\ within \in 0 .. NVME_PAGE_SIZE - 1
            /\ o - first = NVME_PAGE_SIZE * k + within
        BY <1>1, <2>1, DivMod, Zenon
      <3> QED  BY <3>1, Zenon
    <2>3. j * NVME_PAGE_SIZE = NVME_PAGE_SIZE * j
      BY <1>1, <2>2
    <2>4. PrpByte(calculatePrps(a, size, place, dma, Contiguous, pageOff), size, o) =
              a + first + j * NVME_PAGE_SIZE + s
      BY <1>1, <1>2, <1>3, <2>2
    <2>5. PICK f \in Nat : f = first
      BY Zenon, <1>1
    <2>6. o - f = j * NVME_PAGE_SIZE + s
      BY Zenon, <2>2, <2>3, <2>5
    <2>7. PICK x \in Nat : x = j * NVME_PAGE_SIZE
      BY <1>1
    <2>8. a + f + x + s = a + o
      BY <2>6, <2>7
    <2> QED  BY Zenon, <2>4, <2>5, <2>7, <2>8
  <1> QED  BY <1>1, <1>2, <1>3

\* Every byte of a transfer in a buffer of scattered pages is where the pages
\* have it, whatever its first byte (calculatePrps, and the addresses of the
\* driveEndpoint loops), if the pages behind the first fit in one list.
THEOREM ScatteredTransfer ==
    ASSUME NEW pages \in [Nat -> Nat], pages # Contiguous,
           \A i \in Nat : pages[i] % NVME_PAGE_SIZE = 0,
           NEW base, NEW off \in Nat, NEW size \in Nat, NEW place \in Nat, place # nullptr, NEW dma,
           RemainingPages(BufferAddr(base, pages, off), size) <= prpListEntriesPerPage,
           NEW o \in Nat, o < size
    PROVE  PrpByte(calculatePrps(BufferAddr(base, pages, off), size, place, dma, pages,
                                 off \div NVME_PAGE_SIZE), size, o)
               = BufferAddr(base, pages, off + o)
  <1> DEFINE P == NVME_PAGE_SIZE
             a == BufferAddr(base, pages, off)
             Prps == calculatePrps(a, size, place, dma, pages, off \div P)
  <1>1. P \in Nat \ {0}
    BY Zenon, PrpAssumption
  <1>2. PICK q \in Nat, r \in 0 .. P - 1 : q = off \div P /\ r = off % P /\ off = P * q + r
    BY <1>1, DivPick, Zenon
  <1>3. a = pages[q] + r /\ a \in Nat
    BY <1>1, <1>2 DEF BufferAddr
  <1>4. PICK first \in Nat : first = FirstPageSize(a) /\ first = P - r
    <2>1. PICK x \in Nat : x = pages[q] /\ x % P = 0
      BY Zenon, <1>2
    <2>2. PICK y \in Nat : x = P * y
      <3>1. x \div P \in Nat /\ x = P * (x \div P) + (x % P)
        BY Zenon, <1>1, DivMod
      <3>2. x = P * (x \div P)
        BY <1>1, <2>1, <3>1
      <3> QED  BY <3>1, <3>2, Zenon
    <2>3. (P * y + r) % P = r
      BY Zenon, <1>1, <2>2, DivUnique
    <2>4. a = P * y + r
      BY Zenon, <1>3, <2>1, <2>2
    <2>5. FirstPageSize(a) = P - r
      BY <2>3, <2>4, Zenon DEF FirstPageSize
    <2>6. P - r \in Nat
      BY <1>1
    <2> QED  BY <2>5, <2>6, Zenon
  <1>5. PrpByte(Prps, size, o) =
            IF o < first THEN a + o
            ELSE pages[q + 1 + ((o - first) \div P)] + ((o - first) % P)
    <2>1. PrpByte(Prps, size, o) =
              IF o < FirstPageSize(a) THEN a + o
              ELSE PageBehindFirst(a, pages, off \div P, (o - FirstPageSize(a)) \div P)
                       + ((o - FirstPageSize(a)) % P)
      <3>1. RemainingPages(a, size) <= prpListEntriesPerPage
        BY Zenon
      <3> HIDE DEF a
      <3>2. PICK x \in Nat : x = a
        BY Zenon, <1>3
      <3>4. PICK y : y = off \div P
        OBVIOUS
      <3>3. PrpByte(calculatePrps(x, size, place, dma, pages, y), size, o) =
                IF o < FirstPageSize(x) THEN x + o
                ELSE PageBehindFirst(x, pages, y, (o - FirstPageSize(x)) \div P)
                         + ((o - FirstPageSize(x)) % P)
        BY SMTT(30), <3>1, <3>2, PrpTranslates
      <3> QED  BY Zenon, <3>2, <3>3, <3>4
    <2>2. PageBehindFirst(a, pages, off \div P, (o - first) \div P)
              = pages[q + 1 + ((o - first) \div P)]
      BY Zenon, <1>2 DEF PageBehindFirst
    <2> QED  BY <1>4, <2>1, <2>2, Zenon
  <1>6. BufferAddr(base, pages, off + o) = pages[(off + o) \div P] + ((off + o) % P)
    BY Zenon DEF BufferAddr
  <1>7. CASE o < first
    <2>1. PICK s \in 0 .. P - 1 : s = r + o
      BY <1>1, <1>4, <1>7
    <2>2. off + o \in Nat /\ off + o = P * q + s
      <3>1. off = P * q + r
        BY Zenon, <1>2
      <3> QED  BY <1>1, <2>1, <3>1
    <2>3. (off + o) \div P = q /\ (off + o) % P = s
      BY <1>1, <2>2, DivIs, Zenon
    <2>4. PrpByte(Prps, size, o) = (pages[q] + r) + o
      BY Zenon, <1>3, <1>5, <1>7
    <2>5. BufferAddr(base, pages, off + o) = pages[q] + s
      BY Zenon, <1>6, <2>3
    <2>6. PICK x \in Nat : x = pages[q]
      BY Zenon
    <2> QED  BY <2>1, <2>4, <2>5, <2>6
  <1>8. CASE ~(o < first)
    <2>1. PICK x \in Nat : x = o - first
      BY <1>4, <1>8
    <2>2. PICK k \in Nat, s \in 0 .. P - 1 : k = x \div P /\ s = x % P /\ x = P * k + s
      BY <1>1, DivPick, Zenon
    <2>3. PICK j \in Nat : j = q + 1 + k
      OBVIOUS
    <2>4. P * j = P * q + P + P * k
      BY <1>1, <2>3
    <2>5. off + o \in Nat /\ off + o = P * j + s
      <3>1. off = P * q + r
        BY Zenon, <1>2
      <3>2. x = P * k + s
        BY Zenon, <2>2
      <3>3. o = (P - r) + x
        BY <1>1, <1>4, <2>1
      <3> QED  BY <1>1, <2>4, <3>1, <3>2, <3>3
    <2>6. (off + o) \div P = j /\ (off + o) % P = s
      BY <1>1, <2>5, DivIs, Zenon
    <2>7. PrpByte(Prps, size, o) = pages[q + 1 + k] + s
      BY Zenon, <1>5, <1>8, <2>1, <2>2
    <2> QED  BY Zenon, <1>6, <2>3, <2>6, <2>7
  <1> QED  BY Zenon, <1>7, <1>8

\* The pages of a transfer that starts at a page boundary fit in one list if
\* run() admits its size: xfer_pages is at most one more than a list holds.
THEOREM AlignedFits ==
    ASSUME NEW a \in Nat, a % NVME_PAGE_SIZE = 0, NEW size \in Nat \ {0},
           Pages(size) <= prpListEntriesPerPage + 1
    PROVE  RemainingPages(a, size) <= prpListEntriesPerPage
  <1> DEFINE P == NVME_PAGE_SIZE
  <1>1. P \in Nat \ {0} /\ FirstPageSize(a) = P
    BY PrpAssumption DEF FirstPageSize
  <1>2. prpListEntriesPerPage \in Nat
    BY <1>1, DivMod DEF prpListEntriesPerPage, EntryBytes
  <1>3. CASE size <= P
    BY <1>1, <1>2, <1>3 DEF RemainingPages
  <1>4. CASE size > P
    <2>1. PICK m \in Nat \ {0} : m = size - P
      BY <1>1, <1>4
    <2>2. RemainingPages(a, size) = Pages(m)
      BY <1>1, <1>4, <2>1 DEF RemainingPages
    <2>3. PICK n \in Nat \ {0} : n = Pages(m) /\ P * (n - 1) < m
      BY PagesRoundsUp, Zenon
    <2>4. PICK w \in Nat \ {0} : w = Pages(size) /\ size <= P * w
      BY PagesRoundsUp, Zenon
    <2>5. P * n < P * w
      <3>1. P * (n - 1) = P * n - P
        BY <1>1
      <3> QED  BY <1>1, <2>1, <2>3, <2>4, <3>1
    <2>6. n < w
      <3>1. ASSUME n >= w PROVE FALSE
        <4>1. P * (n - w) >= 0 /\ P * (n - w) = P * n - P * w
          BY <1>1, <3>1
        <4> QED  BY <1>1, <2>5, <4>1
      <3> QED  BY <3>1
    <2> QED  BY <1>2, <2>2, <2>3, <2>4, <2>6
  <1> QED  BY <1>1, <1>3, <1>4

\* A transfer that starts at a page boundary, in m pages, has fewer pages behind
\* its first.
LEMMA FewerBehindFirst ==
    ASSUME NEW a \in Nat, a % NVME_PAGE_SIZE = 0, NEW m \in Nat \ {0},
           NEW size \in Nat \ {0}, size <= NVME_PAGE_SIZE * m
    PROVE  RemainingPages(a, size) \in 0 .. m - 1
  <1> DEFINE P == NVME_PAGE_SIZE
  <1>1. P \in Nat \ {0} /\ FirstPageSize(a) = P
    BY PrpAssumption DEF FirstPageSize
  <1>2. CASE size <= P
    BY <1>1, <1>2 DEF RemainingPages
  <1>3. CASE size > P
    <2>1. PICK x \in Nat \ {0} : x = size - P
      BY <1>1, <1>3
    <2>2. RemainingPages(a, size) = Pages(x)
      BY <1>1, <1>3, <2>1 DEF RemainingPages
    <2>3. PICK n \in Nat \ {0} : n = Pages(x) /\ P * (n - 1) < x
      BY PagesRoundsUp, Zenon
    <2>4. P * n < P * m
      <3>1. P * (n - 1) = P * n - P
        BY <1>1
      <3> QED  BY <1>1, <2>1, <2>3, <3>1
    <2>5. n < m
      <3>1. ASSUME n >= m PROVE FALSE
        <4>1. P * (n - m) >= 0 /\ P * (n - m) = P * n - P * m
          BY <1>1, <3>1
        <4> QED  BY <1>1, <2>4, <4>1
      <3> QED  BY <3>1
    <2> QED  BY <2>2, <2>3, <2>5
  <1> QED  BY <1>1, <1>2, <1>3

\* The list the fio engine left for a slot has the pages calculatePrps would
\* have stored for a transfer of the slot, at any place.
LEMMA PrefilledBytes ==
    ASSUME NEW base \in Nat, NEW pages, NEW m \in Nat \ {0}, NEW s \in Nat, NEW a \in Nat,
           a % NVME_PAGE_SIZE = 0,
           pages = Contiguous => a = base + s * m * NVME_PAGE_SIZE,
           NEW size \in Nat, size <= NVME_PAGE_SIZE * m, NEW dma,
           RemainingPages(a, size) <= prpListEntriesPerPage,
           NEW o \in Nat, o < size, NEW c \in Nat, c = s * m,
           NEW place \in Nat, place # nullptr
    PROVE  PrpByte([calculatePrps(a, size, nullptr, dma, pages, c)
                       EXCEPT !.list = rxio_prp_prefill(pages, base, m, s)], size, o)
               = PrpByte(calculatePrps(a, size, place, dma, pages, c), size, o)
  <1> DEFINE P == NVME_PAGE_SIZE
             list == rxio_prp_prefill(pages, base, m, s)
             left == [calculatePrps(a, size, nullptr, dma, pages, c) EXCEPT !.list = list]
             stored == calculatePrps(a, size, place, dma, pages, c)
             first == FirstPageSize(a)
             n == RemainingPages(a, size)
             k == (o - first) \div P
             within == (o - first) % P
  <1>1. P \in Nat \ {0} /\ size \in Nat \ {0} /\ FirstPageSize(a) = P
    BY PrpAssumption DEF FirstPageSize
  <1>2. n \in 0 .. m - 1
    BY Zenon, <1>1, FewerBehindFirst
  <1>3. left.prp1 = stored.prp1 /\ left.prp2 = stored.prp2 /\ left.list = list /\ stored.prp1 = a
    BY DEF calculatePrps
  <1>11. ASSUME NEW i \in Nat, i + 1 <= m - 1, i + 1 <= prpListEntriesPerPage
         PROVE  list[i + 1] = PageBehindFirst(a, pages, c, i)
    <2> DEFINE z == IF m - 1 > prpListEntriesPerPage THEN prpListEntriesPerPage ELSE m - 1
    <2>1. i + 1 \in 1 .. z
      BY <1>11, PrpAssumption DEF prpListEntriesPerPage, EntryBytes
    <2>2. list[i + 1] = IF pages = Contiguous THEN base + s * m * P + (i + 1) * P
                        ELSE pages[s * m + (i + 1)]
      BY Zenon, <2>1 DEF rxio_prp_prefill
    <2>3. CASE pages = Contiguous
      <3>1. (i + 1) * P = P + i * P
        BY <1>1
      <3>2. PICK x \in Nat : x = i * P
        BY <1>1
      <3>3. a + (P + x) = a + P + x
        BY <1>1
      <3>4. list[i + 1] = a + (P + x)
        BY Zenon, <2>2, <2>3, <3>1, <3>2
      <3>5. PageBehindFirst(a, pages, c, i) = a + P + x
        BY Zenon, <1>1, <2>3, <3>2 DEF PageBehindFirst
      <3> QED  BY Zenon, <3>3, <3>4, <3>5
    <2>4. CASE pages # Contiguous
      <3>1. c + (i + 1) = c + 1 + i
        OBVIOUS
      <3>2. list[i + 1] = pages[c + (i + 1)]
        BY Zenon, <2>2, <2>4
      <3>3. PageBehindFirst(a, pages, c, i) = pages[c + 1 + i]
        BY Zenon, <2>4 DEF PageBehindFirst
      <3> QED  BY Zenon, <3>1, <3>2, <3>3
    <2> QED  BY Zenon, <2>3, <2>4
  <1>4. ASSUME first <= o, n # 1
        PROVE  list[k + 1] = stored.list[k + 1]
    <2>1. n \in Nat \ {0} /\ k \in 0 .. n - 1
      BY Zenon, <1>4, ByteInPage
    <2>2. NumRemainingPages(a, size) = n /\ n > 1
      BY <1>4, <2>1, PrpAssumption DEF NumRemainingPages, prpListEntriesPerPage, EntryBytes
    <2>3. stored.list = [j \in 1 .. n |-> PageBehindFirst(a, pages, c, j - 1)]
      BY Zenon, <1>1, <2>2 DEF calculatePrps
    <2>4. /\ k \in Nat /\ k + 1 \in 1 .. n /\ (k + 1) - 1 = k /\ k + 1 <= m - 1
          /\ k + 1 <= prpListEntriesPerPage
      BY <1>2, <2>1, PrpAssumption DEF prpListEntriesPerPage, EntryBytes
    <2>5. stored.list[k + 1] = PageBehindFirst(a, pages, c, k)
      BY Zenon, <2>3, <2>4
    <2>6. list[k + 1] = PageBehindFirst(a, pages, c, k)
      BY Zenon, <1>11, <2>4
    <2> QED  BY Zenon, <2>5, <2>6
  <1>5. ASSUME NEW prps, prps.prp1 = a
        PROVE  PrpByte(prps, size, o) =
                   IF o < first THEN a + o
                   ELSE IF n = 1 THEN prps.prp2 + within ELSE prps.list[k + 1] + within
    BY Zenon, <1>5 DEF PrpByte
  <1>6. first \in Nat
    BY FirstPage, PrpAssumption
  <1> HIDE DEF left, stored, first, n, k, within, list
  <1>7. /\ PrpByte(left, size, o) =
               IF o < first THEN a + o
               ELSE IF n = 1 THEN left.prp2 + within ELSE left.list[k + 1] + within
        /\ PrpByte(stored, size, o) =
               IF o < first THEN a + o
               ELSE IF n = 1 THEN stored.prp2 + within ELSE stored.list[k + 1] + within
    BY Zenon, <1>3, <1>5
  <1>8. CASE o < first
    BY Zenon, <1>7, <1>8 DEF left, stored, list
  <1>9. CASE ~(o < first) /\ n = 1
    BY Zenon, <1>3, <1>7, <1>9 DEF left, stored, list
  <1>10. CASE ~(o < first) /\ n # 1
    <2>1. first <= o
      BY <1>6, <1>10
    <2>2. list[k + 1] = stored.list[k + 1]
      BY Zenon, <1>4, <1>10, <2>1
    <2>3. PrpByte(left, size, o) = PrpByte(stored, size, o)
      BY Zenon, <1>3, <1>7, <1>10, <2>2
    <2> QED  BY Zenon, <2>3 DEF left, stored, list
  <1> QED  BY Zenon, <1>8, <1>9, <1>10

\* A slot of whole pages starts at a page.
LEMMA SlotStarts ==
    ASSUME NEW m \in Nat \ {0}, NEW s \in Nat
    PROVE  \E off \in Nat, c \in Nat :
               /\ off = s * m * NVME_PAGE_SIZE /\ c = s * m /\ off = NVME_PAGE_SIZE * c
               /\ off \div NVME_PAGE_SIZE = c /\ off % NVME_PAGE_SIZE = 0
  <1> DEFINE P == NVME_PAGE_SIZE
  <1>1. P \in Nat \ {0}
    BY Zenon, PrpAssumption
  <1>2. PICK c \in Nat : c = s * m
    OBVIOUS
  <1>3. PICK off \in Nat : off = c * P
    BY <1>1
  <1>4. off = P * c /\ off = P * c + 0 /\ 0 \in 0 .. P - 1
    BY <1>1, <1>3
  <1>5. off \div P = c /\ off % P = 0
    BY Zenon, <1>1, <1>4, DivIs
  <1> QED  BY Zenon, <1>2, <1>3, <1>4, <1>5

\* A transfer of the persistent kernel finds every byte of its slot where the
\* buffer has it, by the list rxio_prp_prefill stored before the kernel ran
\* (calculatePrps is given no place for a list and stores none), for the slots
\* of whole pages rxio_setup makes and a buffer that starts at a page.
THEOREM PrefilledContiguous ==
    ASSUME NEW base \in Nat, base % NVME_PAGE_SIZE = 0, NEW m \in Nat \ {0}, NEW s \in Nat,
           NEW a \in Nat, a = BufferAddr(base, Contiguous, s * m * NVME_PAGE_SIZE),
           NEW size \in Nat, size <= NVME_PAGE_SIZE * m, NEW dma,
           RemainingPages(a, size) <= prpListEntriesPerPage,
           NEW o \in Nat, o < size
    PROVE  PrpByte([calculatePrps(a, size, nullptr, dma, Contiguous, s * m)
                       EXCEPT !.list = rxio_prp_prefill(Contiguous, base, m, s)], size, o)
               = a + o
  <1> DEFINE P == NVME_PAGE_SIZE
  <1>1. P \in Nat \ {0}
    BY Zenon, PrpAssumption
  <1>7. PICK place \in Nat : place # nullptr
    BY DEF nullptr
  <1>2. PICK off \in Nat, c \in Nat :
            /\ off = s * m * P /\ c = s * m /\ off = P * c
            /\ off \div P = c /\ off % P = 0
    BY SlotStarts
  <1>3. a = base + off
    BY Zenon, <1>2 DEF BufferAddr
  <1>4. a % P = 0
    <2>1. PICK y \in Nat : base = P * y
      <3>1. base \div P \in Nat /\ base = P * (base \div P) + (base % P)
        BY Zenon, <1>1, DivMod
      <3>2. base = P * (base \div P)
        BY <1>1, <3>1
      <3> QED  BY Zenon, <3>1, <3>2
    <2>2. PICK d \in Nat : d = y + c
      OBVIOUS
    <2>3. P * d = P * y + P * c
      BY <1>1, <2>2
    <2>4. a = P * d + 0 /\ 0 \in 0 .. P - 1
      BY <1>1, <1>2, <1>3, <2>1, <2>3
    <2> QED  BY Zenon, <1>1, <2>2, <2>4, DivIs
  <1>5. PrpByte([calculatePrps(a, size, nullptr, dma, Contiguous, c)
                    EXCEPT !.list = rxio_prp_prefill(Contiguous, base, m, s)], size, o)
            = PrpByte(calculatePrps(a, size, place, dma, Contiguous, c), size, o)
    <2>1. a = base + s * m * P
      BY Zenon, <1>2, <1>3
    <2> QED  BY <1>2, <1>4, <1>7, <2>1, PrefilledBytes
  <1>6. PrpByte(calculatePrps(a, size, place, dma, Contiguous, c), size, o) = a + o
    BY <1>7, ContiguousTransfer
  <1> QED  BY Zenon, <1>2, <1>5, <1>6

\* The same for a buffer of scattered pages.
THEOREM PrefilledScattered ==
    ASSUME NEW pages \in [Nat -> Nat], pages # Contiguous,
           \A i \in Nat : pages[i] % NVME_PAGE_SIZE = 0,
           NEW base \in Nat, NEW m \in Nat \ {0}, NEW s \in Nat,
           NEW a \in Nat, a = BufferAddr(base, pages, s * m * NVME_PAGE_SIZE),
           NEW size \in Nat, size <= NVME_PAGE_SIZE * m, NEW dma,
           RemainingPages(a, size) <= prpListEntriesPerPage,
           NEW o \in Nat, o < size
    PROVE  PrpByte([calculatePrps(a, size, nullptr, dma, pages, s * m)
                       EXCEPT !.list = rxio_prp_prefill(pages, base, m, s)], size, o)
               = BufferAddr(base, pages, s * m * NVME_PAGE_SIZE + o)
  <1> DEFINE P == NVME_PAGE_SIZE
  <1>1. P \in Nat \ {0}
    BY Zenon, PrpAssumption
  <1>7. PICK place \in Nat : place # nullptr
    BY DEF nullptr
  <1>2. PICK off \in Nat, c \in Nat :
            /\ off = s * m * P /\ c = s * m /\ off = P * c
            /\ off \div P = c /\ off % P = 0
    BY SlotStarts
  <1>3. a = BufferAddr(base, pages, off)
    BY Zenon, <1>2
  <1>4. a % P = 0
    <2>1. a = pages[c] + 0
      BY Zenon, <1>2, <1>3 DEF BufferAddr
    <2>2. PICK x \in Nat : x = pages[c] /\ x % P = 0
      BY Zenon, <1>2
    <2>3. a = x
      BY <2>1, <2>2
    <2> QED  BY Zenon, <2>2, <2>3
  <1>5. PrpByte([calculatePrps(a, size, nullptr, dma, pages, c)
                    EXCEPT !.list = rxio_prp_prefill(pages, base, m, s)], size, o)
            = PrpByte(calculatePrps(a, size, place, dma, pages, c), size, o)
    BY <1>2, <1>4, <1>7, PrefilledBytes
  <1>6. PrpByte(calculatePrps(BufferAddr(base, pages, off), size, place, dma, pages, off \div P),
                size, o) = BufferAddr(base, pages, off + o)
    <2>1. RemainingPages(BufferAddr(base, pages, off), size) <= prpListEntriesPerPage
      BY Zenon, <1>3
    <2>2. ASSUME NEW q \in Nat, NEW z, z = BufferAddr(base, pages, q),
                 RemainingPages(z, size) <= prpListEntriesPerPage
          PROVE  PrpByte(calculatePrps(z, size, place, dma, pages, q \div P), size, o)
                     = BufferAddr(base, pages, q + o)
      BY <1>7, <2>2, ScatteredTransfer
    <2> QED  BY Zenon, <2>1, <2>2
  <1> QED  BY Zenon, <1>2, <1>3, <1>5, <1>6

-----------------------------------------------------------------------------
(* The PRP lists of the pool.                                              *)

\* The physical address of a byte of a page.
LEMMA PhysAt ==
    ASSUME NEW frames, NEW n \in Nat, NEW d \in Nat, NEW j \in 0 .. NVME_PAGE_SIZE - 1,
           n = NVME_PAGE_SIZE * d + j
    PROVE  getPhysAddr(frames, n) = frames[d] + j
  <1>1. n \div NVME_PAGE_SIZE = d /\ n % NVME_PAGE_SIZE = j
    BY Zenon, PrpAssumption, DivIs
  <1> QED  BY Zenon, <1>1 DEF getPhysAddr

\* Entry k of a list, by the words of its slot.
LEMMA EntryInSlot ==
    ASSUME NEW e \in Nat, NEW slot \in Nat, NEW k \in Nat
    PROVE  (slot * e + k) * EntryBytes = slot * e * EntryBytes + k * EntryBytes
  <1>1. PICK x \in Nat : x = slot * e
    OBVIOUS
  <1>2. (x + k) * EntryBytes = x * EntryBytes + k * EntryBytes
    BY DEF EntryBytes
  <1> QED  BY Zenon, <1>1, <1>2

\* The word offset of a list is its slot, as many lists on.
LEMMA OffsetIsSlot ==
    ASSUME NEW p, NEW e \in Nat, e = p.prpEntriesPerCmd, NEW b \in Nat, NEW w \in BOOLEAN
    PROVE  /\ nvmePrpListDmaSlotIndex(p, b, w) \in Nat
           /\ nvmePrpListWordOffset(p, b, w) = nvmePrpListDmaSlotIndex(p, b, w) * e
  <1> DEFINE m == nvmePrpSlotsPerBatchVal(p)
             slot == nvmePrpListDmaSlotIndex(p, b, w)
  <1>1. m = 1 \/ m = 2
    BY Zenon DEF nvmePrpSlotsPerBatchVal
  <1>2. CASE m = 1
    BY <1>2 DEF nvmePrpListWordOffset, nvmePrpListDmaSlotIndex
  <1>3. CASE m = 2 /\ w
    <2>1. slot = b * 2 + 1 /\ nvmePrpListWordOffset(p, b, w) = b * 2 * e + e
      BY <1>3 DEF nvmePrpListWordOffset, nvmePrpListDmaSlotIndex
    <2>2. (b * 2 + 1) * e = b * 2 * e + e
      OBVIOUS
    <2> QED  BY <2>1, <2>2
  <1>4. CASE m = 2 /\ ~w
    BY <1>4 DEF nvmePrpListWordOffset, nvmePrpListDmaSlotIndex
  <1> QED  BY Zenon, <1>1, <1>2, <1>3, <1>4

\* The kernel writes a list where the entry says it is, wherever the pages of
\* the pool lie: entry k of the list of a command, at the word offset the kernel
\* adds to the pool's virtual address, is k entries behind the DMA address of
\* the slot that run() looked up for PRP2 (nvmePrpListWordOffset,
\* nvmePrpListDmaSlotIndex, prpListDmaForSlot, and page_dmas in run()).
THEOREM ListWhereNamed ==
    ASSUME NEW frames \in [Nat -> Nat], NEW pool \in Nat, pool % NVME_PAGE_SIZE = 0,
           NEW batch \in Nat, NEW mul \in {1, 2}, NEW b \in 0 .. batch - 1, NEW w \in BOOLEAN,
           NEW k \in 0 .. prpListEntriesPerPage - 1
    PROVE  LET p == QueuePool(frames, pool, batch, mul)
           IN  getPhysAddr(frames, pool + (nvmePrpListWordOffset(p, b, w) + k) * EntryBytes)
                   = prpListDmaForSlot(p, nvmePrpListDmaSlotIndex(p, b, w)) + k * EntryBytes
  <1> DEFINE P == NVME_PAGE_SIZE
             p == QueuePool(frames, pool, batch, mul)
             e == prpListEntriesPerPage
  <1>1. P \in Nat \ {0} /\ e \in Nat /\ e * EntryBytes = P /\ b \in Nat /\ k \in Nat
    BY PrpAssumption DEF prpListEntriesPerPage, EntryBytes
  <1>2. PICK q \in Nat : pool = P * q
    <2>1. pool \div P \in Nat /\ pool = P * (pool \div P) + (pool % P)
      BY ZenonT(30), <1>1, DivMod
    <2>2. pool = P * (pool \div P)
      BY <1>1, <2>1
    <2> QED  BY Zenon, <2>1, <2>2
  <1>3. PICK slot \in Nat : /\ slot = nvmePrpListDmaSlotIndex(p, b, w)
                            /\ nvmePrpListWordOffset(p, b, w) = slot * e
    <2>1. e = p.prpEntriesPerCmd
      BY Zenon DEF QueuePool
    <2> HIDE DEF p, e
    <2>2. /\ nvmePrpListDmaSlotIndex(p, b, w) \in Nat
          /\ nvmePrpListWordOffset(p, b, w) = nvmePrpListDmaSlotIndex(p, b, w) * e
      BY <1>1, <2>1, OffsetIsSlot
    <2> QED  BY Zenon, <2>2
  <1>4. slot \in 0 .. batch * mul - 1
    <2>1. p.prpSlotsPerBatch = mul
      BY Zenon DEF QueuePool
    <2>2. nvmePrpSlotsPerBatchVal(p) = mul
      BY <2>1 DEF nvmePrpSlotsPerBatchVal
    <2>3. CASE mul = 1
      BY <1>3, <2>2, <2>3 DEF nvmePrpListDmaSlotIndex
    <2>4. CASE mul = 2
      BY <1>3, <2>2, <2>4 DEF nvmePrpListDmaSlotIndex
    <2> QED  BY Zenon, <2>3, <2>4
  <1>5. ASSUME NEW j \in 0 .. P - 1
        PROVE  getPhysAddr(frames, pool + slot * P + j) = frames[q + slot] + j
    <2>1. PICK n \in Nat, d \in Nat : n = pool + slot * P + j /\ d = q + slot
      BY <1>1
    <2>2. P * d = P * q + slot * P
      BY <1>1, <2>1
    <2>3. n = P * d + j
      <3>1. PICK x \in Nat, y \in Nat : x = P * q /\ y = slot * P
        BY <1>1
      <3> QED  BY <1>1, <1>2, <2>1, <2>2, <3>1
    <2>4. getPhysAddr(frames, n) = frames[d] + j
      BY <2>1, <2>3, PhysAt
    <2> QED  BY Zenon, <2>1, <2>4
  <1>6. slot * e * EntryBytes = slot * P
    <2>1. slot * e * EntryBytes = slot * (e * EntryBytes)
      BY <1>1 DEF EntryBytes
    <2> QED  BY Zenon, <1>1, <2>1
  <1>7. PICK f \in Nat, x \in Nat : f = frames[q + slot] /\ x = slot * P
    BY <1>1
  <1>8. prpListDmaForSlot(p, slot) = f
    <2>1. p.prpListPageDmas = [s \in 0 .. batch * mul - 1 |->
                                  getPhysAddr(frames, pool + s * e * EntryBytes)]
      BY Zenon DEF QueuePool
    <2>2. p.prpListPageDmas[slot] = getPhysAddr(frames, pool + slot * P)
      BY Zenon, <1>4, <1>6, <2>1
    <2>3. p.prpListPageDmas # Contiguous
      <3>1. DOMAIN p.prpListPageDmas = 0 .. batch * mul - 1
        BY Zenon, <2>1
      <3>2. slot \notin DOMAIN Contiguous
        BY DEF Contiguous
      <3> QED  BY Zenon, <1>4, <3>1, <3>2
    <2>4. pool + slot * P = pool + slot * P + 0 /\ 0 \in 0 .. P - 1 /\ f + 0 = f
      BY <1>1, <1>7
    <2>5. getPhysAddr(frames, pool + slot * P + 0) = f + 0
      BY Zenon, <1>5, <1>7, <2>4
    <2> QED  BY Zenon, <2>2, <2>3, <2>4, <2>5 DEF prpListDmaForSlot
  <1>9. getPhysAddr(frames, pool + (slot * e + k) * EntryBytes) = f + k * EntryBytes
    <2>1. k * EntryBytes \in 0 .. P - 1
      BY <1>1 DEF EntryBytes
    <2>2. (slot * e + k) * EntryBytes = slot * P + k * EntryBytes
      <3> HIDE DEF e
      <3>1. (slot * e + k) * EntryBytes = slot * e * EntryBytes + k * EntryBytes
        BY <1>1, EntryInSlot
      <3> QED  BY Zenon, <1>6, <3>1
    <2>3. pool + (slot * P + k * EntryBytes) = pool + slot * P + k * EntryBytes
      BY <1>7, <2>1
    <2> QED  BY Zenon, <1>5, <1>7, <2>1, <2>2, <2>3
  <1> QED  BY Zenon, <1>3, <1>8, <1>9

\* The lists of two commands of a batch do not overlap, nor do those of the
\* read and the write of one place when the pool has both.
THEOREM ListsDisjoint ==
    ASSUME NEW p, NEW e \in Nat, e = p.prpEntriesPerCmd, NEW b \in Nat, NEW c \in Nat,
           NEW v \in BOOLEAN, NEW w \in BOOLEAN,
           b < c \/ (b = c /\ ~v /\ w /\ p.prpSlotsPerBatch = 2)
    PROVE  nvmePrpListWordOffset(p, b, v) + e <= nvmePrpListWordOffset(p, c, w)
  <1> DEFINE x == nvmePrpListDmaSlotIndex(p, b, v)
             y == nvmePrpListDmaSlotIndex(p, c, w)
  <1>1. /\ x \in Nat /\ nvmePrpListWordOffset(p, b, v) = x * e
        /\ y \in Nat /\ nvmePrpListWordOffset(p, c, w) = y * e
    BY ZenonT(30), OffsetIsSlot
  <1>2. x + 1 <= y
    BY DEF nvmePrpListDmaSlotIndex, nvmePrpSlotsPerBatchVal
  <1>3. ASSUME NEW i \in Nat, NEW j \in Nat, i + 1 <= j
        PROVE  i * e + e <= j * e
    <2>1. (j - i - 1) * e >= 0
      BY <1>3
    <2>2. (j - i - 1) * e = j * e - i * e - e
      OBVIOUS
    <2> QED  BY <2>1, <2>2
  <1> QED  BY Zenon, <1>1, <1>2, <1>3

-----------------------------------------------------------------------------
(* The command and the status.                                             *)

\* The controller finds in the entry the blocks of every transfer run() admits:
\* its bound on the pages keeps the number of blocks within the 16 bits of the
\* field, for blocks of which the field's values are enough to fill those pages
\* (33 bytes with pages of 4096); and block 0 is named too, although sqeSetup
\* takes a zero for "leave what is there".
THEOREM CommandNamesBlocks ==
    ASSUME NEW slba \in 0 .. Word32 * Word32 - 1, NEW lbasPerIo \in Nat \ {0},
           NEW lbaSize \in Nat \ {0},
           NVME_PAGE_SIZE * (prpListEntriesPerPage + 1) <= Word16 * lbaSize,
           TransferAccepted(lbasPerIo, lbaSize)
    PROVE  /\ CommandLba(sqeSetup(ZeroSqe, slba, lbasPerIo)) = slba
           /\ CommandBlocks(sqeSetup(ZeroSqe, slba, lbasPerIo)) = lbasPerIo
  <1>1. Word32 \in Nat \ {0} /\ slba \in Nat
    BY PrpAssumption
  <1>2. PICK q \in Nat, r \in 0 .. Word32 - 1 :
            q = slba \div Word32 /\ r = slba % Word32 /\ slba = Word32 * q + r
    BY <1>1, DivPick, Zenon
  <1>3. q < Word32
    <2>1. slba = Word32 * q + r
      BY Zenon, <1>2
    <2>2. ASSUME q >= Word32 PROVE FALSE
      <3>1. Word32 * (q - Word32) >= 0 /\ Word32 * (q - Word32) = Word32 * q - Word32 * Word32
        BY <1>1, <2>2
      <3> QED  BY <1>1, <2>1, <3>1
    <2> QED  BY <1>1, <2>2
  <1>4. q % Word32 = q
    <2>1. q = Word32 * 0 + q /\ q \in 0 .. Word32 - 1 /\ 0 \in Nat
      BY <1>1, <1>3
    <2> QED  BY Zenon, <1>1, <2>1, DivIs
  <1>5. CommandLba(sqeSetup(ZeroSqe, slba, lbasPerIo)) = slba
    <2>1. CASE slba = 0
      BY <1>1, <2>1 DEF CommandLba, sqeSetup, ZeroSqe
    <2>2. CASE slba # 0
      <3>1. CommandLba(sqeSetup(ZeroSqe, slba, lbasPerIo)) = r + Word32 * q
        BY Zenon, <1>2, <1>4, <2>2 DEF CommandLba, sqeSetup
      <3>2. slba = Word32 * q + r
        BY Zenon, <1>2
      <3> QED  BY <1>1, <3>1, <3>2
    <2> QED  BY Zenon, <2>1, <2>2
  <1>6. lbasPerIo <= Word16
    <2>1. PICK n \in Nat \ {0} : n = lbasPerIo * lbaSize
      OBVIOUS
    <2>2. PICK g \in Nat \ {0} : g = Pages(n) /\ n <= NVME_PAGE_SIZE * g
      BY Zenon, PagesRoundsUp
    <2>3. PICK E \in Nat, P \in Nat : E = prpListEntriesPerPage + 1 /\ P = NVME_PAGE_SIZE
      BY PrpAssumption DEF prpListEntriesPerPage, EntryBytes
    <2>4. g <= E
      BY Zenon, <2>1, <2>2, <2>3 DEF TransferAccepted
    <2>5. P * g <= P * E
      <3>1. P * (E - g) >= 0 /\ P * (E - g) = P * E - P * g
        BY <2>4
      <3> QED  BY <3>1
    <2>6. Word16 \in Nat /\ lbasPerIo * lbaSize <= Word16 * lbaSize
      BY <2>1, <2>2, <2>3, <2>5, PrpAssumption
    <2>7. ASSUME lbasPerIo > Word16 PROVE FALSE
      <3>1. (lbasPerIo - Word16) * lbaSize > 0
        BY <2>6, <2>7
      <3>2. (lbasPerIo - Word16) * lbaSize = lbasPerIo * lbaSize - Word16 * lbaSize
        BY <2>6
      <3> QED  BY <2>6, <3>1, <3>2
    <2> QED  BY <2>6, <2>7
  <1>7. (lbasPerIo - 1) % Word16 = lbasPerIo - 1
    <2>1. /\ Word16 \in Nat \ {0} /\ lbasPerIo - 1 = Word16 * 0 + (lbasPerIo - 1)
          /\ lbasPerIo - 1 \in 0 .. Word16 - 1 /\ lbasPerIo - 1 \in Nat /\ 0 \in Nat
      BY <1>6, PrpAssumption
    <2> QED  BY Zenon, <2>1, DivIs
  <1>8. CommandBlocks(sqeSetup(ZeroSqe, slba, lbasPerIo)) = lbasPerIo
    <2>1. sqeSetup(ZeroSqe, slba, lbasPerIo).cdw12 = lbasPerIo - 1
      BY DEF sqeSetup
    <2> QED  BY <1>7, <2>1 DEF CommandBlocks
  <1> QED  BY Zenon, <1>5, <1>8

\* cqeOk looks at the eleven bits of code and type, and at no other: neither
\* the phase nor the bits above make a failure look like a success.
THEOREM OkIsCodeAndType ==
    ASSUME NEW status \in Nat
    PROVE  cqeOk(status) <=> (status \div 2) % 2048 = 0
  BY DEF cqeOk, cqeStatusCode, cqeStatusType

-----------------------------------------------------------------------------
(* NvmeBatch.                                                              *)

\* The launch has one driver: batchSize > 1, the stateful kernel, and the
\* single path with one wavefront.
OneDriver == \A v, w \in Drivers : v = w

-----------------------------------------------------------------------------
(* The inductive invariant.                                                *)

\* What the controller fetched, and what it was told of.
FetchedCount == Len(log) + Len(inflight)
ToldCount == FetchedCount + Distance(fetchHead, sqTailDb)

Consumed(w) == ops_done[w] + polled[w]

\* The entry of the run's k-th operation while its batch is out.
EntryOf(w, k) == [op |-> k, slot |-> k - ops_done[w]]

\* Nothing is at the controller; a batch is.
Between == {"idle", "head", "prepare"}
Waiting == {"first", "spin"}
DriverSteps == Between \union Waiting \union {"polled", "done", "error", "trap"}

QueueTypes ==
    /\ sq \in [Slots -> Commands \union {NoCommand}]
    /\ cq \in [Slots -> [cmd : Commands \union {NoCommand}, ok : BOOLEAN, phase : Phases]]
    /\ sqTailDb \in Slots /\ fetchHead \in Slots
    /\ postTail \in Slots /\ postPhase \in Phases
    /\ inflight \in Seq(Commands)
    /\ log \in Seq([cmd : Commands, ok : BOOLEAN])

DriverTypes ==
    /\ config \in Configs
    /\ pc \in [Drivers -> DriverSteps]
    /\ sq_tail \in [Drivers -> Slots] /\ cq_head \in [Drivers -> Slots]
    /\ expected_phase \in [Drivers -> Phases]
    /\ ops_done \in [Drivers -> Nat] /\ polled \in [Drivers -> Nat]
    /\ prepared \in [Drivers -> SUBSET Slots]
    /\ n_ops \in Slots

\* At most one batch is out, and every index is a count of the run modulo the
\* size of its ring.
CountInv(w) ==
    /\ ops_done[w] <= ToldCount /\ ToldCount <= ops_done[w] + batch_count(w)
    /\ ToldCount <= Total /\ Consumed(w) <= Len(log)
    /\ sq_tail[w] = ToldCount % QueueSize /\ sqTailDb = ToldCount % QueueSize
    /\ fetchHead = FetchedCount % QueueSize
    /\ cq_head[w] = Consumed(w) % QueueSize /\ postTail = Len(log) % QueueSize

\* Where the driver is in its batch.
LoopInv(w) ==
    /\ pc[w] \in Between => ToldCount = ops_done[w] /\ Len(log) = ops_done[w] /\ polled[w] = 0
    /\ pc[w] # "prepare" => prepared[w] = {}
    /\ pc[w] = "prepare" => batch_count(w) > 0 /\ ops_done[w] + batch_count(w) <= Total
    /\ pc[w] \in Waiting => ToldCount = ops_done[w] + batch_count(w) /\ polled[w] < batch_count(w)
    /\ pc[w] = "polled" => ToldCount = ops_done[w] + batch_count(w) /\ polled[w] = batch_count(w)
    /\ pc[w] = "idle" => Stateful /\ state = SavedState(w)
    /\ pc[w] = "head" => ~Stateful

\* The entries that are written, and those the controller has yet to fetch.
SqInv(w) ==
    /\ \A b \in prepared[w] : b < batch_count(w) /\ sq[(ops_done[w] + b) % QueueSize] = SqeOf(w, b)
    /\ \A k \in FetchedCount .. ToldCount - 1 : sq[k % QueueSize] = EntryOf(w, k)

\* What the controller holds is of this batch, each operation once.
HeldInv(w) ==
    /\ \A i \in DOMAIN inflight :
          /\ inflight[i].op \in ops_done[w] .. FetchedCount - 1
          /\ inflight[i] = EntryOf(w, inflight[i].op)
    /\ \A i, j \in DOMAIN inflight : i # j => inflight[i].op # inflight[j].op

\* Everything that was fetched is completed or held.
OnceInv ==
    /\ \A i \in DOMAIN log : log[i].cmd.op \in 0 .. FetchedCount - 1
    /\ \A k \in 0 .. FetchedCount - 1 :
          \/ \E i \in DOMAIN log : log[i].cmd.op = k
          \/ \E i \in DOMAIN inflight : inflight[i].op = k

\* The controller writes one phase up to its tail, and left the other behind;
\* the driver expects the phase of the place it waits at.
PhaseInv(w) ==
    /\ \A s \in Slots : cq[s].phase = IF s < postTail THEN postPhase ELSE 1 - postPhase
    /\ postPhase = IF postTail < cq_head[w] THEN 1 - expected_phase[w] ELSE expected_phase[w]

\* The completions the driver has yet to consume are in the ring.
CqInv(w) ==
    \A k \in Consumed(w) .. Len(log) - 1 : cq[k % QueueSize].ok = log[k + 1].ok

\* One operation at a time: completions come in order, and the ones that were
\* consumed reported success.
SerialInv(w) ==
    ~Stateful /\ config.batchSize = 1 =>
        /\ \A i \in DOMAIN log : log[i].cmd.op = i - 1
        /\ \A i \in 1 .. Consumed(w) : log[i].ok

BatchInv(w) ==
    /\ QueueTypes /\ DriverTypes /\ CountInv(w) /\ LoopInv(w) /\ SqInv(w)
    /\ HeldInv(w) /\ OnceInv /\ PhaseInv(w) /\ CqInv(w) /\ SerialInv(w)

-----------------------------------------------------------------------------
(* Places of a ring.                                                       *)

\* The remainder is the only one below the divisor.
LEMMA ModUnique ==
    ASSUME NEW Q \in Nat \ {0}, NEW i \in Nat, NEW c \in Nat, NEW r \in Nat,
           i = Q * c + r, r < Q
    PROVE  i % Q = r
  BY SMT

\* Going less than a ring further: straight on, or back past the start.
LEMMA ModStep ==
    ASSUME NEW Q \in Nat \ {0}, NEW i \in Nat, NEW k \in 0 .. Q - 1
    PROVE  (i + k) % Q = IF (i % Q) + k < Q THEN (i % Q) + k ELSE (i % Q) + k - Q
  <1>1. PICK c \in Nat, r \in 0 .. Q - 1 : i = Q * c + r /\ r = i % Q
    BY Zenon, DivMod
  <1>2. PICK x \in Nat : x = Q * c
    BY <1>1
  <1>3. i = x + r
    BY Zenon, <1>1, <1>2
  <1>4. CASE r + k < Q
    <2>1. PICK n \in Nat, m \in Nat : n = i + k /\ m = r + k
      BY <1>4
    <2>2. n = x + m
      BY <1>3, <2>1
    <2>3. n = Q * c + m /\ m < Q
      BY Zenon, <1>2, <1>4, <2>1, <2>2
    <2>4. n % Q = m
      BY Zenon, <2>3, ModUnique
    <2> QED
      BY Zenon, <1>1, <1>4, <2>1, <2>4
  <1>5. CASE ~(r + k < Q)
    <2>1. PICK n \in Nat, y \in Nat : n = i + k /\ y = r + k - Q
      BY <1>5
    <2>2. PICK d \in Nat : d = c + 1
      BY <1>1
    <2>3. Q * d = x + Q
      BY <1>2, <2>2
    <2>4. n = (x + Q) + y /\ y < Q
      BY <1>3, <2>1
    <2>5. n = Q * d + y
      BY Zenon, <2>3, <2>4
    <2>6. n % Q = y
      BY Zenon, <2>4, <2>5, ModUnique
    <2> QED
      BY Zenon, <1>1, <1>5, <2>1, <2>6
  <1> QED
    BY Zenon, <1>4, <1>5

\* A number below the divisor is its own remainder.
LEMMA ModSmall ==
    ASSUME NEW Q \in Nat \ {0}, NEW i \in Nat, i < Q
    PROVE  i % Q = i
  BY SMT

-----------------------------------------------------------------------------
(* The model's operators.                                                  *)

LEMMA QueueConstants ==
    /\ QueueSize \in Nat \ {0, 1} /\ QueueSize \in Nat \ {0}
    /\ Slots = 0 .. QueueSize - 1 /\ Slots \subseteq Nat /\ Phases = {0, 1}
    /\ NoCommand \notin Commands
  BY QueueAssumption DEF Slots, Phases

\* The place of a count.
LEMMA PlaceIn ==
    ASSUME NEW i \in Nat
    PROVE  i % QueueSize \in Slots
  BY Zenon, DivMod, QueueConstants

LEMMA PlaceStep ==
    ASSUME NEW i \in Nat, NEW k \in Slots
    PROVE  /\ Advance(i % QueueSize, k) = (i + k) % QueueSize
           /\ (i + k) % QueueSize = IF (i % QueueSize) + k < QueueSize
                                    THEN (i % QueueSize) + k
                                    ELSE (i % QueueSize) + k - QueueSize
<1>1. i % QueueSize \in Slots /\ k \in 0 .. QueueSize - 1
  BY Zenon, PlaceIn, QueueConstants
<1>2. PICK r \in Nat : r = i % QueueSize /\ r < QueueSize
  BY <1>1, QueueConstants
<1>3. (i + k) % QueueSize = IF r + k < QueueSize THEN r + k ELSE r + k - QueueSize
  BY Zenon, <1>1, <1>2, ModStep, QueueConstants
<1>4. (r + k) % QueueSize = IF (r % QueueSize) + k < QueueSize THEN (r % QueueSize) + k
                            ELSE (r % QueueSize) + k - QueueSize
  BY Zenon, <1>1, <1>2, ModStep, QueueConstants
<1>5. r % QueueSize = r
  BY Zenon, <1>2, ModSmall, QueueConstants
<1> QED
  BY Zenon, <1>2, <1>3, <1>4, <1>5 DEF Advance

\* Counts less than a ring apart have different places.
LEMMA PlaceDistinct ==
    ASSUME NEW i \in Nat, NEW j \in Nat, i < j, j - i < QueueSize
    PROVE  i % QueueSize # j % QueueSize
<1>1. PICK k \in Slots : i + k = j /\ k > 0
  <2>1. j - i \in Slots /\ i + (j - i) = j /\ j - i > 0
    BY QueueConstants
  <2> QED
    BY Zenon, <2>1
<1>2. i % QueueSize \in Slots
  BY Zenon, PlaceIn
<1>3. j % QueueSize = IF (i % QueueSize) + k < QueueSize THEN (i % QueueSize) + k
                      ELSE (i % QueueSize) + k - QueueSize
  BY Zenon, <1>1, PlaceStep
<1>4. PICK r \in Nat : r = i % QueueSize
  BY <1>2, QueueConstants
<1> QED
  BY <1>1, <1>3, <1>4, QueueConstants

\* The next place.
LEMMA AdvanceOne ==
    ASSUME NEW i \in Slots
    PROVE  Advance(i, 1) = (IF i + 1 = QueueSize THEN 0 ELSE i + 1) /\ Advance(i, 1) \in Slots
<1>1. i \in Nat /\ i < QueueSize /\ 1 \in Slots
  BY QueueConstants
<1>2. i % QueueSize = i
  BY Zenon, <1>1, ModSmall, QueueConstants
<1>3. Advance(i, 1) = IF i + 1 < QueueSize THEN i + 1 ELSE i + 1 - QueueSize
  BY Zenon, <1>1, <1>2, PlaceStep
<1> QED
  BY <1>1, <1>3, QueueConstants

\* Distance counts the places from one index to another.
LEMMA DistanceIs ==
    ASSUME NEW i \in Slots, NEW j \in Slots
    PROVE  /\ Distance(i, j) = IF i <= j THEN j - i ELSE j + QueueSize - i
           /\ Distance(i, j) \in Slots
<1>1. i \in Nat /\ j \in Nat /\ i < QueueSize /\ j < QueueSize
  BY QueueConstants
<1>2. CASE i <= j
  <2>1. PICK k \in Slots : k = j - i
    BY <1>1, <1>2, QueueConstants
  <2>2. PICK n \in Nat : n = j + QueueSize - i /\ n = QueueSize * 1 + k
    BY <1>1, <2>1, QueueConstants
  <2>3. n % QueueSize = k
    <3>1. k \in Nat /\ k < QueueSize /\ 1 \in Nat
      BY QueueConstants
    <3> QED
      BY Zenon, <2>2, <3>1, ModUnique, QueueConstants
  <2> QED
    BY <1>2, <2>1, <2>2, <2>3 DEF Distance
<1>3. CASE ~(i <= j)
  <2>1. PICK n \in Slots : n = j + QueueSize - i /\ n \in Nat /\ n < QueueSize
    BY <1>1, <1>3, QueueConstants
  <2>2. n % QueueSize = n
    BY Zenon, <2>1, ModSmall, QueueConstants
  <2> QED
    BY Zenon, <1>3, <2>1, <2>2 DEF Distance
<1> QED
  BY Zenon, <1>2, <1>3

LEMMA DistanceNext ==
    ASSUME NEW i \in Slots, NEW j \in Slots
    PROVE  /\ Distance(i, j) = 0 <=> i = j
           /\ i # j => Distance(Advance(i, 1), j) = Distance(i, j) - 1
<1>1. Distance(i, j) = IF i <= j THEN j - i ELSE j + QueueSize - i
  BY Zenon, DistanceIs
<1>2. PICK n \in Slots : n = Advance(i, 1) /\ n = IF i + 1 = QueueSize THEN 0 ELSE i + 1
  BY Zenon, AdvanceOne
<1>3. Distance(n, j) = IF n <= j THEN j - n ELSE j + QueueSize - n
  BY Zenon, DistanceIs
<1>4. Distance(i, j) = 0 <=> i = j
  BY <1>1, QueueConstants
<1>5. i # j => Distance(n, j) = Distance(i, j) - 1
  BY <1>1, <1>2, <1>3, QueueConstants
<1> QED
  BY Zenon, <1>2, <1>4, <1>5

LEMMA DistanceAdvance ==
    ASSUME NEW i \in Slots, NEW k \in Slots
    PROVE  Distance(i, Advance(i, k)) = k /\ Advance(i, k) \in Slots
<1>1. i \in Nat /\ i < QueueSize /\ k \in Nat /\ k < QueueSize
  BY QueueConstants
<1>2. i % QueueSize = i
  BY Zenon, <1>1, ModSmall, QueueConstants
<1>3. Advance(i, k) = IF i + k < QueueSize THEN i + k ELSE i + k - QueueSize
  <2>1. /\ Advance(i % QueueSize, k) = (i + k) % QueueSize
        /\ (i + k) % QueueSize = IF (i % QueueSize) + k < QueueSize THEN (i % QueueSize) + k
                                 ELSE (i % QueueSize) + k - QueueSize
    BY <1>1, PlaceStep
  <2> QED
    BY Zenon, <1>2, <2>1
<1>4. PICK n \in Slots : n = Advance(i, k) /\ n = IF i + k < QueueSize THEN i + k ELSE i + k - QueueSize
  <2>1. (IF i + k < QueueSize THEN i + k ELSE i + k - QueueSize) \in Slots
    BY <1>1, QueueConstants
  <2> QED
    BY Zenon, <1>3, <2>1
<1>5. Distance(i, n) = IF i <= n THEN n - i ELSE n + QueueSize - i
  BY Zenon, DistanceIs
<1>6. Distance(i, n) = k
  BY <1>1, <1>4, <1>5, QueueConstants
<1> QED
  BY Zenon, <1>4, <1>6

\* Min of two numbers.
LEMMA MinPair ==
    ASSUME NEW a \in Int, NEW b \in Int
    PROVE  Min({a, b}) = IF a <= b THEN a ELSE b
<1>1. \E x \in {a, b} : \A y \in {a, b} : x <= y
  <2>1. a <= a /\ b <= b /\ (a <= b \/ b <= a)
    OBVIOUS
  <2> QED
    BY Zenon, <2>1
<1>2. PICK m : m = Min({a, b})
  BY Zenon
<1>3. m \in {a, b} /\ \A y \in {a, b} : m <= y
  BY Zenon, <1>1, <1>2 DEF Min
<1>4. m = IF a <= b THEN a ELSE b
  BY <1>3
<1> QED
  BY Zenon, <1>2, <1>4

\* What validateConfig leaves of a run.
LEMMA RunOf ==
    ASSUME DriverTypes
    PROVE  /\ config.batchSize \in Nat /\ config.writeIo \in Nat /\ config.readIo \in Nat
           /\ Total \in Nat /\ Total > 0
           /\ [op : 0 .. Total - 1, slot : Slots] \subseteq Commands
<1>1. config \in Configs
  BY Zenon DEF DriverTypes
<1>2. config \in [kernel : {"drive", "stateful"}, batchSize : Nat, writeIo : Nat, readIo : Nat]
  BY Zenon, <1>1, BatchAssumption
<1>3. config.writeIo + config.readIo > 0
      /\ [op : 0 .. config.writeIo + config.readIo - 1, slot : Slots] \subseteq Commands
  BY Zenon, <1>1, BatchAssumption
<1>4. config.batchSize \in Nat /\ config.writeIo \in Nat /\ config.readIo \in Nat
  BY Zenon, <1>2
<1>5. Total \in Nat /\ config.writeIo + config.readIo - 1 = Total - 1
  BY <1>4 DEF Total
<1> QED
  BY Zenon, <1>3, <1>4, <1>5 DEF Total

\* The batch is clamped to the ring and to the run: it leaves a place free.
LEMMA BatchSize ==
    ASSUME DriverTypes
    PROVE  /\ batch_size \in 1 .. QueueSize - 1
           /\ config.batchSize = 1 => batch_size = 1
<1>1. PICK n \in Nat : n = (IF config.batchSize = 0 THEN Total ELSE config.batchSize)
                       /\ n > 0 /\ (config.batchSize = 1 => n = 1)
  <2>1. config.batchSize \in Nat /\ Total \in Nat /\ Total > 0
    BY Zenon, RunOf
  <2>2. PICK n : n = IF config.batchSize = 0 THEN Total ELSE config.batchSize
    BY Zenon
  <2>3. n \in Nat /\ n > 0 /\ (config.batchSize = 1 => n = 1)
    BY <2>1, <2>2
  <2> QED
    BY Zenon, <2>2, <2>3
<1>2. PICK q \in Nat : q = QueueSize - 1 /\ q > 0
  BY QueueConstants
<1>3. ClampToQueue(n) = IF n <= q THEN n ELSE q
  <2>1. n \in Int /\ q \in Int
    OBVIOUS
  <2> QED
    BY Zenon, <1>2, <2>1, MinPair DEF ClampToQueue
<1>4. PICK c \in Nat : c = ClampToQueue(n) /\ c > 0 /\ c <= q /\ (n = 1 => c = 1)
  BY <1>1, <1>2, <1>3
<1>5. PICK t \in Nat : t = Total /\ t > 0
  BY Zenon, RunOf
<1>6. batch_size = IF c <= t THEN c ELSE t
  <2>1. batch_size = Min({c, t})
    BY Zenon, <1>1, <1>4, <1>5 DEF batch_size
  <2>2. c \in Int /\ t \in Int
    OBVIOUS
  <2> QED
    BY Zenon, <2>1, <2>2, MinPair
<1> QED
  BY <1>1, <1>2, <1>4, <1>5, <1>6

LEMMA BatchCount ==
    ASSUME DriverTypes, NEW w \in Drivers, ops_done[w] <= Total
    PROVE  /\ batch_count(w) \in Slots
           /\ ~Stateful /\ config.batchSize = 1 => batch_count(w) <= 1
           /\ ~Stateful /\ ops_done[w] < Total =>
                batch_count(w) > 0 /\ ops_done[w] + batch_count(w) <= Total
<1>1. CASE Stateful
  <2>1. batch_count(w) = n_ops
    BY Zenon, <1>1 DEF batch_count
  <2> QED
    BY Zenon, <1>1, <2>1 DEF DriverTypes
<1>2. CASE ~Stateful
  <2>1. ops_done[w] \in Nat
    BY DEF DriverTypes
  <2>2. PICK t \in Nat, o \in Nat : t = Total /\ o = ops_done[w] /\ o <= t
    BY Zenon, <2>1, RunOf
  <2>3. PICK b \in 1 .. QueueSize - 1 : b = batch_size /\ (config.batchSize = 1 => b = 1)
    BY Zenon, BatchSize
  <2>4. PICK r \in Nat : r = t - o
    BY <2>2
  <2>5. b \in Nat /\ b \in Int /\ r \in Int
    BY QueueConstants
  <2>6. batch_count(w) = IF b <= r THEN b ELSE r
    BY Zenon, <1>2, <2>2, <2>3, <2>4, <2>5, MinPair DEF batch_count
  <2>7. PICK c : c = batch_count(w)
    BY Zenon
  <2>8. /\ c \in Slots /\ (config.batchSize = 1 => c <= 1)
        /\ o < t => c > 0 /\ o + c <= t
    BY <2>2, <2>3, <2>4, <2>5, <2>6, <2>7, QueueConstants
  <2> QED
    BY Zenon, <1>2, <2>2, <2>7, <2>8
<1> QED
  BY Zenon, <1>1, <1>2

LEMMA LenIn ==
    ASSUME NEW S, NEW s \in Seq(S)
    PROVE  Len(s) \in Nat /\ DOMAIN s = 1 .. Len(s)
  OBVIOUS

\* A sequence without its i-th element: the part before it, and the part after.
Without(s, i) == SubSeq(s, 1, i - 1) \o SubSeq(s, i + 1, Len(s))

LEMMA RemoveAt ==
    ASSUME NEW S, NEW s \in Seq(S), NEW i \in 1 .. Len(s)
    PROVE  /\ Without(s, i) \in Seq(S) /\ Len(Without(s, i)) = Len(s) - 1
           /\ \A j \in 1 .. Len(s) - 1 : Without(s, i)[j] = IF j < i THEN s[j] ELSE s[j + 1]
<1>n. PICK n \in Nat : n = Len(s) /\ i \in 1 .. n
  BY Zenon, LenIn
<1>1. PICK a, b : a = SubSeq(s, 1, i - 1) /\ b = SubSeq(s, i + 1, Len(s))
  BY Zenon
<1>2. a \in Seq(S) /\ Len(a) = i - 1 /\ \A j \in 1 .. i - 1 : a[j] = s[j]
  BY <1>1
<1>3. b \in Seq(S) /\ Len(b) = n - i /\ \A j \in 1 .. n - i : b[j] = s[i + j]
  BY <1>1, <1>n
<1>4. PICK r : r = a \o b
  BY Zenon
<1>5. /\ r \in Seq(S) /\ Len(r) = Len(a) + Len(b)
      /\ \A j \in 1 .. Len(a) : r[j] = a[j]
      /\ \A j \in 1 .. Len(b) : r[Len(a) + j] = b[j]
  <2>1. a \in Seq(S) /\ b \in Seq(S)
    BY Zenon, <1>2, <1>3
  <2>2. /\ a \o b \in Seq(S) /\ Len(a \o b) = Len(a) + Len(b)
        /\ \A j \in 1 .. Len(a) : (a \o b)[j] = a[j]
        /\ \A j \in 1 .. Len(b) : (a \o b)[Len(a) + j] = b[j]
    BY <2>1
  <2> QED
    BY Zenon, <2>2, <1>4
<1>6. Len(r) = n - 1
  BY <1>2, <1>3, <1>5, <1>n
<1>7. ASSUME NEW j \in 1 .. n - 1
      PROVE  r[j] = IF j < i THEN s[j] ELSE s[j + 1]
  <2>1. CASE j < i
    <3>1. j \in 1 .. i - 1
      BY <2>1
    <3> QED
      BY Zenon, <2>1, <3>1, <1>2, <1>5
  <2>2. CASE ~(j < i)
    <3>1. PICK k \in 1 .. n - i : k = j - (i - 1)
      BY <2>2, <1>n
    <3>2. (i - 1) + k = j /\ i + k = j + 1
      BY <3>1
    <3>3. r[(i - 1) + k] = b[k] /\ b[k] = s[i + k]
      BY Zenon, <3>1, <1>2, <1>3, <1>5
    <3> QED
      BY Zenon, <2>2, <3>2, <3>3
  <2> QED
    BY Zenon, <2>1, <2>2
<1>8. Without(s, i) = r
  BY Zenon, <1>1, <1>4 DEF Without
<1> QED
  BY Zenon, <1>5, <1>6, <1>7, <1>8, <1>n

\* The counts of the run, in the order in which they follow one another.
LEMMA Counts ==
    ASSUME QueueTypes, DriverTypes, NEW w \in Drivers, CountInv(w)
    PROVE  /\ Len(log) \in Nat /\ Len(inflight) \in Nat /\ FetchedCount \in Nat /\ ToldCount \in Nat
           /\ ops_done[w] \in Nat /\ polled[w] \in Nat /\ Consumed(w) \in Nat
           /\ Total \in Nat /\ batch_count(w) \in Slots
           /\ ops_done[w] <= Consumed(w) /\ Consumed(w) <= Len(log) /\ Len(log) <= FetchedCount
           /\ FetchedCount <= ToldCount /\ ToldCount <= ops_done[w] + batch_count(w)
           /\ ToldCount <= Total /\ ToldCount - ops_done[w] < QueueSize
           /\ DOMAIN log = 1 .. Len(log) /\ DOMAIN inflight = 1 .. Len(inflight)
<1>1. /\ Len(log) \in Nat /\ Len(inflight) \in Nat
      /\ DOMAIN log = 1 .. Len(log) /\ DOMAIN inflight = 1 .. Len(inflight)
  BY Zenon, LenIn DEF QueueTypes
<1>2. PICK d \in Slots : d = Distance(fetchHead, sqTailDb) /\ d \in Nat
  <2>1. Distance(fetchHead, sqTailDb) \in Slots
    BY Zenon, DistanceIs DEF QueueTypes
  <2> QED
    BY Zenon, <2>1, QueueConstants
<1>3. ops_done[w] \in Nat /\ polled[w] \in Nat
  BY DEF DriverTypes
<1>4. PICK F \in Nat, T \in Nat, C \in Nat :
        /\ F = FetchedCount /\ T = ToldCount /\ C = Consumed(w)
        /\ Len(log) <= F /\ F <= T /\ ops_done[w] <= C
  <2>1. FetchedCount \in Nat /\ Len(log) <= FetchedCount
    BY <1>1 DEF FetchedCount
  <2>2. ToldCount \in Nat /\ FetchedCount <= ToldCount
    BY <2>1, <1>2 DEF ToldCount
  <2>3. Consumed(w) \in Nat /\ ops_done[w] <= Consumed(w)
    BY <1>3 DEF Consumed
  <2> QED
    BY Zenon, <2>1, <2>2, <2>3
<1>5. /\ ops_done[w] <= T /\ T <= ops_done[w] + batch_count(w) /\ T <= Total /\ C <= Len(log)
  BY Zenon, <1>4 DEF CountInv
<1>6. PICK t \in Nat : t = Total
  BY Zenon, RunOf
<1>7. ops_done[w] <= Total
  BY <1>3, <1>4, <1>5, <1>6
<1>8. PICK b \in Slots : b = batch_count(w)
  BY Zenon, <1>7, BatchCount
<1>9. T - ops_done[w] < QueueSize
  BY <1>3, <1>4, <1>5, <1>8, QueueConstants
<1> QED
  BY Zenon, <1>1, <1>3, <1>4, <1>5, <1>6, <1>8, <1>9

\* An entry of the batch that is out is a command.
LEMMA EntryCommand ==
    ASSUME QueueTypes, DriverTypes, NEW w \in Drivers, CountInv(w),
           NEW k \in Nat, ops_done[w] <= k, k < Total, k - ops_done[w] < QueueSize
    PROVE  EntryOf(w, k) \in Commands /\ EntryOf(w, k) # NoCommand /\ EntryOf(w, k).op = k
<1>1. PICK t \in Nat, o \in Nat : t = Total /\ o = ops_done[w]
  BY Zenon, Counts
<1>2. k \in 0 .. t - 1 /\ k - o \in Slots
  BY <1>1, QueueConstants
<1>3. EntryOf(w, k) \in [op : 0 .. t - 1, slot : Slots]
  BY Zenon, <1>1, <1>2 DEF EntryOf
<1>4. EntryOf(w, k) \in Commands
  BY Zenon, <1>1, <1>3, RunOf
<1>5. EntryOf(w, k) # NoCommand
  BY Zenon, <1>4, QueueConstants
<1>6. EntryOf(w, k).op = k
  BY Zenon DEF EntryOf
<1> QED
  BY Zenon, <1>4, <1>5, <1>6

LEMMA StepNames ==
    /\ Between = {"idle", "head", "prepare"} /\ Waiting = {"first", "spin"}
    /\ DriverSteps = {"idle", "head", "prepare", "first", "spin", "polled", "done", "error", "trap"}
  BY DEF Between, Waiting, DriverSteps

LEMMA InitBatch ==
    ASSUME Init, NEW w \in Drivers
    PROVE  BatchInv(w)
<1>0. /\ 0 \in Slots /\ 0 \in Phases /\ 1 \in Phases /\ 0 % QueueSize = 0
  <2>1. 0 % QueueSize = 0
    BY ModSmall, QueueConstants
  <2> QED
    BY <2>1, QueueConstants
<1>1. QueueTypes
  <2>1. /\ sq = [s \in Slots |-> NoCommand]
        /\ cq = [s \in Slots |-> [cmd |-> NoCommand, ok |-> TRUE, phase |-> 0]]
        /\ sqTailDb = 0 /\ fetchHead = 0 /\ postTail = 0 /\ postPhase = 1
        /\ inflight = <<>> /\ log = <<>>
    BY Zenon DEF Init, QueueInit
  <2>2. sq \in [Slots -> Commands \union {NoCommand}]
    BY Zenon, <2>1
  <2>3. cq \in [Slots -> [cmd : Commands \union {NoCommand}, ok : BOOLEAN, phase : Phases]]
    BY Zenon, <2>1, <1>0
  <2>4. inflight \in Seq(Commands) /\ log \in Seq([cmd : Commands, ok : BOOLEAN])
    BY <2>1
  <2> QED
    BY Zenon, <1>0, <2>1, <2>2, <2>3, <2>4 DEF QueueTypes
<1>2. DriverTypes
  <2>1. pc \in [Drivers -> DriverSteps]
    BY StepNames DEF Init
  <2>2. /\ sq_tail \in [Drivers -> Slots] /\ cq_head \in [Drivers -> Slots]
        /\ expected_phase \in [Drivers -> Phases]
    BY Zenon, <1>0 DEF Init
  <2>3. ops_done \in [Drivers -> Nat] /\ polled \in [Drivers -> Nat]
        /\ prepared \in [Drivers -> SUBSET Slots]
    BY DEF Init
  <2> QED
    BY Zenon, <1>0, <2>1, <2>2, <2>3 DEF Init, DriverTypes
<1>3. /\ ops_done[w] = 0 /\ polled[w] = 0 /\ prepared[w] = {} /\ sq_tail[w] = 0 /\ cq_head[w] = 0
      /\ expected_phase[w] = 1
      /\ pc[w] = IF Stateful THEN "idle" ELSE IF Cooperative THEN "prepare" ELSE "head"
  BY Zenon DEF Init
<1>4. Len(log) = 0 /\ Len(inflight) = 0 /\ DOMAIN log = {} /\ DOMAIN inflight = {}
  BY DEF Init, QueueInit
<1>5. FetchedCount = 0 /\ ToldCount = 0 /\ Consumed(w) = 0
  <2>1. FetchedCount = 0 /\ Consumed(w) = 0
    BY <1>3, <1>4 DEF FetchedCount, Consumed
  <2>2. fetchHead = 0 /\ sqTailDb = 0
    BY Zenon DEF Init, QueueInit
  <2>3. Distance(fetchHead, sqTailDb) = 0
    BY Zenon, <2>2, <1>0, DistanceNext
  <2>4. ToldCount = 0 + 0
    BY Zenon, <2>1, <2>3 DEF ToldCount
  <2> QED
    BY <2>1, <2>4
<1>6. PICK t \in Nat, b \in Nat :
        /\ t = Total /\ t > 0 /\ b = batch_count(w)
        /\ ~Stateful => b > 0 /\ b <= t
  <2>1. PICK t \in Nat : t = Total /\ t > 0
    BY Zenon, <1>2, RunOf
  <2>2. ops_done[w] <= Total
    BY <1>3, <2>1
  <2>3. PICK b \in Slots :
          b = batch_count(w) /\ (~Stateful /\ ops_done[w] < Total => b > 0 /\ ops_done[w] + b <= Total)
    BY Zenon, <1>2, <2>2, BatchCount
  <2>4. b \in Nat /\ (~Stateful => b > 0 /\ b <= t)
    BY <2>1, <2>3, <1>3, QueueConstants
  <2> QED
    BY Zenon, <2>1, <2>3, <2>4
<1>7. CountInv(w)
  <2>1. 0 <= 0 + batch_count(w) /\ 0 <= Total
    BY <1>6
  <2>2. sqTailDb = 0 /\ fetchHead = 0 /\ postTail = 0
    BY Zenon DEF Init, QueueInit
  <2>3. 0 <= 0
    OBVIOUS
  <2> QED
    BY Zenon, <1>0, <1>3, <1>4, <1>5, <2>1, <2>2, <2>3 DEF CountInv
<1>8. LoopInv(w)
  <2>1. pc[w] \notin Waiting /\ pc[w] # "polled"
    BY Zenon, <1>3, StepNames
  <2>2. pc[w] = "prepare" => ~Stateful
    BY Zenon, <1>3
  <2>3. pc[w] = "prepare" => batch_count(w) > 0 /\ 0 + batch_count(w) <= Total
    BY <2>2, <1>6
  <2>4. pc[w] = "idle" => Stateful
    BY Zenon, <1>3
  <2>5. pc[w] = "head" => ~Stateful
    BY Zenon, <1>3
  <2>6. state = SavedState(w)
    BY Zenon, <1>3 DEF Init, SavedState
  <2> QED
    BY Zenon, <2>1, <2>3, <2>4, <2>5, <2>6, <1>3, <1>4, <1>5 DEF LoopInv
<1>9. SqInv(w) /\ HeldInv(w) /\ OnceInv
  <2>1. 0 .. 0 - 1 = {}
    OBVIOUS
  <2> QED
    BY Zenon, <2>1, <1>3, <1>4, <1>5 DEF SqInv, HeldInv, OnceInv
<1>10. PhaseInv(w)
  <2>1. /\ cq = [s \in Slots |-> [cmd |-> NoCommand, ok |-> TRUE, phase |-> 0]]
        /\ postTail = 0 /\ postPhase = 1
    BY Zenon DEF Init, QueueInit
  <2>2. \A s \in Slots : cq[s].phase = 0 /\ ~(s < 0)
    BY <2>1, QueueConstants
  <2> QED
    BY <2>1, <2>2, <1>3 DEF PhaseInv
<1>11. CqInv(w) /\ SerialInv(w)
  <2>1. 0 .. 0 - 1 = {} /\ 1 .. 0 = {}
    OBVIOUS
  <2> QED
    BY Zenon, <2>1, <1>4, <1>5 DEF CqInv, SerialInv
<1> QED
  BY Zenon, <1>1, <1>2, <1>7, <1>8, <1>9, <1>10, <1>11 DEF BatchInv


-----------------------------------------------------------------------------
(* The controller.                                                         *)

\* What the driver works with is not the controller's to change.
LEMMA ControllerKeeps ==
    ASSUME NEW w \in Drivers, UNCHANGED <<runVars, driverVars, launchVars>>
    PROVE  /\ UNCHANGED <<config, stopRequested, pc, sq_tail, cq_head, expected_phase, ops_done,
                          prepared, polled, n_ops, state>>
           /\ DriverTypes => DriverTypes'
           /\ batch_count(w)' = batch_count(w) /\ Consumed(w)' = Consumed(w) /\ Total' = Total
           /\ Stateful' = Stateful /\ SavedState(w)' = SavedState(w)
           /\ \A k : EntryOf(w, k)' = EntryOf(w, k) /\ SqeOf(w, k)' = SqeOf(w, k)
<1>1. UNCHANGED <<config, stopRequested, pc, sq_tail, cq_head, expected_phase, ops_done,
                  prepared, polled, n_ops, state>>
  BY Zenon DEF runVars, driverVars, launchVars
<1>2. DriverTypes => DriverTypes'
  BY Zenon, <1>1 DEF DriverTypes
<1>3. Stateful' = Stateful /\ Total' = Total
  BY Zenon, <1>1 DEF Stateful, Total
<1>4. batch_count(w)' = batch_count(w)
  BY Zenon, <1>1, <1>3 DEF batch_count, batch_size, ClampToQueue
<1> QED
  BY Zenon, <1>1, <1>2, <1>3, <1>4 DEF Consumed, SavedState, EntryOf, SqeOf

\* The controller fetches the next operation of the batch.
LEMMA FetchBatch ==
    ASSUME NEW w \in Drivers, BatchInv(w), Fetch, UNCHANGED <<runVars, driverVars, launchVars>>
    PROVE  BatchInv(w)'
<1>p. /\ QueueTypes /\ DriverTypes /\ CountInv(w) /\ LoopInv(w) /\ SqInv(w)
      /\ HeldInv(w) /\ OnceInv /\ PhaseInv(w) /\ CqInv(w) /\ SerialInv(w)
  BY Zenon DEF BatchInv
<1>k. /\ UNCHANGED <<config, stopRequested, pc, sq_tail, cq_head, expected_phase, ops_done,
                     prepared, polled, n_ops, state>>
      /\ DriverTypes'
      /\ batch_count(w)' = batch_count(w) /\ Consumed(w)' = Consumed(w) /\ Total' = Total
      /\ Stateful' = Stateful /\ SavedState(w)' = SavedState(w)
      /\ \A k : EntryOf(w, k)' = EntryOf(w, k) /\ SqeOf(w, k)' = SqeOf(w, k)
  BY Zenon, <1>p, ControllerKeeps
<1>0. /\ fetchHead # sqTailDb /\ inflight' = Append(inflight, sq[fetchHead])
      /\ fetchHead' = Advance(fetchHead, 1)
      /\ UNCHANGED <<sq, cq, sqTailDb, postTail, postPhase, log>>
  BY Zenon DEF Fetch
<1>1. PICK F \in Nat, T \in Nat, L \in Nat, I \in Nat, o \in Nat, t \in Nat :
        /\ F = FetchedCount /\ T = ToldCount /\ L = Len(log) /\ I = Len(inflight)
        /\ o = ops_done[w] /\ t = Total
        /\ o <= L /\ L <= F /\ F <= T /\ T <= t /\ T - o < QueueSize
        /\ DOMAIN log = 1 .. L /\ DOMAIN inflight = 1 .. I
  <2>1. /\ Len(log) \in Nat /\ Len(inflight) \in Nat /\ FetchedCount \in Nat /\ ToldCount \in Nat
        /\ ops_done[w] \in Nat /\ Consumed(w) \in Nat /\ Total \in Nat
        /\ ops_done[w] <= Consumed(w) /\ Consumed(w) <= Len(log) /\ Len(log) <= FetchedCount
        /\ FetchedCount <= ToldCount /\ ToldCount <= Total /\ ToldCount - ops_done[w] < QueueSize
        /\ DOMAIN log = 1 .. Len(log) /\ DOMAIN inflight = 1 .. Len(inflight)
    BY Zenon, <1>p, Counts
  <2>2. ops_done[w] <= Len(log)
    BY <2>1
  <2> QED
    BY Zenon, <2>1, <2>2
<1>2. PICK d \in Nat : d = Distance(fetchHead, sqTailDb) /\ d > 0 /\ T = F + d
  <2>1. fetchHead \in Slots /\ sqTailDb \in Slots
    BY Zenon, <1>p DEF QueueTypes
  <2>2. Distance(fetchHead, sqTailDb) \in Nat /\ Distance(fetchHead, sqTailDb) # 0
    <3>1. Distance(fetchHead, sqTailDb) \in Slots
      BY Zenon, <2>1, DistanceIs
    <3>2. Distance(fetchHead, sqTailDb) # 0
      BY Zenon, <2>1, <1>0, DistanceNext
    <3> QED
      BY Zenon, <3>1, <3>2, QueueConstants
  <2>3. T = F + Distance(fetchHead, sqTailDb)
    BY Zenon, <1>1 DEF ToldCount
  <2>4. \A n \in Nat : n # 0 => n > 0
    OBVIOUS
  <2> QED
    BY Zenon, <2>2, <2>3, <2>4
<1>a. /\ F \in Nat /\ T \in Nat /\ L \in Nat /\ I \in Nat /\ o \in Nat /\ t \in Nat
      /\ o <= L /\ L <= F /\ F <= T /\ T <= t /\ T - o < QueueSize
      /\ d \in Nat /\ d > 0 /\ T = F + d /\ QueueSize \in Nat
  BY Zenon, <1>1, <1>2, QueueConstants
<1>3. PICK c : c = EntryOf(w, F) /\ c = sq[fetchHead] /\ c \in Commands /\ c.op = F
  <2>1. F \in F .. T - 1 /\ o <= F /\ F < t /\ F - o < QueueSize
    BY <1>a
  <2>2. sq[F % QueueSize] = EntryOf(w, F)
    BY Zenon, <2>1, <1>1, <1>p DEF SqInv
  <2>3. fetchHead = F % QueueSize
    BY Zenon, <1>1, <1>p DEF CountInv
  <2>4. EntryOf(w, F) \in Commands /\ EntryOf(w, F).op = F
    BY Zenon, <2>1, <1>1, <1>p, EntryCommand
  <2> QED
    BY Zenon, <2>2, <2>3, <2>4
<1>4. /\ inflight' \in Seq(Commands) /\ Len(inflight') = I + 1 /\ DOMAIN inflight' = 1 .. I + 1
      /\ \A i \in 1 .. I : inflight'[i] = inflight[i]
      /\ inflight'[I + 1] = c
  <2>1. inflight \in Seq(Commands) /\ Len(inflight) = I /\ inflight' = Append(inflight, c)
    BY Zenon, <1>0, <1>1, <1>3, <1>p DEF QueueTypes
  <2> QED
    BY <2>1, <1>3
<1>5. FetchedCount' = F + 1 /\ ToldCount' = T /\ F + 1 \in Nat
  <2>1. fetchHead \in Slots /\ sqTailDb \in Slots
    BY Zenon, <1>p DEF QueueTypes
  <2>2. Distance(fetchHead, sqTailDb)' = d - 1
    BY Zenon, <2>1, <1>0, <1>2, DistanceNext DEF Distance
  <2>3. F = L + I
    BY Zenon, <1>1 DEF FetchedCount
  <2>4. FetchedCount' = F + 1
    BY <2>3, <1>0, <1>1, <1>4 DEF FetchedCount
  <2>5. ToldCount' = (F + 1) + (d - 1)
    BY Zenon, <2>2, <2>4 DEF ToldCount
  <2> QED
    BY <2>4, <2>5, <1>a
<1>6. QueueTypes'
  <2>1. fetchHead' \in Slots
    BY Zenon, <1>0, <1>p, AdvanceOne DEF QueueTypes
  <2> QED
    BY Zenon, <2>1, <1>0, <1>4, <1>p DEF QueueTypes
<1>7. CountInv(w)'
  <2>1. fetchHead' = (F + 1) % QueueSize
    <3>1. fetchHead = F % QueueSize /\ 1 \in Slots
      BY <1>1, <1>p, QueueConstants DEF CountInv
    <3> QED
      BY Zenon, <3>1, <1>0, PlaceStep
  <2> QED
    BY Zenon, <2>1, <1>0, <1>1, <1>5, <1>k, <1>p DEF CountInv
<1>8. LoopInv(w)'
  BY Zenon, <1>0, <1>1, <1>5, <1>k, <1>p DEF LoopInv
<1>9. SqInv(w)'
  <2>1. ASSUME NEW k \in F + 1 .. T - 1 PROVE k \in F .. T - 1
    BY <1>a
  <2> QED
    BY Zenon, <2>1, <1>0, <1>1, <1>5, <1>k, <1>p DEF SqInv
<1>10. HeldInv(w)'
  <2>1. ASSUME NEW i \in 1 .. I + 1
        PROVE  /\ inflight'[i].op \in o .. F
               /\ inflight'[i] = EntryOf(w, inflight'[i].op)
               /\ i \in 1 .. I => inflight'[i].op \in o .. F - 1
    <3>1. CASE i \in 1 .. I
      <4>1. inflight'[i] = inflight[i] /\ inflight[i].op \in o .. F - 1
            /\ inflight[i] = EntryOf(w, inflight[i].op)
        BY Zenon, <3>1, <1>1, <1>4, <1>p DEF HeldInv
      <4>2. o .. F - 1 \subseteq o .. F
        BY <1>a
      <4> QED
        BY Zenon, <4>1, <4>2
    <3>2. CASE i \notin 1 .. I
      <4>1. i = I + 1 /\ F \in o .. F
        BY <3>2, <1>a
      <4> QED
        BY Zenon, <4>1, <3>2, <1>3, <1>4
    <3> QED
      BY Zenon, <3>1, <3>2
  <2>2. ASSUME NEW i \in 1 .. I + 1, NEW j \in 1 .. I + 1, i # j
        PROVE  inflight'[i].op # inflight'[j].op
    <3>1. CASE i \in 1 .. I /\ j \in 1 .. I
      BY Zenon, <3>1, <2>2, <1>1, <1>4, <1>p DEF HeldInv
    <3>2. CASE i \notin 1 .. I
      <4>1. i = I + 1 /\ j \in 1 .. I /\ F \notin o .. F - 1
        BY <3>2, <2>2, <1>a
      <4> QED
        BY Zenon, <4>1, <2>1, <1>3, <1>4
    <3>3. CASE j \notin 1 .. I
      <4>1. j = I + 1 /\ i \in 1 .. I /\ F \notin o .. F - 1
        BY <3>3, <2>2, <1>a
      <4> QED
        BY Zenon, <4>1, <2>1, <1>3, <1>4
    <3> QED
      BY Zenon, <3>1, <3>2, <3>3
  <2>3. o .. F = o .. (F + 1) - 1
    BY <1>a
  <2> QED
    BY Zenon, <2>1, <2>2, <2>3, <1>1, <1>4, <1>5, <1>k DEF HeldInv
<1>11. OnceInv'
  <2>1. 0 .. F - 1 \subseteq 0 .. (F + 1) - 1
    BY <1>a
  <2>2. ASSUME NEW i \in DOMAIN log' PROVE log'[i].cmd.op \in 0 .. (F + 1) - 1
    BY Zenon, <2>1, <1>0, <1>1, <1>p DEF OnceInv
  <2>3. ASSUME NEW k \in 0 .. (F + 1) - 1
        PROVE  \/ \E i \in DOMAIN log : log[i].cmd.op = k
               \/ \E i \in 1 .. I + 1 : inflight'[i].op = k
    <3>1. CASE k \in 0 .. F - 1
      <4>1. \/ \E i \in DOMAIN log : log[i].cmd.op = k
            \/ \E i \in 1 .. I : inflight[i].op = k
        BY Zenon, <3>1, <1>1, <1>p DEF OnceInv
      <4>2. 1 .. I \subseteq 1 .. I + 1
        OBVIOUS
      <4> QED
        BY Zenon, <4>1, <4>2, <1>4
    <3>2. CASE k \notin 0 .. F - 1
      <4>1. k = F /\ I + 1 \in 1 .. I + 1
        BY <3>2, <1>a
      <4> QED
        BY Zenon, <4>1, <1>3, <1>4
    <3> QED
      BY Zenon, <3>1, <3>2
  <2> QED
    BY Zenon, <2>2, <2>3, <1>0, <1>4, <1>5 DEF OnceInv
<1>12. PhaseInv(w)' /\ CqInv(w)' /\ SerialInv(w)'
  BY Zenon, <1>0, <1>k, <1>p DEF PhaseInv, CqInv, SerialInv
<1> QED
  BY Zenon, <1>k, <1>6, <1>7, <1>8, <1>9, <1>10, <1>11, <1>12 DEF BatchInv


\* The tail moves on to a place the driver has not reached: it passes the end
\* of the ring when the phase flips.
LEMMA PostStep ==
    ASSUME NEW Q \in Nat \ {0}, NEW h \in 0 .. Q - 1, NEW t \in 0 .. Q - 1, NEW n \in 0 .. Q - 1,
           NEW e \in {0, 1}, NEW p \in {0, 1}, NEW q,
           n = IF t + 1 = Q THEN 0 ELSE t + 1,
           (IF h <= t THEN t - h ELSE t + Q - h) < Q - 1,
           p = IF t < h THEN 1 - e ELSE e,
           q = IF n = 0 THEN 1 - p ELSE p
    PROVE  q \in {0, 1} /\ q = IF n < h THEN 1 - e ELSE e
  OBVIOUS

\* The head moves on towards a tail it has not reached.
LEMMA HeadStep ==
    ASSUME NEW Q \in Nat \ {0}, NEW h \in 0 .. Q - 1, NEW t \in 0 .. Q - 1, NEW n \in 0 .. Q - 1,
           NEW e \in {0, 1}, NEW p \in {0, 1}, NEW f,
           n = IF h + 1 = Q THEN 0 ELSE h + 1,
           h # t,
           p = IF t < h THEN 1 - e ELSE e,
           f = IF n = 0 THEN 1 - e ELSE e
    PROVE  f \in {0, 1} /\ p = IF t < n THEN 1 - f ELSE f
  OBVIOUS

\* The places of two counts less than a ring apart.
LEMMA PlaceDistance ==
    ASSUME NEW i \in Nat, NEW j \in Nat, i <= j, j - i < QueueSize
    PROVE  j - i = IF i % QueueSize <= j % QueueSize
                   THEN (j % QueueSize) - (i % QueueSize)
                   ELSE (j % QueueSize) + QueueSize - (i % QueueSize)
<1>1. PICK k \in Slots : k = j - i /\ i + k = j
  <2>1. j - i \in Slots /\ i + (j - i) = j
    BY QueueConstants
  <2> QED
    BY Zenon, <2>1
<1>2. PICK r \in Slots : r = i % QueueSize
  BY Zenon, PlaceIn
<1>3. PICK u \in Slots : u = j % QueueSize
  BY Zenon, PlaceIn
<1>4. u = IF r + k < QueueSize THEN r + k ELSE r + k - QueueSize
  <2>1. (i + k) % QueueSize = IF (i % QueueSize) + k < QueueSize THEN (i % QueueSize) + k
                              ELSE (i % QueueSize) + k - QueueSize
    BY PlaceStep
  <2> QED
    BY Zenon, <2>1, <1>1, <1>2, <1>3
<1>5. k = IF r <= u THEN u - r ELSE u + QueueSize - r
  BY <1>4, QueueConstants
<1> QED
  BY Zenon, <1>1, <1>2, <1>3, <1>5

\* The controller completes a command of the batch.
LEMMA CompleteBatch ==
    ASSUME NEW w \in Drivers, BatchInv(w), NEW i \in DOMAIN inflight, NEW ok \in BOOLEAN,
           Complete(i, ok), UNCHANGED <<runVars, driverVars, launchVars>>
    PROVE  BatchInv(w)'
<1>p. /\ QueueTypes /\ DriverTypes /\ CountInv(w) /\ LoopInv(w) /\ SqInv(w)
      /\ HeldInv(w) /\ OnceInv /\ PhaseInv(w) /\ CqInv(w) /\ SerialInv(w)
  BY Zenon DEF BatchInv
<1>k. /\ UNCHANGED <<config, stopRequested, pc, sq_tail, cq_head, expected_phase, ops_done,
                     prepared, polled, n_ops, state>>
      /\ DriverTypes'
      /\ batch_count(w)' = batch_count(w) /\ Consumed(w)' = Consumed(w) /\ Total' = Total
      /\ Stateful' = Stateful /\ SavedState(w)' = SavedState(w)
      /\ \A k : EntryOf(w, k)' = EntryOf(w, k) /\ SqeOf(w, k)' = SqeOf(w, k)
  BY Zenon, <1>p, ControllerKeeps
<1>0. /\ cq' = [cq EXCEPT ![postTail] = [cmd |-> inflight[i], ok |-> ok, phase |-> postPhase]]
      /\ log' = Append(log, [cmd |-> inflight[i], ok |-> ok])
      /\ inflight' = SubSeq(inflight, 1, i - 1) \o SubSeq(inflight, i + 1, Len(inflight))
      /\ postTail' = Advance(postTail, 1)
      /\ postPhase' = IF Advance(postTail, 1) = 0 THEN 1 - postPhase ELSE postPhase
      /\ UNCHANGED <<sq, sqTailDb, fetchHead>>
  BY Zenon DEF Complete
<1>1. PICK F \in Nat, T \in Nat, L \in Nat, I \in Nat, C \in Nat, o \in Nat :
        /\ F = FetchedCount /\ T = ToldCount /\ L = Len(log) /\ I = Len(inflight)
        /\ C = Consumed(w) /\ o = ops_done[w]
        /\ o <= C /\ C <= L /\ L <= F /\ F <= T /\ T - o < QueueSize
        /\ T <= o + batch_count(w) /\ batch_count(w) \in Nat
        /\ DOMAIN log = 1 .. L /\ DOMAIN inflight = 1 .. I /\ F = L + I
  BY Zenon, <1>p, Counts, QueueConstants DEF FetchedCount
<1>2. /\ inflight' \in Seq(Commands) /\ Len(inflight') = I - 1 /\ DOMAIN inflight' = 1 .. I - 1
      /\ \A j \in 1 .. I - 1 : inflight'[j] = IF j < i THEN inflight[j] ELSE inflight[j + 1]
      /\ i \in 1 .. I
  <2>1. inflight \in Seq(Commands) /\ I = Len(inflight) /\ i \in 1 .. I
    BY Zenon, <1>1, <1>p DEF QueueTypes
  <2>2. /\ Without(inflight, i) \in Seq(Commands) /\ Len(Without(inflight, i)) = I - 1
        /\ \A j \in 1 .. I - 1 :
             Without(inflight, i)[j] = IF j < i THEN inflight[j] ELSE inflight[j + 1]
    <3>1. i \in 1 .. Len(inflight)
      BY Zenon, <2>1
    <3> QED
      BY Zenon, <2>1, <3>1, RemoveAt
  <2>3. inflight' = Without(inflight, i)
    BY Zenon, <1>0 DEF Without
  <2>4. /\ inflight' \in Seq(Commands) /\ Len(inflight') = I - 1
        /\ \A j \in 1 .. I - 1 : inflight'[j] = IF j < i THEN inflight[j] ELSE inflight[j + 1]
    BY Zenon, <2>2, <2>3
  <2> QED
    BY Zenon, <2>1, <2>4, LenIn
<1>3. PICK c \in Commands : c = inflight[i] /\ c.op \in o .. F - 1
  <2>1. inflight[i] \in Commands
    BY <1>p DEF QueueTypes
  <2> QED
    BY Zenon, <2>1, <1>1, <1>p DEF HeldInv
<1>4. /\ log' \in Seq([cmd : Commands, ok : BOOLEAN]) /\ Len(log') = L + 1
      /\ DOMAIN log' = 1 .. L + 1
      /\ \A j \in 1 .. L : log'[j] = log[j]
      /\ log'[L + 1].cmd = c /\ log'[L + 1].ok = ok
  <2>1. PICK r : r = [cmd |-> c, ok |-> ok]
    BY Zenon
  <2>2. r \in [cmd : Commands, ok : BOOLEAN] /\ r.cmd = c /\ r.ok = ok
    BY Zenon, <2>1
  <2>3. /\ log \in Seq([cmd : Commands, ok : BOOLEAN]) /\ Len(log) = L /\ log' = Append(log, r)
    BY Zenon, <2>1, <1>0, <1>1, <1>3, <1>p DEF QueueTypes
  <2>4. /\ log' \in Seq([cmd : Commands, ok : BOOLEAN]) /\ Len(log') = L + 1
        /\ DOMAIN log' = 1 .. L + 1
        /\ \A j \in 1 .. L : log'[j] = log[j]
        /\ log'[L + 1] = r
    BY <2>2, <2>3
  <2> QED
    BY Zenon, <2>2, <2>4
<1>a. /\ F \in Nat /\ T \in Nat /\ L \in Nat /\ I \in Nat /\ o \in Nat /\ C \in Nat
      /\ o <= C /\ C <= L /\ L <= F /\ F <= T /\ T - o < QueueSize /\ F = L + I
      /\ i \in 1 .. I /\ QueueSize \in Nat
  BY Zenon, <1>1, <1>2, QueueConstants
<1>5. FetchedCount' = F /\ ToldCount' = T /\ L + 1 <= F /\ (L + 1) - C < QueueSize
      /\ L - C < QueueSize - 1
  <2>1. FetchedCount' = F
    BY <1>1, <1>2, <1>4 DEF FetchedCount
  <2>2. ToldCount' = T
    BY Zenon, <2>1, <1>0, <1>1 DEF ToldCount, Distance
  <2>3. /\ o <= C /\ C <= L /\ F <= T /\ T - o < QueueSize /\ F = L + I /\ i \in 1 .. I
        /\ QueueSize \in Nat
    BY Zenon, <1>1, <1>2, QueueConstants
  <2>4. L + 1 <= F /\ (L + 1) - C < QueueSize /\ L - C < QueueSize - 1
    BY <2>3
  <2> QED
    BY Zenon, <2>1, <2>2, <2>4
<1>6. /\ postTail \in Slots /\ postPhase \in Phases /\ cq_head[w] \in Slots
      /\ expected_phase[w] \in Phases
      /\ postTail = L % QueueSize /\ cq_head[w] = C % QueueSize
      /\ cq \in [Slots -> [cmd : Commands \union {NoCommand}, ok : BOOLEAN, phase : Phases]]
  BY Zenon, <1>1, <1>p DEF QueueTypes, DriverTypes, CountInv
<1>7. PICK n \in Slots : n = postTail' /\ n = IF postTail + 1 = QueueSize THEN 0 ELSE postTail + 1
  BY Zenon, <1>0, <1>6, AdvanceOne
<1>8. /\ postPhase' \in Phases
      /\ postPhase' = IF n < cq_head[w] THEN 1 - expected_phase[w] ELSE expected_phase[w]
  <2>1. PICK h \in 0 .. QueueSize - 1, t \in 0 .. QueueSize - 1, e \in {0, 1}, q \in {0, 1} :
          /\ h = cq_head[w] /\ t = postTail /\ e = expected_phase[w] /\ q = postPhase
          /\ n \in 0 .. QueueSize - 1
    BY Zenon, <1>6, QueueConstants
  <2>2. L - C = IF h <= t THEN t - h ELSE t + QueueSize - h
    <3>1. L - C < QueueSize
      BY <1>a, <1>5
    <3>2. C <= L
      BY Zenon, <1>1
    <3>3. L - C = IF C % QueueSize <= L % QueueSize
                  THEN (L % QueueSize) - (C % QueueSize)
                  ELSE (L % QueueSize) + QueueSize - (C % QueueSize)
      BY Zenon, <3>1, <3>2, PlaceDistance
    <3> QED
      BY Zenon, <3>3, <2>1, <1>6
  <2>3. (IF h <= t THEN t - h ELSE t + QueueSize - h) < QueueSize - 1
    BY Zenon, <2>2, <1>5
  <2>4. q = IF t < h THEN 1 - e ELSE e
    BY Zenon, <2>1, <1>p DEF PhaseInv
  <2>5. postPhase' = IF n = 0 THEN 1 - q ELSE q
    BY Zenon, <2>1, <1>0, <1>7
  <2>6. n = IF t + 1 = QueueSize THEN 0 ELSE t + 1
    BY Zenon, <2>1, <1>7
  <2>7. postPhase' \in {0, 1} /\ postPhase' = IF n < h THEN 1 - e ELSE e
    BY <2>1, <2>3, <2>4, <2>5, <2>6, QueueConstants
  <2> QED
    BY Zenon, <2>1, <2>7, QueueConstants
<1>9. /\ cq' \in [Slots -> [cmd : Commands \union {NoCommand}, ok : BOOLEAN, phase : Phases]]
      /\ cq'[postTail].ok = ok /\ cq'[postTail].phase = postPhase
      /\ \A s \in Slots : s # postTail => cq'[s] = cq[s]
  <2>1. PICK r : r = [cmd |-> c, ok |-> ok, phase |-> postPhase]
    BY Zenon
  <2>2. /\ r \in [cmd : Commands \union {NoCommand}, ok : BOOLEAN, phase : Phases]
        /\ r.ok = ok /\ r.phase = postPhase
    BY Zenon, <2>1, <1>6
  <2>3. cq' = [cq EXCEPT ![postTail] = r]
    BY Zenon, <2>1, <1>0, <1>3
  <2> QED
    BY Zenon, <2>2, <2>3, <1>6
<1>10. QueueTypes'
  BY Zenon, <1>0, <1>2, <1>4, <1>7, <1>8, <1>9, <1>p DEF QueueTypes
<1>11. CountInv(w)'
  <2>1. postTail' = (L + 1) % QueueSize
    <3>1. 1 \in Slots
      BY QueueConstants
    <3> QED
      BY Zenon, <3>1, <1>0, <1>6, PlaceStep
  <2>2. C <= L + 1
    BY <1>a
  <2> QED
    BY Zenon, <2>1, <2>2, <1>0, <1>1, <1>4, <1>5, <1>k, <1>p DEF CountInv
<1>12. LoopInv(w)'
  <2>1. pc[w] \notin Between
    <3>1. T # o \/ L # o
      BY <1>a, <1>5
    <3> QED
      BY Zenon, <3>1, <1>1, <1>p DEF LoopInv
  <2>2. pc[w] # "idle" /\ pc[w] # "prepare" /\ pc[w] # "head"
    BY Zenon, <2>1, StepNames
  <2> QED
    BY Zenon, <2>1, <2>2, <1>1, <1>5, <1>k, <1>p DEF LoopInv
<1>13. SqInv(w)'
  BY Zenon, <1>0, <1>1, <1>5, <1>k, <1>p DEF SqInv
<1>14. HeldInv(w)'
  <2>0. /\ \A m \in 1 .. I : inflight[m].op \in o .. F - 1 /\ inflight[m] = EntryOf(w, inflight[m].op)
        /\ \A m, n1 \in 1 .. I : m # n1 => inflight[m].op # inflight[n1].op
    BY Zenon, <1>1, <1>p DEF HeldInv
  <2>1. ASSUME NEW j \in 1 .. I - 1
        PROVE  \E m \in 1 .. I : /\ inflight'[j] = inflight[m]
                                 /\ m = IF j < i THEN j ELSE j + 1
    <3>1. (IF j < i THEN j ELSE j + 1) \in 1 .. I
      BY <1>a
    <3> QED
      BY Zenon, <3>1, <1>2
  <2>2. ASSUME NEW j \in 1 .. I - 1
        PROVE  inflight'[j].op \in o .. F - 1 /\ inflight'[j] = EntryOf(w, inflight'[j].op)
    <3>1. PICK m \in 1 .. I : inflight'[j] = inflight[m]
      BY Zenon, <2>1
    <3>2. inflight[m].op \in o .. F - 1 /\ inflight[m] = EntryOf(w, inflight[m].op)
      BY Zenon, <2>0
    <3> QED
      BY Zenon, <3>1, <3>2
  <2>3. ASSUME NEW j \in 1 .. I - 1, NEW k \in 1 .. I - 1, j # k
        PROVE  inflight'[j].op # inflight'[k].op
    <3>1. PICK m \in 1 .. I : inflight'[j] = inflight[m] /\ m = IF j < i THEN j ELSE j + 1
      BY Zenon, <2>1
    <3>2. PICK n1 \in 1 .. I : inflight'[k] = inflight[n1] /\ n1 = IF k < i THEN k ELSE k + 1
      BY Zenon, <2>1
    <3>3. m # n1
      BY <2>3, <3>1, <3>2, <1>a
    <3>4. inflight[m].op # inflight[n1].op
      BY Zenon, <3>3, <2>0
    <3> QED
      BY Zenon, <3>1, <3>2, <3>4
  <2>4. /\ DOMAIN inflight' = 1 .. I - 1 /\ FetchedCount' = F /\ ops_done'[w] = o
        /\ \A k : EntryOf(w, k)' = EntryOf(w, k)
    BY Zenon, <1>1, <1>2, <1>5, <1>k
  <2> QED
    BY Zenon, <2>2, <2>3, <2>4 DEF HeldInv, EntryOf
<1>15. OnceInv'
  <2>1. ASSUME NEW j \in 1 .. L + 1 PROVE log'[j].cmd.op \in 0 .. F - 1
    <3>1. CASE j \in 1 .. L
      BY Zenon, <3>1, <1>1, <1>4, <1>p DEF OnceInv
    <3>2. CASE j \notin 1 .. L
      <4>1. j = L + 1 /\ o .. F - 1 \subseteq 0 .. F - 1
        BY <3>2, <1>a
      <4> QED
        BY Zenon, <4>1, <1>3, <1>4
    <3> QED
      BY Zenon, <3>1, <3>2
  <2>2. ASSUME NEW k \in 0 .. F - 1
        PROVE  \/ \E j \in 1 .. L + 1 : log'[j].cmd.op = k
               \/ \E j \in 1 .. I - 1 : inflight'[j].op = k
    <3>1. CASE \E j \in 1 .. L : log[j].cmd.op = k
      <4>1. 1 .. L \subseteq 1 .. L + 1
        OBVIOUS
      <4> QED
        BY Zenon, <3>1, <4>1, <1>4
    <3>2. CASE \E m \in 1 .. I : inflight[m].op = k
      <4>1. PICK m \in 1 .. I : inflight[m].op = k
        BY Zenon, <3>2
      <4>2. CASE m = i
        <5>1. L + 1 \in 1 .. L + 1
          OBVIOUS
        <5> QED
          BY Zenon, <4>1, <4>2, <5>1, <1>3, <1>4
      <4>3. CASE m < i
        <5>1. m \in 1 .. I - 1
          BY <4>3, <1>a
        <5> QED
          BY Zenon, <4>1, <4>3, <5>1, <1>2
      <4>4. CASE m > i
        <5>1. PICK j \in 1 .. I - 1 : j + 1 = m /\ ~(j < i)
          <6>1. m - 1 \in 1 .. I - 1 /\ (m - 1) + 1 = m /\ ~(m - 1 < i)
            BY <4>4, <1>a
          <6> QED
            BY Zenon, <6>1
        <5>2. inflight'[j] = inflight[m]
          BY Zenon, <5>1, <1>2
        <5> QED
          BY Zenon, <4>1, <5>2
      <4>5. m = i \/ m < i \/ m > i
        BY <1>a
      <4> QED
        BY Zenon, <4>2, <4>3, <4>4, <4>5
    <3> QED
      BY Zenon, <3>1, <3>2, <1>1, <1>p DEF OnceInv
  <2> QED
    BY Zenon, <2>1, <2>2, <1>2, <1>4, <1>5 DEF OnceInv
<1>16. PhaseInv(w)'
  <2>1. ASSUME NEW s \in Slots
        PROVE  cq'[s].phase = IF s < n THEN postPhase' ELSE 1 - postPhase'
    <3>1. cq'[s].phase = IF s <= postTail THEN postPhase ELSE 1 - postPhase
      <4>1. CASE s = postTail
        <5>1. s <= postTail
          BY <4>1, <1>6, QueueConstants
        <5> QED
          BY Zenon, <4>1, <5>1, <1>9
      <4>2. CASE s # postTail
        <5>1. (s <= postTail) <=> (s < postTail)
          BY <4>2, <1>6, QueueConstants
        <5> QED
          BY Zenon, <4>2, <5>1, <1>9, <1>p DEF PhaseInv
      <4> QED
        BY Zenon, <4>1, <4>2
    <3>2. postPhase' = IF n = 0 THEN 1 - postPhase ELSE postPhase
      BY Zenon, <1>0, <1>7
    <3> QED
      BY <3>1, <3>2, <1>6, <1>7, QueueConstants
  <2> QED
    BY Zenon, <2>1, <1>7, <1>8, <1>k DEF PhaseInv
<1>17. CqInv(w)'
  <2>1. ASSUME NEW k \in C .. (L + 1) - 1
        PROVE  cq'[k % QueueSize].ok = log'[k + 1].ok
    <3>1. CASE k = L
      BY Zenon, <3>1, <1>4, <1>6, <1>9
    <3>2. CASE k # L
      <4>0. C <= L /\ L - C < QueueSize - 1 /\ QueueSize \in Nat
        BY Zenon, <1>1, <1>5, QueueConstants
      <4>1. k \in C .. L - 1 /\ k \in Nat /\ k < L /\ L - k < QueueSize /\ k + 1 \in 1 .. L
        BY <4>0, <3>2
      <4>2. k % QueueSize # L % QueueSize /\ k % QueueSize \in Slots
        BY Zenon, <4>1, PlaceDistinct, PlaceIn
      <4> QED
        BY Zenon, <4>1, <4>2, <1>1, <1>4, <1>6, <1>9, <1>p DEF CqInv
    <3> QED
      BY Zenon, <3>1, <3>2
  <2> QED
    BY Zenon, <2>1, <1>1, <1>4, <1>k DEF CqInv
<1>18. SerialInv(w)'
  <2>1. SUFFICES ASSUME ~Stateful, config.batchSize = 1
                 PROVE  /\ \A j \in 1 .. L + 1 : log'[j].cmd.op = j - 1
                        /\ \A j \in 1 .. C : log'[j].ok
    BY Zenon, <1>1, <1>4, <1>k DEF SerialInv
  <2>2. batch_count(w) <= 1
    <3>1. ops_done[w] <= Total
      <4>1. T <= Total /\ Total \in Nat
        BY Zenon, <1>1, <1>p, Counts
      <4> QED
        BY <4>1, <1>1
    <3> QED
      BY Zenon, <3>1, <2>1, <1>p, BatchCount
  <2>3. c.op = L
    <3>1. PICK b \in Nat : b <= 1 /\ T <= o + b
      BY Zenon, <2>2, <1>1
    <3>2. o <= C /\ C <= L /\ F <= T /\ L + 1 <= F /\ c.op \in o .. F - 1
      BY Zenon, <1>1, <1>3, <1>5
    <3> QED
      BY <3>1, <3>2
  <2>4. ASSUME NEW j \in 1 .. L + 1 PROVE log'[j].cmd.op = j - 1
    <3>1. CASE j \in 1 .. L
      BY Zenon, <2>1, <3>1, <1>1, <1>4, <1>p DEF SerialInv
    <3>2. CASE j \notin 1 .. L
      <4>1. j = L + 1 /\ j - 1 = L
        BY <3>2
      <4> QED
        BY Zenon, <4>1, <2>3, <1>4
    <3> QED
      BY Zenon, <3>1, <3>2
  <2>5. 1 .. C \subseteq 1 .. L
    BY <1>a
  <2> QED
    BY Zenon, <2>1, <2>4, <2>5, <1>1, <1>4, <1>p DEF SerialInv
<1> QED
  BY Zenon, <1>k, <1>10, <1>11, <1>12, <1>13, <1>14, <1>15, <1>16, <1>17, <1>18 DEF BatchInv


-----------------------------------------------------------------------------
(* The driver.                                                             *)

\* A step of the driver that leaves the rings alone.
LEMMA QueueKeeps ==
    ASSUME UNCHANGED queueVars
    PROVE  /\ UNCHANGED <<sq, cq, sqTailDb, cqHeadDb, fetchHead, postTail, postPhase, inflight, log>>
           /\ QueueTypes => QueueTypes'
           /\ OnceInv => OnceInv'
           /\ FetchedCount' = FetchedCount /\ ToldCount' = ToldCount
<1>1. UNCHANGED <<sq, cq, sqTailDb, cqHeadDb, fetchHead, postTail, postPhase, inflight, log>>
  BY Zenon DEF queueVars
<1>2. FetchedCount' = FetchedCount
  BY Zenon, <1>1 DEF FetchedCount
<1>3. ToldCount' = ToldCount
  BY Zenon, <1>1, <1>2 DEF ToldCount, Distance
<1>4. QueueTypes => QueueTypes'
  BY Zenon, <1>1 DEF QueueTypes
<1>5. OnceInv => OnceInv'
  BY Zenon, <1>1, <1>2 DEF OnceInv
<1> QED
  BY Zenon, <1>1, <1>2, <1>3, <1>4, <1>5

\* The size of the batch depends on the run, the launch and what is done.
LEMMA BatchKeeps ==
    ASSUME NEW w \in Drivers, UNCHANGED <<config, n_ops>>, ops_done'[w] = ops_done[w]
    PROVE  /\ Stateful' = Stateful /\ Total' = Total /\ batch_count(w)' = batch_count(w)
           /\ \A k : EntryOf(w, k)' = EntryOf(w, k) /\ SqeOf(w, k)' = SqeOf(w, k)
<1>1. Stateful' = Stateful /\ Total' = Total
  BY Zenon DEF Stateful, Total
<1>2. batch_count(w)' = batch_count(w)
  BY Zenon, <1>1 DEF batch_count, batch_size, ClampToQueue
<1> QED
  BY Zenon, <1>1, <1>2 DEF EntryOf, SqeOf

\* A step that changes only the driver's place in its loop.
LEMMA PcStep ==
    ASSUME NEW w \in Drivers, BatchInv(w), NEW q \in DriverSteps, pc' = [pc EXCEPT ![w] = q],
           UNCHANGED <<queueVars, config, launchVars, sq_tail, cq_head, expected_phase, ops_done,
                       prepared, polled>>,
           q \in Between => q = "prepare" /\ pc[w] = "head" /\ ops_done[w] < Total,
           q \in Waiting => pc[w] \in Waiting,
           q # "polled", pc[w] # "prepare"
    PROVE  BatchInv(w)'
<1>p. /\ QueueTypes /\ DriverTypes /\ CountInv(w) /\ LoopInv(w) /\ SqInv(w)
      /\ HeldInv(w) /\ OnceInv /\ PhaseInv(w) /\ CqInv(w) /\ SerialInv(w)
  BY Zenon DEF BatchInv
<1>0. UNCHANGED <<queueVars, config, n_ops, state, sq_tail, cq_head, expected_phase, ops_done,
                  prepared, polled>>
  BY Zenon DEF launchVars
<1>1. /\ UNCHANGED <<sq, cq, sqTailDb, cqHeadDb, fetchHead, postTail, postPhase, inflight, log>>
      /\ QueueTypes' /\ OnceInv' /\ FetchedCount' = FetchedCount /\ ToldCount' = ToldCount
  BY Zenon, <1>0, <1>p, QueueKeeps
<1>2. /\ Stateful' = Stateful /\ Total' = Total /\ batch_count(w)' = batch_count(w)
      /\ \A k : EntryOf(w, k)' = EntryOf(w, k) /\ SqeOf(w, k)' = SqeOf(w, k)
  BY Zenon, <1>0, BatchKeeps
<1>3. Consumed(w)' = Consumed(w)
  BY Zenon, <1>0 DEF Consumed
<1>4. pc'[w] = q /\ pc' \in [Drivers -> DriverSteps]
  BY Zenon, <1>p DEF DriverTypes
<1>5. DriverTypes'
  BY Zenon, <1>0, <1>4, <1>p DEF DriverTypes
<1>6. CountInv(w)'
  BY Zenon, <1>0, <1>1, <1>2, <1>3, <1>p DEF CountInv
<1>7. LoopInv(w)'
  <2>1. q # "idle" /\ q # "head"
    BY Zenon, StepNames
  <2>2. q = "prepare" => batch_count(w) > 0 /\ ops_done[w] + batch_count(w) <= Total
    <3>1. q = "prepare" => ~Stateful /\ ops_done[w] < Total
      BY Zenon, <1>p, StepNames DEF LoopInv
    <3>2. ops_done[w] < Total => ops_done[w] <= Total
      BY <1>p, RunOf DEF DriverTypes
    <3> QED
      BY Zenon, <3>1, <3>2, <1>p, BatchCount
  <2>3. q \in Between => pc[w] \in Between
    BY Zenon, StepNames
  <2>4. q # "prepare" => prepared[w] = {}
    BY Zenon, <1>p DEF LoopInv
  <2> QED
    BY Zenon, <2>1, <2>2, <2>3, <2>4, <1>0, <1>1, <1>2, <1>4, <1>p DEF LoopInv
<1>8. SqInv(w)' /\ HeldInv(w)'
  BY Zenon, <1>0, <1>1, <1>2, <1>p DEF SqInv, HeldInv
<1>9. PhaseInv(w)' /\ CqInv(w)' /\ SerialInv(w)'
  BY Zenon, <1>0, <1>1, <1>2, <1>3, <1>p DEF PhaseInv, CqInv, SerialInv
<1> QED
  BY Zenon, <1>1, <1>5, <1>6, <1>7, <1>8, <1>9 DEF BatchInv


\* A completion of the phase the driver expects was posted and not consumed.
LEMMA ReadyIsPosted ==
    ASSUME NEW w \in Drivers, BatchInv(w), CqeReady(cq_head[w], expected_phase[w])
    PROVE  Consumed(w) < Len(log)
<1>p. QueueTypes /\ DriverTypes /\ CountInv(w) /\ PhaseInv(w)
  BY Zenon DEF BatchInv
<1>1. PICK L \in Nat, C \in Nat : L = Len(log) /\ C = Consumed(w) /\ C <= L
  BY Zenon, <1>p, Counts
<1>2. PICK h \in Slots : /\ h = cq_head[w] /\ h = C % QueueSize /\ postTail = L % QueueSize
                         /\ expected_phase[w] \in Phases
  BY Zenon, <1>1, <1>p DEF DriverTypes, CountInv
<1>3. cq[h].phase = expected_phase[w]
  BY Zenon, <1>2 DEF CqeReady, XioComDequeue
<1>4. SUFFICES ASSUME C = L PROVE FALSE
  BY <1>1
<1>5. postTail = h /\ ~(h < h)
  BY <1>2, <1>4, QueueConstants
<1>6. cq[h].phase = 1 - postPhase /\ postPhase = expected_phase[w]
  BY Zenon, <1>2, <1>5, <1>p DEF PhaseInv
<1> QED
  BY <1>2, <1>3, <1>6, QueueConstants

\* A completion is consumed, or ends the run.
LEMMA ConsumeBatch ==
    ASSUME NEW w \in Drivers, BatchInv(w), pc[w] \in Waiting,
           CqeReady(cq_head[w], expected_phase[w]), ConsumeCqe(w),
           UNCHANGED <<queueVars, runVars, launchVars, sq_tail, ops_done, prepared>>
    PROVE  BatchInv(w)'
<1>p. /\ QueueTypes /\ DriverTypes /\ CountInv(w) /\ LoopInv(w) /\ SqInv(w)
      /\ HeldInv(w) /\ OnceInv /\ PhaseInv(w) /\ CqInv(w) /\ SerialInv(w)
  BY Zenon DEF BatchInv
<1>0. UNCHANGED <<queueVars, config, n_ops, state, sq_tail, ops_done, prepared>>
  BY Zenon DEF launchVars, runVars
<1>c. CASE ~(cq[cq_head[w]].ok \/ Stateful)
  <2>1. pc' = [pc EXCEPT ![w] = Failed] /\ UNCHANGED <<cq_head, expected_phase, polled>>
    BY Zenon, <1>c DEF ConsumeCqe
  <2>2. /\ Failed \in DriverSteps /\ Failed \notin Between /\ Failed \notin Waiting
        /\ Failed # "polled" /\ pc[w] # "prepare"
    BY Zenon, StepNames DEF Failed
  <2>3. UNCHANGED <<queueVars, config, launchVars, sq_tail, cq_head, expected_phase, ops_done,
                    prepared, polled>>
    BY Zenon, <2>1 DEF runVars
  <2>4. PICK q \in DriverSteps : q = Failed
    BY Zenon, <2>2
  <2> QED
    BY Zenon, <2>1, <2>2, <2>3, <2>4, PcStep
<1>d. CASE cq[cq_head[w]].ok \/ Stateful
  <2>0. /\ cq_head' = [cq_head EXCEPT ![w] = Advance(@, 1)]
        /\ expected_phase' = [expected_phase EXCEPT ![w] = NextPhase(cq_head[w], @)]
        /\ polled' = [polled EXCEPT ![w] = @ + 1]
        /\ pc' = [pc EXCEPT ![w] = IF LastPolled(w) THEN "polled" ELSE "first"]
    BY Zenon, <1>d DEF ConsumeCqe
  <2>1. /\ UNCHANGED <<sq, cq, sqTailDb, cqHeadDb, fetchHead, postTail, postPhase, inflight, log>>
        /\ QueueTypes' /\ OnceInv' /\ FetchedCount' = FetchedCount /\ ToldCount' = ToldCount
    BY Zenon, <1>0, <1>p, QueueKeeps
  <2>2. /\ Stateful' = Stateful /\ Total' = Total /\ batch_count(w)' = batch_count(w)
        /\ \A k : EntryOf(w, k)' = EntryOf(w, k) /\ SqeOf(w, k)' = SqeOf(w, k)
    BY Zenon, <1>0, BatchKeeps
  <2>3. PICK L \in Nat, C \in Nat, o \in Nat, p \in Nat, b \in Nat, T \in Nat :
          /\ L = Len(log) /\ C = Consumed(w) /\ o = ops_done[w] /\ p = polled[w]
          /\ b = batch_count(w) /\ T = ToldCount
          /\ C = o + p /\ C < L /\ L <= T /\ T - o < QueueSize /\ p < b /\ o <= C
    <3>1. /\ Len(log) \in Nat /\ Consumed(w) \in Nat /\ ops_done[w] \in Nat /\ polled[w] \in Nat
          /\ batch_count(w) \in Nat /\ ToldCount \in Nat /\ FetchedCount \in Nat
          /\ Len(log) <= FetchedCount /\ FetchedCount <= ToldCount
          /\ ToldCount - ops_done[w] < QueueSize /\ ops_done[w] <= Consumed(w)
      BY Zenon, <1>p, Counts, QueueConstants
    <3>2. Len(log) <= ToldCount
      BY <3>1
    <3>3. Consumed(w) < Len(log)
      BY Zenon, ReadyIsPosted
    <3>4. polled[w] < batch_count(w)
      BY Zenon, <1>p DEF LoopInv
    <3> QED
      BY Zenon, <3>1, <3>2, <3>3, <3>4 DEF Consumed
  <2>4. /\ cq_head[w] \in Slots /\ expected_phase[w] \in Phases /\ pc[w] \in DriverSteps
        /\ postTail \in Slots /\ postPhase \in Phases
        /\ cq_head[w] = C % QueueSize /\ postTail = L % QueueSize
    BY Zenon, <2>3, <1>p DEF DriverTypes, QueueTypes, CountInv
  <2>5. PICK n \in Slots : n = Advance(cq_head[w], 1)
                           /\ n = IF cq_head[w] + 1 = QueueSize THEN 0 ELSE cq_head[w] + 1
    BY Zenon, <2>4, AdvanceOne
  <2>6. PICK f \in Phases : f = NextPhase(cq_head[w], expected_phase[w])
                            /\ postPhase = IF postTail < n THEN 1 - f ELSE f
    <3>1. PICK h \in 0 .. QueueSize - 1, t \in 0 .. QueueSize - 1, e \in {0, 1}, q \in {0, 1} :
            /\ h = cq_head[w] /\ t = postTail /\ e = expected_phase[w] /\ q = postPhase
            /\ n \in 0 .. QueueSize - 1
      BY Zenon, <2>4, QueueConstants
    <3>2. h # t
      <4>0. C < L /\ L <= T /\ T - o < QueueSize /\ o <= C /\ QueueSize \in Nat
        BY Zenon, <2>3, QueueConstants
      <4>1. L - C < QueueSize
        BY <4>0
      <4> QED
        BY Zenon, <3>1, <4>1, <2>3, <2>4, PlaceDistinct
    <3>3. q = IF t < h THEN 1 - e ELSE e
      BY Zenon, <3>1, <1>p DEF PhaseInv
    <3>4. PICK f : f = NextPhase(cq_head[w], expected_phase[w])
      BY Zenon
    <3>5. f = IF n = 0 THEN 1 - e ELSE e
      BY Zenon, <3>1, <3>4, <2>5 DEF NextPhase
    <3>6. n = IF h + 1 = QueueSize THEN 0 ELSE h + 1
      BY Zenon, <3>1, <2>5
    <3>7. f \in {0, 1} /\ q = IF t < n THEN 1 - f ELSE f
      <4>1. /\ h \in 0 .. QueueSize - 1 /\ t \in 0 .. QueueSize - 1 /\ n \in 0 .. QueueSize - 1
            /\ e \in {0, 1} /\ q \in {0, 1} /\ QueueSize \in Nat
        BY Zenon, <3>1, QueueConstants
      <4> QED
        BY <4>1, <3>2, <3>3, <3>5, <3>6
    <3> QED
      BY Zenon, <3>1, <3>4, <3>7, QueueConstants
  <2>7. /\ cq_head' \in [Drivers -> Slots] /\ cq_head'[w] = n
        /\ expected_phase' \in [Drivers -> Phases] /\ expected_phase'[w] = f
        /\ polled' \in [Drivers -> Nat] /\ polled'[w] = p + 1
    <3>1. /\ cq_head' = [cq_head EXCEPT ![w] = n] /\ expected_phase' = [expected_phase EXCEPT ![w] = f]
          /\ polled' = [polled EXCEPT ![w] = p + 1] /\ p + 1 \in Nat
      <4>1. p + 1 \in Nat
        OBVIOUS
      <4> QED
        BY Zenon, <4>1, <2>0, <2>3, <2>5, <2>6
    <3> QED
      BY Zenon, <3>1, <1>p DEF DriverTypes
  <2>8. PICK q \in DriverSteps : /\ q = (IF p + 1 = b THEN "polled" ELSE "first")
                                 /\ pc' \in [Drivers -> DriverSteps] /\ pc'[w] = q
    <3>1. PICK q : q = IF p + 1 = b THEN "polled" ELSE "first"
      BY Zenon
    <3>2. q \in DriverSteps
      BY Zenon, <3>1, StepNames
    <3>3. pc' = [pc EXCEPT ![w] = q]
      BY Zenon, <3>1, <2>0, <2>3 DEF LastPolled
    <3> QED
      BY Zenon, <3>1, <3>2, <3>3, <1>p DEF DriverTypes
  <2>9. Consumed(w)' = C + 1 /\ C + 1 \in Nat /\ C + 1 <= L
    <3>1. Consumed(w)' = o + (p + 1)
      BY Zenon, <2>3, <2>7, <1>0 DEF Consumed
    <3>2. o + (p + 1) = C + 1 /\ C + 1 \in Nat /\ C + 1 <= L
      <4>1. C = o + p /\ C < L
        BY Zenon, <2>3
      <4> QED
        BY <4>1
    <3> QED
      BY Zenon, <3>1, <3>2
  <2>10. DriverTypes'
    BY Zenon, <2>7, <2>8, <1>0, <1>p DEF DriverTypes
  <2>11. CountInv(w)'
    <3>1. n = (C + 1) % QueueSize
      <4>1. 1 \in Slots
        BY QueueConstants
      <4>2. Advance(C % QueueSize, 1) = (C + 1) % QueueSize
        BY Zenon, <4>1, PlaceStep
      <4> QED
        BY Zenon, <4>2, <2>4, <2>5
    <3> QED
      BY Zenon, <3>1, <2>1, <2>2, <2>3, <2>7, <2>9, <1>0, <1>p DEF CountInv
  <2>12. LoopInv(w)'
    <3>1. ToldCount = ops_done[w] + batch_count(w) /\ prepared[w] = {}
      BY Zenon, <1>p, StepNames DEF LoopInv
    <3>2. p + 1 # b => p + 1 < b
      BY <2>3
    <3>3. /\ q \notin Between /\ q # "prepare" /\ q # "idle" /\ q # "head"
          /\ q \in Waiting => p + 1 # b
          /\ q = "polled" => p + 1 = b
      BY Zenon, <2>8, StepNames
    <3> QED
      BY Zenon, <3>1, <3>2, <3>3, <2>1, <2>2, <2>3, <2>7, <2>8, <1>0 DEF LoopInv
  <2>13. SqInv(w)' /\ HeldInv(w)'
    BY Zenon, <1>0, <2>1, <2>2, <1>p DEF SqInv, HeldInv
  <2>14. PhaseInv(w)'
    BY Zenon, <2>1, <2>6, <2>7, <1>p DEF PhaseInv
  <2>15. CqInv(w)'
    <3>1. C + 1 .. L - 1 \subseteq C .. L - 1
      BY <2>3
    <3> QED
      BY Zenon, <3>1, <2>1, <2>3, <2>9, <1>p DEF CqInv
  <2>16. SerialInv(w)'
    <3>1. SUFFICES ASSUME ~Stateful, config.batchSize = 1
                   PROVE  \A i \in 1 .. C + 1 : log[i].ok
      BY Zenon, <2>1, <2>2, <2>9, <1>0, <1>p DEF SerialInv
    <3>2. log[C + 1].ok
      <4>1. C \in C .. L - 1
        BY <2>3
      <4> QED
        BY Zenon, <3>1, <4>1, <2>3, <2>4, <1>d, <1>p DEF CqInv
    <3>3. \A i \in 1 .. C : log[i].ok
      BY Zenon, <3>1, <2>3, <1>p DEF SerialInv
    <3>4. \A i \in 1 .. C + 1 : i \in 1 .. C \/ i = C + 1
      BY <2>3
    <3> QED
      BY Zenon, <3>2, <3>3, <3>4
  <2> QED
    BY Zenon, <2>1, <2>10, <2>11, <2>12, <2>13, <2>14, <2>15, <2>16 DEF BatchInv
<1> QED
  BY Zenon, <1>c, <1>d


\* A stop request, and a step that changes nothing.
LEMMA KeepBatch ==
    ASSUME NEW w \in Drivers, BatchInv(w), UNCHANGED <<queueVars, config, driverVars, launchVars>>
    PROVE  BatchInv(w)'
<1>p. /\ QueueTypes /\ DriverTypes /\ CountInv(w) /\ LoopInv(w) /\ SqInv(w)
      /\ HeldInv(w) /\ OnceInv /\ PhaseInv(w) /\ CqInv(w) /\ SerialInv(w)
  BY Zenon DEF BatchInv
<1>0. UNCHANGED <<queueVars, config, n_ops, state, pc, sq_tail, cq_head, expected_phase, ops_done,
                  prepared, polled>>
  BY Zenon DEF launchVars, driverVars
<1>1. /\ UNCHANGED <<sq, cq, sqTailDb, cqHeadDb, fetchHead, postTail, postPhase, inflight, log>>
      /\ QueueTypes' /\ OnceInv' /\ FetchedCount' = FetchedCount /\ ToldCount' = ToldCount
  BY Zenon, <1>0, <1>p, QueueKeeps
<1>2. /\ Stateful' = Stateful /\ Total' = Total /\ batch_count(w)' = batch_count(w)
      /\ \A k : EntryOf(w, k)' = EntryOf(w, k) /\ SqeOf(w, k)' = SqeOf(w, k)
  BY Zenon, <1>0, BatchKeeps
<1>3. Consumed(w)' = Consumed(w)
  BY Zenon, <1>0 DEF Consumed
<1>4. DriverTypes'
  BY Zenon, <1>0, <1>p DEF DriverTypes
<1>5. CountInv(w)'
  BY Zenon, <1>0, <1>1, <1>2, <1>3, <1>p DEF CountInv
<1>6. LoopInv(w)'
  BY Zenon, <1>0, <1>1, <1>2, <1>p DEF LoopInv, SavedState
<1>7. SqInv(w)' /\ HeldInv(w)'
  BY Zenon, <1>0, <1>1, <1>2, <1>p DEF SqInv, HeldInv
<1>8. PhaseInv(w)' /\ CqInv(w)' /\ SerialInv(w)'
  BY Zenon, <1>0, <1>1, <1>2, <1>3, <1>p DEF PhaseInv, CqInv, SerialInv
<1> QED
  BY Zenon, <1>1, <1>4, <1>5, <1>6, <1>7, <1>8 DEF BatchInv

LEMMA StartStep ==
    ASSUME NEW w \in Drivers, BatchInv(w), StartBatch(w)
    PROVE  BatchInv(w)'
<1>1. PICK q : q = IF ops_done[w] < Total /\ ~stopRequested THEN "prepare" ELSE "done"
  BY Zenon
<1>2. /\ pc[w] = "head" /\ pc' = [pc EXCEPT ![w] = q]
      /\ UNCHANGED <<queueVars, config, launchVars, sq_tail, cq_head, expected_phase, ops_done,
                     prepared, polled>>
  BY Zenon, <1>1 DEF StartBatch, runVars
<1>3. /\ q \in DriverSteps /\ (q \in Between => q = "prepare" /\ pc[w] = "head" /\ ops_done[w] < Total)
      /\ (q \in Waiting => pc[w] \in Waiting) /\ q # "polled" /\ pc[w] # "prepare"
  BY Zenon, <1>1, <1>2, StepNames
<1> QED
  BY Zenon, <1>2, <1>3, PcStep

\* A look at the completion ring: it consumes, goes on looking or gives up.
LEMMA PollStep ==
    ASSUME NEW w \in Drivers, BatchInv(w),
           PollFirst(w) \/ PollSpin(w) \/ PollStop(w) \/ PollTimeout(w)
    PROVE  BatchInv(w)'
<1>1. pc[w] \in Waiting
  BY Zenon, StepNames DEF PollFirst, PollSpin, PollStop, PollTimeout
<1>2. \/ /\ CqeReady(cq_head[w], expected_phase[w]) /\ ConsumeCqe(w)
         /\ UNCHANGED <<queueVars, runVars, launchVars, sq_tail, ops_done, prepared>>
      \/ \E q \in {"done", "spin", "error", "trap"} :
           /\ pc' = [pc EXCEPT ![w] = q]
           /\ UNCHANGED <<queueVars, config, launchVars, sq_tail, cq_head, expected_phase, ops_done,
                          prepared, polled>>
  <2>1. CASE PollFirst(w)
    BY Zenon, <2>1 DEF PollFirst, runVars
  <2>2. CASE PollSpin(w)
    BY Zenon, <2>2 DEF PollSpin
  <2>3. CASE PollStop(w)
    BY Zenon, <2>3 DEF PollStop, runVars
  <2>4. CASE PollTimeout(w)
    <3>1. Failed \in {"done", "spin", "error", "trap"}
      BY Zenon DEF Failed
    <3> QED
      BY Zenon, <2>4, <3>1 DEF PollTimeout, runVars
  <2> QED
    BY Zenon, <2>1, <2>2, <2>3, <2>4
<1>3. CASE /\ CqeReady(cq_head[w], expected_phase[w]) /\ ConsumeCqe(w)
           /\ UNCHANGED <<queueVars, runVars, launchVars, sq_tail, ops_done, prepared>>
  BY Zenon, <1>1, <1>3, ConsumeBatch
<1>4. CASE \E q \in {"done", "spin", "error", "trap"} :
             /\ pc' = [pc EXCEPT ![w] = q]
             /\ UNCHANGED <<queueVars, config, launchVars, sq_tail, cq_head, expected_phase, ops_done,
                            prepared, polled>>
  <2>1. PICK q \in {"done", "spin", "error", "trap"} :
             /\ pc' = [pc EXCEPT ![w] = q]
             /\ UNCHANGED <<queueVars, config, launchVars, sq_tail, cq_head, expected_phase, ops_done,
                            prepared, polled>>
    BY Zenon, <1>4
  <2>2. /\ q \in DriverSteps /\ q \notin Between /\ q # "polled" /\ pc[w] # "prepare"
    BY Zenon, <1>1, StepNames
  <2> QED
    BY Zenon, <1>1, <2>1, <2>2, PcStep
<1> QED
  BY Zenon, <1>2, <1>3, <1>4

\* The caller of rxio_submit keeps a launch below the size of the ring.
LEMMA LaunchFits ==
    ASSUME NEW w \in Drivers, BatchInv(w), NEW n \in 1 .. config.batchSize, Launch(w, n)
    PROVE  n \in Slots \ {0}
<1>1. pc[w] = "idle" /\ DriverTypes /\ LoopInv(w)
  BY Zenon DEF BatchInv, Launch
<1>2. Stateful /\ config \in Configs
  BY Zenon, <1>1, StepNames DEF LoopInv, DriverTypes
<1>3. config.kernel = "stateful"
  BY Zenon, <1>2 DEF Stateful
<1>4. config.batchSize < QueueSize
  BY Zenon, <1>2, <1>3, BatchAssumption
<1>5. config.batchSize \in Nat
  BY Zenon, <1>1, RunOf
<1>6. PICK b \in Nat : b = config.batchSize /\ b < QueueSize
  BY Zenon, <1>4, <1>5
<1>7. n \in 1 .. b
  BY Zenon, <1>6
<1> QED
  BY <1>6, <1>7, QueueConstants DEF Slots

\* A launch of the stateful kernel starts where the last one ended.
LEMMA LaunchStep ==
    ASSUME NEW w \in Drivers, BatchInv(w), NEW n \in Slots \ {0}, Launch(w, n)
    PROVE  BatchInv(w)'
<1>p. /\ QueueTypes /\ DriverTypes /\ CountInv(w) /\ LoopInv(w) /\ SqInv(w)
      /\ HeldInv(w) /\ OnceInv /\ PhaseInv(w) /\ CqInv(w) /\ SerialInv(w)
  BY Zenon DEF BatchInv
<1>0. /\ pc[w] = "idle" /\ ops_done[w] + n <= Total /\ n_ops' = n
      /\ UNCHANGED <<queueVars, config, state, ops_done, prepared, polled>>
  BY Zenon DEF Launch, runVars
<1>1. /\ UNCHANGED <<sq, cq, sqTailDb, cqHeadDb, fetchHead, postTail, postPhase, inflight, log>>
      /\ QueueTypes' /\ OnceInv' /\ FetchedCount' = FetchedCount /\ ToldCount' = ToldCount
  BY Zenon, <1>0, <1>p, QueueKeeps
<1>2. Stateful /\ state = SavedState(w) /\ prepared[w] = {} /\ ToldCount = ops_done[w]
      /\ Len(log) = ops_done[w] /\ polled[w] = 0
  BY Zenon, <1>0, <1>p, StepNames DEF LoopInv
<1>3. /\ Stateful' /\ Total' = Total /\ batch_count(w)' = n
      /\ \A k : EntryOf(w, k)' = EntryOf(w, k)
  <2>1. Stateful' /\ Total' = Total
    BY Zenon, <1>0, <1>2 DEF Stateful, Total
  <2> QED
    BY Zenon, <1>0, <2>1 DEF batch_count, EntryOf
<1>4. /\ sq_tail' \in [Drivers -> Slots] /\ sq_tail'[w] = sq_tail[w]
      /\ cq_head' \in [Drivers -> Slots] /\ cq_head'[w] = cq_head[w]
      /\ expected_phase' \in [Drivers -> Phases] /\ expected_phase'[w] = expected_phase[w]
      /\ pc' \in [Drivers -> DriverSteps] /\ pc'[w] = "prepare"
  <2>1. /\ sq_tail' = [sq_tail EXCEPT ![w] = state.tail]
        /\ cq_head' = [cq_head EXCEPT ![w] = state.head]
        /\ expected_phase' = [expected_phase EXCEPT ![w] = state.phase]
        /\ pc' = [pc EXCEPT ![w] = "prepare"]
    BY Zenon DEF Launch
  <2>2. state.tail = sq_tail[w] /\ state.head = cq_head[w] /\ state.phase = expected_phase[w]
    BY Zenon, <1>2 DEF SavedState
  <2>3. "prepare" \in DriverSteps
    BY Zenon, StepNames
  <2> QED
    BY Zenon, <2>1, <2>2, <2>3, <1>p DEF DriverTypes
<1>5. PICK o \in Nat, T \in Nat, m \in Nat : /\ o = ops_done[w] /\ T = Total /\ m = n /\ o = ToldCount
                                             /\ m > 0 /\ o + m <= T /\ o <= o + m
  <2>1. PICK o \in Nat, T \in Nat, m \in Nat : o = ops_done[w] /\ T = Total /\ m = n
    BY Zenon, <1>p, Counts, QueueConstants
  <2>2. m # 0
    BY Zenon, <2>1
  <2>3. m > 0 /\ o <= o + m
    BY <2>1, <2>2
  <2> QED
    BY Zenon, <2>1, <2>3, <1>0, <1>2
<1>6. Consumed(w)' = Consumed(w)
  BY Zenon, <1>0 DEF Consumed
<1>7. DriverTypes'
  BY Zenon, <1>0, <1>4, <1>p DEF DriverTypes
<1>8. CountInv(w)'
  <2>1. /\ ops_done[w] <= ToldCount /\ ToldCount <= Total /\ Consumed(w) <= Len(log)
        /\ sq_tail[w] = ToldCount % QueueSize /\ sqTailDb = ToldCount % QueueSize
        /\ fetchHead = FetchedCount % QueueSize
        /\ cq_head[w] = Consumed(w) % QueueSize /\ postTail = Len(log) % QueueSize
    BY Zenon, <1>p DEF CountInv
  <2>2. ToldCount <= ops_done[w] + n
    BY Zenon, <1>5
  <2> QED
    BY Zenon, <2>1, <2>2, <1>0, <1>1, <1>3, <1>4, <1>6 DEF CountInv
<1>9. LoopInv(w)'
  <2>1. "prepare" \notin Waiting /\ "prepare" # "polled" /\ "prepare" # "idle" /\ "prepare" # "head"
    BY Zenon, StepNames
  <2>2. n > 0 /\ ops_done[w] + n <= Total
    BY Zenon, <1>5
  <2> QED
    BY Zenon, <2>1, <2>2, <1>0, <1>1, <1>2, <1>3, <1>4 DEF LoopInv
<1>10. SqInv(w)' /\ HeldInv(w)'
  <2>1. prepared'[w] = {}
    BY Zenon, <1>0, <1>2
  <2>2. \A k \in FetchedCount .. ToldCount - 1 : sq[k % QueueSize] = EntryOf(w, k)
    BY Zenon, <1>p DEF SqInv
  <2>3. SqInv(w)'
    BY Zenon, <2>1, <2>2, <1>1, <1>3 DEF SqInv
  <2>4. HeldInv(w)'
    BY Zenon, <1>0, <1>1, <1>3, <1>p DEF HeldInv
  <2> QED
    BY Zenon, <2>3, <2>4
<1>11. PhaseInv(w)' /\ CqInv(w)' /\ SerialInv(w)'
  BY Zenon, <1>0, <1>1, <1>3, <1>4, <1>6, <1>p DEF PhaseInv, CqInv, SerialInv
<1> QED
  BY Zenon, <1>1, <1>7, <1>8, <1>9, <1>10, <1>11 DEF BatchInv


\* While a batch is prepared the controller holds nothing.
LEMMA PrepareCounts ==
    ASSUME NEW w \in Drivers, BatchInv(w), pc[w] = "prepare"
    PROVE  \E o \in Nat, m \in Slots :
             /\ o = ops_done[w] /\ m = batch_count(w) /\ m \in Nat /\ m > 0 /\ o + m <= Total
             /\ o = ToldCount /\ o = FetchedCount /\ o = Len(log) /\ polled[w] = 0
             /\ sq_tail[w] = o % QueueSize /\ fetchHead = o % QueueSize
<1>p. QueueTypes /\ DriverTypes /\ CountInv(w) /\ LoopInv(w)
  BY Zenon DEF BatchInv
<1>1. /\ ops_done[w] \in Nat /\ batch_count(w) \in Slots /\ batch_count(w) \in Nat
      /\ FetchedCount \in Nat
      /\ Len(log) <= FetchedCount /\ FetchedCount <= ToldCount
  BY Zenon, <1>p, Counts, QueueConstants
<1>2. /\ ToldCount = ops_done[w] /\ Len(log) = ops_done[w] /\ polled[w] = 0
      /\ batch_count(w) > 0 /\ ops_done[w] + batch_count(w) <= Total
  BY Zenon, <1>p, StepNames DEF LoopInv
<1>3. FetchedCount = ops_done[w]
  BY <1>1, <1>2
<1>4. sq_tail[w] = ToldCount % QueueSize /\ fetchHead = FetchedCount % QueueSize
  BY Zenon, <1>p DEF CountInv
<1> QED
  BY Zenon, <1>1, <1>2, <1>3, <1>4

LEMMA PrepareStep ==
    ASSUME NEW w \in Drivers, BatchInv(w), NEW b \in Slots, PrepareSqe(w, b)
    PROVE  BatchInv(w)'
<1>p. /\ QueueTypes /\ DriverTypes /\ CountInv(w) /\ LoopInv(w) /\ SqInv(w)
      /\ HeldInv(w) /\ OnceInv /\ PhaseInv(w) /\ CqInv(w) /\ SerialInv(w)
  BY Zenon DEF BatchInv
<1>0. /\ pc[w] = "prepare" /\ b \in 0 .. batch_count(w) - 1 /\ b \notin prepared[w]
      /\ sq' = [sq EXCEPT ![SqeSlot(w, b)] = SqeOf(w, b)]
      /\ prepared' = [prepared EXCEPT ![w] = @ \union {b}]
      /\ UNCHANGED <<cq, sqTailDb, fetchHead, postTail, postPhase, inflight, log, config, n_ops, state, pc,
                     sq_tail, cq_head, expected_phase, ops_done, polled>>
  BY Zenon DEF PrepareSqe, ToPrepare, SqeWrite, XioComEnqueue, controllerVars, runVars, launchVars
<1>1. PICK o \in Nat, m \in Slots :
             /\ o = ops_done[w] /\ m = batch_count(w) /\ m \in Nat /\ m > 0 /\ o + m <= Total
             /\ o = ToldCount /\ o = FetchedCount /\ o = Len(log) /\ polled[w] = 0
             /\ sq_tail[w] = o % QueueSize /\ fetchHead = o % QueueSize
  BY Zenon, <1>0, PrepareCounts
<1>2. PICK T \in Nat : T = Total /\ o + m <= T
  BY Zenon, <1>1, <1>p, Counts
<1>3. b \in 0 .. m - 1
  BY Zenon, <1>0, <1>1
<1>4. b \in Nat /\ b < m /\ o + b \in 0 .. T - 1
  BY <1>1, <1>2, <1>3
<1>5. PICK e \in Commands : e = SqeOf(w, b)
  <2>1. SqeOf(w, b) \in [op : 0 .. T - 1, slot : Slots]
    BY Zenon, <1>1, <1>4 DEF SqeOf
  <2> QED
    BY Zenon, <2>1, <1>2, <1>p, RunOf
<1>6. PICK s \in Slots : s = SqeSlot(w, b) /\ s = (o + b) % QueueSize
  <2>1. Advance(o % QueueSize, b) = (o + b) % QueueSize
    BY Zenon, PlaceStep
  <2>2. o + b \in Nat
    BY <1>4
  <2> QED
    BY Zenon, <2>1, <2>2, <1>1, PlaceIn DEF SqeSlot
<1>7. sq' \in [Slots -> Commands \union {NoCommand}] /\ sq' = [sq EXCEPT ![s] = e]
  <2>1. sq' = [sq EXCEPT ![s] = e]
    BY Zenon, <1>0, <1>5, <1>6
  <2> QED
    BY Zenon, <2>1, <1>p DEF QueueTypes
<1>8. prepared' \in [Drivers -> SUBSET Slots] /\ prepared'[w] = prepared[w] \union {b}
  BY Zenon, <1>0, <1>p DEF DriverTypes
<1>9. /\ Stateful' = Stateful /\ Total' = Total /\ batch_count(w)' = batch_count(w)
      /\ \A k : EntryOf(w, k)' = EntryOf(w, k) /\ SqeOf(w, k)' = SqeOf(w, k)
  BY Zenon, <1>0, BatchKeeps
<1>10. FetchedCount' = FetchedCount /\ ToldCount' = ToldCount /\ Consumed(w)' = Consumed(w)
  BY Zenon, <1>0 DEF FetchedCount, ToldCount, Distance, Consumed
<1>11. QueueTypes' /\ OnceInv'
  <2>1. QueueTypes'
    BY Zenon, <1>0, <1>7, <1>p DEF QueueTypes
  <2>2. OnceInv'
    BY Zenon, <1>0, <1>10, <1>p DEF OnceInv
  <2> QED
    BY Zenon, <2>1, <2>2
<1>12. DriverTypes'
  BY Zenon, <1>0, <1>8, <1>p DEF DriverTypes
<1>13. CountInv(w)'
  BY Zenon, <1>0, <1>9, <1>10, <1>p DEF CountInv
<1>14. LoopInv(w)'
  BY Zenon, <1>0, <1>9, <1>10, <1>p, StepNames DEF LoopInv
<1>15. SqInv(w)'
  <2>1. \A k : k \notin FetchedCount .. ToldCount - 1
    <3>1. \A k : k \notin o .. o - 1
      BY <1>1
    <3> QED
      BY Zenon, <1>1, <3>1
  <2>2. ASSUME NEW c \in prepared[w] \union {b}
        PROVE  c < m /\ sq'[(o + c) % QueueSize] = SqeOf(w, c)
    <3>1. CASE c = b
      BY Zenon, <3>1, <1>4, <1>5, <1>6, <1>7, <1>p DEF QueueTypes
    <3>2. CASE c # b
      <4>1. c \in prepared[w] /\ prepared[w] \subseteq Slots
        BY Zenon, <3>2, <1>p DEF DriverTypes
      <4>2. c < m /\ sq[(o + c) % QueueSize] = SqeOf(w, c)
        BY Zenon, <4>1, <1>1, <1>p DEF SqInv
      <4>3. c \in Nat /\ c < QueueSize /\ b \in Nat /\ b < QueueSize
        BY <4>1, QueueConstants
      <4>4. PICK x \in Nat, y \in Nat :
              /\ x = o + b /\ y = o + c
              /\ (x < y /\ y - x < QueueSize) \/ (y < x /\ x - y < QueueSize)
        <5>1. /\ o + b \in Nat /\ o + c \in Nat
              /\ \/ o + b < o + c /\ (o + c) - (o + b) < QueueSize
                 \/ o + c < o + b /\ (o + b) - (o + c) < QueueSize
          BY <4>3, <3>2, QueueConstants
        <5> QED
          BY Zenon, <5>1
      <4>5. x % QueueSize # y % QueueSize
        BY Zenon, <4>4, PlaceDistinct
      <4>6. sq'[y % QueueSize] = sq[y % QueueSize]
        <5>1. y % QueueSize \in Slots
          BY Zenon, PlaceIn
        <5> QED
          BY Zenon, <5>1, <4>4, <4>5, <1>6, <1>7, <1>p DEF QueueTypes
      <4> QED
        BY Zenon, <4>2, <4>4, <4>6
    <3> QED
      BY Zenon, <3>1, <3>2
  <2> QED
    BY Zenon, <2>1, <2>2, <1>0, <1>1, <1>8, <1>9, <1>10 DEF SqInv
<1>16. HeldInv(w)'
  BY Zenon, <1>0, <1>9, <1>10, <1>p DEF HeldInv
<1>17. PhaseInv(w)' /\ CqInv(w)' /\ SerialInv(w)'
  BY Zenon, <1>0, <1>9, <1>10, <1>p DEF PhaseInv, CqInv, SerialInv
<1> QED
  BY Zenon, <1>11, <1>12, <1>13, <1>14, <1>15, <1>16, <1>17 DEF BatchInv

\* The doorbell tells the controller of the whole batch.
LEMMA RingSqStep ==
    ASSUME NEW w \in Drivers, BatchInv(w), RingSq(w)
    PROVE  BatchInv(w)'
<1>p. /\ QueueTypes /\ DriverTypes /\ CountInv(w) /\ LoopInv(w) /\ SqInv(w)
      /\ HeldInv(w) /\ OnceInv /\ PhaseInv(w) /\ CqInv(w) /\ SerialInv(w)
  BY Zenon DEF BatchInv
<1>0. /\ pc[w] = "prepare" /\ 0 .. batch_count(w) - 1 \subseteq prepared[w]
      /\ sq_tail' = [sq_tail EXCEPT ![w] = Advance(@, batch_count(w))]
      /\ sqTailDb' = sq_tail'[w]
      /\ pc' = [pc EXCEPT ![w] = "first"]
      /\ prepared' = [prepared EXCEPT ![w] = {}]
      /\ UNCHANGED <<sq, cq, fetchHead, postTail, postPhase, inflight, log, config, n_ops, state,
                     cq_head, expected_phase, ops_done, polled>>
  BY Zenon DEF RingSq, ToPrepare, RingSqDoorbell, XioComDoorbell, controllerVars, runVars, launchVars
<1>1. PICK o \in Nat, m \in Slots :
             /\ o = ops_done[w] /\ m = batch_count(w) /\ m \in Nat /\ m > 0 /\ o + m <= Total
             /\ o = ToldCount /\ o = FetchedCount /\ o = Len(log) /\ polled[w] = 0
             /\ sq_tail[w] = o % QueueSize /\ fetchHead = o % QueueSize
  BY Zenon, <1>0, PrepareCounts
<1>2. PICK t \in Slots : /\ t = (o + m) % QueueSize
                         /\ Distance(o % QueueSize, t) = m /\ t = Advance(o % QueueSize, m)
  <2>1. Advance(o % QueueSize, m) = (o + m) % QueueSize
    BY Zenon, PlaceStep
  <2>2. PICK i \in Slots : i = o % QueueSize
    BY Zenon, PlaceIn
  <2>3. Distance(i, Advance(i, m)) = m /\ Advance(i, m) \in Slots
    BY Zenon, DistanceAdvance
  <2> QED
    BY Zenon, <2>1, <2>2, <2>3
<1>3. /\ sq_tail' \in [Drivers -> Slots] /\ sq_tail'[w] = t /\ sqTailDb' = t
      /\ pc' \in [Drivers -> DriverSteps] /\ pc'[w] = "first"
      /\ prepared' \in [Drivers -> SUBSET Slots] /\ prepared'[w] = {}
  <2>1. sq_tail' = [sq_tail EXCEPT ![w] = t]
    BY Zenon, <1>0, <1>1, <1>2
  <2>2. "first" \in DriverSteps /\ {} \in SUBSET Slots
    BY Zenon, StepNames
  <2> QED
    BY Zenon, <2>1, <2>2, <1>0, <1>p DEF DriverTypes
<1>4. /\ Stateful' = Stateful /\ Total' = Total /\ batch_count(w)' = batch_count(w)
      /\ \A k : EntryOf(w, k)' = EntryOf(w, k) /\ SqeOf(w, k)' = SqeOf(w, k)
  BY Zenon, <1>0, BatchKeeps
<1>5. FetchedCount' = FetchedCount /\ ToldCount' = o + m /\ Consumed(w)' = Consumed(w)
  <2>1. FetchedCount' = FetchedCount /\ Consumed(w)' = Consumed(w)
    BY Zenon, <1>0 DEF FetchedCount, Consumed
  <2>2. ToldCount' = FetchedCount' + Distance(fetchHead', sqTailDb')
    BY Zenon DEF ToldCount, Distance
  <2> QED
    BY Zenon, <2>1, <2>2, <1>0, <1>1, <1>2, <1>3
<1>6. o <= o + m /\ o + m \in Nat /\ 0 < m /\ o + m <= o + m
  BY <1>1
<1>7. QueueTypes' /\ OnceInv'
  <2>1. QueueTypes'
    BY Zenon, <1>0, <1>3, <1>p DEF QueueTypes
  <2>2. OnceInv'
    BY Zenon, <1>0, <1>5, <1>p DEF OnceInv
  <2> QED
    BY Zenon, <2>1, <2>2
<1>8. DriverTypes'
  BY Zenon, <1>0, <1>3, <1>p DEF DriverTypes
<1>9. CountInv(w)'
  <2>1. /\ Consumed(w) <= Len(log) /\ fetchHead = FetchedCount % QueueSize
        /\ cq_head[w] = Consumed(w) % QueueSize /\ postTail = Len(log) % QueueSize
    BY Zenon, <1>p DEF CountInv
  <2>2. ops_done[w] <= o + m /\ o + m <= ops_done[w] + batch_count(w)
    BY Zenon, <1>1, <1>6
  <2> QED
    BY Zenon, <2>1, <2>2, <1>0, <1>1, <1>2, <1>3, <1>4, <1>5 DEF CountInv
<1>10. LoopInv(w)'
  <2>1. polled[w] < batch_count(w)
    BY Zenon, <1>1, <1>6
  <2>2. "first" \notin Between
    BY Zenon, StepNames
  <2> QED
    BY Zenon, <2>1, <2>2, <1>0, <1>1, <1>3, <1>4, <1>5 DEF LoopInv
<1>11. SqInv(w)'
  <2>1. ASSUME NEW k \in o .. (o + m) - 1
        PROVE  sq[k % QueueSize] = EntryOf(w, k)
    <3>1. PICK b \in 0 .. m - 1 : o + b = k /\ k - o = b
      <4>1. k - o \in 0 .. m - 1 /\ o + (k - o) = k
        BY <1>1, <2>1
      <4> QED
        BY Zenon, <4>1
    <3>2. sq[(o + b) % QueueSize] = SqeOf(w, b)
      BY Zenon, <1>0, <1>1, <1>p DEF SqInv
    <3> QED
      BY Zenon, <3>1, <3>2, <1>1 DEF SqeOf, EntryOf
  <2> QED
    BY Zenon, <2>1, <1>0, <1>1, <1>3, <1>4, <1>5 DEF SqInv
<1>12. HeldInv(w)'
  BY Zenon, <1>0, <1>4, <1>5, <1>p DEF HeldInv
<1>13. PhaseInv(w)' /\ CqInv(w)' /\ SerialInv(w)'
  BY Zenon, <1>0, <1>4, <1>5, <1>p DEF PhaseInv, CqInv, SerialInv
<1> QED
  BY Zenon, <1>7, <1>8, <1>9, <1>10, <1>11, <1>12, <1>13 DEF BatchInv


\* The batch is over: everything the controller was told of was consumed.
LEMMA RingCqStep ==
    ASSUME NEW w \in Drivers, BatchInv(w), RingCq(w)
    PROVE  BatchInv(w)'
<1>p. /\ QueueTypes /\ DriverTypes /\ CountInv(w) /\ LoopInv(w) /\ SqInv(w)
      /\ HeldInv(w) /\ OnceInv /\ PhaseInv(w) /\ CqInv(w) /\ SerialInv(w)
  BY Zenon DEF BatchInv
<1>0. /\ pc[w] = "polled"
      /\ ops_done' = [ops_done EXCEPT ![w] = @ + batch_count(w)]
      /\ polled' = [polled EXCEPT ![w] = 0]
      /\ pc' = [pc EXCEPT ![w] = IF Stateful THEN "idle" ELSE "head"]
      /\ state' = IF Stateful THEN SavedState(w) ELSE state
      /\ UNCHANGED <<sq, cq, sqTailDb, fetchHead, postTail, postPhase, inflight, log, config, n_ops,
                     sq_tail, cq_head, expected_phase, prepared>>
  BY Zenon DEF RingCq, RingCqDoorbell, controllerVars, runVars
<1>1. PICK n \in Nat : /\ n = ops_done[w] + batch_count(w) /\ n = Consumed(w) /\ n = Len(log)
                       /\ n = FetchedCount /\ n = ToldCount /\ n + 0 = n /\ n <= Total
                       /\ Len(inflight) = 0
  <2>1. PICK o \in Nat, p \in Nat, m \in Nat, C \in Nat, L \in Nat, F \in Nat, T \in Nat, i \in Nat :
          /\ o = ops_done[w] /\ p = polled[w] /\ m = batch_count(w) /\ C = Consumed(w) /\ L = Len(log)
          /\ F = FetchedCount /\ T = ToldCount /\ i = Len(inflight)
          /\ C <= L /\ L <= F /\ F <= T
    BY Zenon, <1>p, Counts, QueueConstants
  <2>2. T = o + m /\ p = m /\ C = o + p /\ F = L + i /\ T <= Total
    BY Zenon, <2>1, <1>0, <1>p DEF LoopInv, CountInv, Consumed, FetchedCount
  <2>3. o + m \in Nat /\ o + m = C /\ o + m = L /\ o + m = F /\ o + m = T /\ (o + m) + 0 = o + m /\ i = 0
    BY <2>1, <2>2
  <2> QED
    BY Zenon, <2>1, <2>2, <2>3
<1>2. PICK q \in DriverSteps :
        /\ q = (IF Stateful THEN "idle" ELSE "head")
        /\ pc' \in [Drivers -> DriverSteps] /\ pc'[w] = q
        /\ ops_done' \in [Drivers -> Nat] /\ ops_done'[w] = n
        /\ polled' \in [Drivers -> Nat] /\ polled'[w] = 0
  <2>1. PICK q : q = IF Stateful THEN "idle" ELSE "head"
    BY Zenon
  <2>2. q \in DriverSteps
    BY Zenon, <2>1, StepNames
  <2>3. /\ pc' = [pc EXCEPT ![w] = q] /\ ops_done' = [ops_done EXCEPT ![w] = n]
        /\ polled' = [polled EXCEPT ![w] = 0]
    BY Zenon, <2>1, <1>0, <1>1
  <2>4. 0 \in Nat
    OBVIOUS
  <2> QED
    BY Zenon, <2>1, <2>2, <2>3, <2>4, <1>p DEF DriverTypes
<1>3. FetchedCount' = FetchedCount /\ ToldCount' = ToldCount /\ Consumed(w)' = Consumed(w)
  BY Zenon, <1>0, <1>1, <1>2 DEF FetchedCount, ToldCount, Distance, Consumed
<1>4. Stateful' = Stateful /\ Total' = Total
  BY Zenon, <1>0 DEF Stateful, Total
<1>5. batch_count(w)' \in Nat
  <2>1. CASE Stateful
    <3>1. batch_count(w)' = n_ops
      BY Zenon, <2>1, <1>0, <1>4 DEF batch_count
    <3> QED
      BY Zenon, <3>1, <1>p, QueueConstants DEF DriverTypes
  <2>2. CASE ~Stateful
    <3>1. PICK b \in Nat, r \in Nat : b = batch_size /\ r = Total - n /\ b \in Int /\ r \in Int
      <4>1. batch_size \in 1 .. QueueSize - 1
        BY Zenon, <1>p, BatchSize
      <4>2. batch_size \in Nat /\ batch_size \in Int
        BY <4>1, QueueConstants
      <4>3. PICK T \in Nat : T = Total /\ n <= T
        BY Zenon, <1>1, <1>p, Counts
      <4>4. T - n \in Nat /\ T - n \in Int
        BY <4>3
      <4> QED
        BY Zenon, <4>2, <4>3, <4>4
    <3>2. batch_count(w)' = Min({b, r})
      BY Zenon, <2>2, <3>1, <1>0, <1>2, <1>4 DEF batch_count, batch_size, ClampToQueue
    <3>3. Min({b, r}) = IF b <= r THEN b ELSE r
      BY Zenon, <3>1, MinPair
    <3> QED
      BY Zenon, <3>1, <3>2, <3>3
  <2> QED
    BY Zenon, <2>1, <2>2
<1>6. QueueTypes' /\ OnceInv'
  <2>1. QueueTypes'
    BY Zenon, <1>0, <1>p DEF QueueTypes
  <2>2. OnceInv'
    BY Zenon, <1>0, <1>3, <1>p DEF OnceInv
  <2> QED
    BY Zenon, <2>1, <2>2
<1>7. DriverTypes'
  BY Zenon, <1>0, <1>2, <1>p DEF DriverTypes
<1>8. CountInv(w)'
  <2>1. /\ Consumed(w) <= Len(log) /\ fetchHead = FetchedCount % QueueSize /\ ToldCount <= Total
        /\ sq_tail[w] = ToldCount % QueueSize /\ sqTailDb = ToldCount % QueueSize
        /\ cq_head[w] = Consumed(w) % QueueSize /\ postTail = Len(log) % QueueSize
    BY Zenon, <1>p DEF CountInv
  <2>2. n <= n /\ n <= n + batch_count(w)'
    BY <1>5
  <2>3. ops_done'[w] <= ToldCount' /\ ToldCount' <= ops_done'[w] + batch_count(w)'
    BY Zenon, <2>2, <1>1, <1>2, <1>3
  <2> QED
    BY Zenon, <2>1, <2>3, <1>0, <1>3, <1>4 DEF CountInv
<1>9. LoopInv(w)'
  <2>1. prepared[w] = {}
    BY Zenon, <1>0, <1>p DEF LoopInv
  <2>2. SavedState(w)' = SavedState(w)
    BY Zenon, <1>0 DEF SavedState
  <2>3. q # "prepare" /\ q # "polled" /\ q \notin Waiting /\ (q = "idle" => Stateful)
        /\ (q = "head" => ~Stateful)
    BY Zenon, <1>2, StepNames
  <2> QED
    BY Zenon, <2>1, <2>2, <2>3, <1>0, <1>1, <1>2, <1>3, <1>4 DEF LoopInv
<1>10. SqInv(w)'
  <2>1. prepared'[w] = {}
    BY Zenon, <1>0, <1>p DEF LoopInv
  <2>2. \A k : k \notin n .. n - 1
    BY <1>1
  <2> QED
    BY Zenon, <2>1, <2>2, <1>1, <1>3 DEF SqInv
<1>11. HeldInv(w)'
  <2>1. \A i : i \notin DOMAIN inflight
    <3>1. DOMAIN inflight = 1 .. 0
      BY Zenon, <1>1, <1>p, Counts
    <3>2. \A i : i \notin 1 .. 0
      OBVIOUS
    <3> QED
      BY Zenon, <3>1, <3>2
  <2> QED
    BY Zenon, <2>1, <1>0 DEF HeldInv
<1>12. PhaseInv(w)' /\ CqInv(w)' /\ SerialInv(w)'
  BY Zenon, <1>0, <1>3, <1>4, <1>p DEF PhaseInv, CqInv, SerialInv
<1> QED
  BY Zenon, <1>6, <1>7, <1>8, <1>9, <1>10, <1>11, <1>12 DEF BatchInv

LEMMA NextBatch ==
    ASSUME OneDriver, NEW w \in Drivers, BatchInv(w), [Next]_vars
    PROVE  BatchInv(w)'
<1>1. CASE UNCHANGED vars
  BY Zenon, <1>1, KeepBatch DEF vars, runVars
<1>2. CASE RequestStop
  BY Zenon, <1>2, KeepBatch DEF RequestStop
<1>3. CASE Controller /\ UNCHANGED <<runVars, driverVars, launchVars>>
  <2>1. CASE Fetch
    BY Zenon, <1>3, <2>1, FetchBatch
  <2>2. CASE \E i \in DOMAIN inflight, ok \in BOOLEAN : Complete(i, ok)
    BY Zenon, <1>3, <2>2, CompleteBatch
  <2> QED
    BY Zenon, <1>3, <2>1, <2>2 DEF Controller
<1>4. CASE \E v \in Drivers : Driver(v) \/ PollTimeout(v) \/ \E n \in 1 .. config.batchSize : Launch(v, n)
  <2>1. PICK v \in Drivers : Driver(v) \/ PollTimeout(v) \/ \E n \in 1 .. config.batchSize : Launch(v, n)
    BY Zenon, <1>4
  <2>2. v = w
    BY Zenon DEF OneDriver
  <2>3. CASE PollFirst(w) \/ PollSpin(w) \/ PollStop(w) \/ PollTimeout(w)
    BY Zenon, <2>3, PollStep
  <2>4. CASE \E n \in 1 .. config.batchSize : Launch(w, n)
    <3>1. PICK n \in 1 .. config.batchSize : Launch(w, n)
      BY Zenon, <2>4
    <3>2. n \in Slots \ {0}
      BY Zenon, <3>1, LaunchFits
    <3> QED
      BY Zenon, <3>1, <3>2, LaunchStep
  <2>5. CASE StartBatch(w)
    BY Zenon, <2>5, StartStep
  <2>6. CASE \E b \in Slots : PrepareSqe(w, b)
    BY Zenon, <2>6, PrepareStep
  <2>7. CASE RingSq(w)
    BY Zenon, <2>7, RingSqStep
  <2>8. CASE RingCq(w)
    BY Zenon, <2>8, RingCqStep
  <2> QED
    BY Zenon, <2>1, <2>2, <2>3, <2>4, <2>5, <2>6, <2>7, <2>8 DEF Driver
<1> QED
  BY Zenon, <1>1, <1>2, <1>3, <1>4 DEF Next


-----------------------------------------------------------------------------
(* The commands at the controller.                                         *)

\* One sequence, then another.
Joined(s, t) == s \o t

LEMMA JoinedIs ==
    ASSUME NEW s \in Seq(Commands), NEW r \in Seq(Commands)
    PROVE  /\ Joined(s, r) \in Seq(Commands) /\ Len(Joined(s, r)) = Len(s) + Len(r)
           /\ \A i \in 1 .. Len(s) : Joined(s, r)[i] = s[i]
           /\ \A i \in 1 .. Len(r) : Joined(s, r)[Len(s) + i] = r[i]
<1>1. s \o r \in Seq(Commands) /\ Len(s \o r) = Len(s) + Len(r)
  OBVIOUS
<1>2. \A i \in 1 .. Len(s) : (s \o r)[i] = s[i]
  OBVIOUS
<1>3. \A i \in 1 .. Len(r) : (s \o r)[Len(s) + i] = r[i]
  OBVIOUS
<1> QED
  BY Zenon, <1>1, <1>2, <1>3 DEF Joined

\* Behind the doorbell are the next operations of the run.
LEMMA PendingIs ==
    ASSUME NEW w \in Drivers, BatchInv(w), NEW D \in Nat, D = Distance(fetchHead, sqTailDb)
    PROVE  /\ Pending \in Seq(Commands) /\ Len(Pending) = D
           /\ \A k \in 1 .. D : Pending[k] = EntryOf(w, (FetchedCount + k) - 1)
<1>p. QueueTypes /\ DriverTypes /\ CountInv(w) /\ SqInv(w)
  BY Zenon DEF BatchInv
<1>1. PICK F \in Nat, T \in Nat, o \in Nat, t \in Nat :
        /\ F = FetchedCount /\ T = ToldCount /\ o = ops_done[w] /\ t = Total
        /\ T = F + D /\ o <= F /\ T <= t /\ T - o < QueueSize
  <2>1. PICK F \in Nat, T \in Nat, o \in Nat, t \in Nat, C \in Nat, L \in Nat :
          /\ F = FetchedCount /\ T = ToldCount /\ o = ops_done[w] /\ t = Total
          /\ C = Consumed(w) /\ L = Len(log)
          /\ o <= C /\ C <= L /\ L <= F /\ T <= t /\ T - o < QueueSize
    BY Zenon, <1>p, Counts
  <2>2. o <= F
    BY <2>1
  <2>3. T = F + D
    BY Zenon, <2>1 DEF ToldCount
  <2> QED
    BY Zenon, <2>1, <2>2, <2>3
<1>2. \A k \in 1 .. D : /\ sq[Advance(fetchHead, k - 1)] = EntryOf(w, (F + k) - 1)
                        /\ EntryOf(w, (F + k) - 1) \in Commands
  <2> SUFFICES ASSUME NEW k \in 1 .. D
               PROVE  /\ sq[Advance(fetchHead, k - 1)] = EntryOf(w, (F + k) - 1)
                      /\ EntryOf(w, (F + k) - 1) \in Commands
    BY Zenon
  <2>1. PICK x \in Nat : /\ x = (F + k) - 1 /\ x = F + (k - 1) /\ x \in F .. T - 1
                         /\ o <= x /\ x < t /\ x - o < QueueSize
    <3>1. /\ (F + k) - 1 \in Nat /\ (F + k) - 1 = F + (k - 1) /\ (F + k) - 1 \in F .. T - 1
          /\ o <= (F + k) - 1 /\ (F + k) - 1 < t /\ ((F + k) - 1) - o < QueueSize
      <4>1. T = F + D /\ o <= F /\ T <= t /\ T - o < QueueSize /\ QueueSize \in Nat
        BY Zenon, <1>1, QueueConstants
      <4> QED
        BY <4>1
    <3> QED
      BY Zenon, <3>1
  <2>2. Advance(F % QueueSize, k - 1) = (F + (k - 1)) % QueueSize
    <3>1. k - 1 \in Slots
      BY <1>1, QueueConstants
    <3> QED
      BY Zenon, <3>1, PlaceStep
  <2>3. fetchHead = F % QueueSize
    BY Zenon, <1>1, <1>p DEF CountInv
  <2>4. sq[x % QueueSize] = EntryOf(w, x)
    BY Zenon, <2>1, <1>1, <1>p DEF SqInv
  <2>5. EntryOf(w, x) \in Commands
    BY Zenon, <2>1, <1>1, <1>p, EntryCommand
  <2> QED
    BY Zenon, <2>1, <2>2, <2>3, <2>4, <2>5
<1>3. Pending = [k \in 1 .. D |-> sq[Advance(fetchHead, k - 1)]]
  BY Zenon DEF Pending
<1>4. Pending \in [1 .. D -> Commands]
  BY Zenon, <1>2, <1>3
<1>5. Pending \in Seq(Commands) /\ Len(Pending) = D
  BY <1>4
<1> QED
  BY Zenon, <1>1, <1>2, <1>3, <1>5

\* A command at the controller is the entry of its operation, and no two are
\* of the same operation.
LEMMA OutstandingIs ==
    ASSUME NEW w \in Drivers, BatchInv(w)
    PROVE  /\ Outstanding \in Seq(Commands) /\ Len(log) + Len(Outstanding) = ToldCount
           /\ \A i \in DOMAIN Outstanding :
                /\ Outstanding[i].op \in ops_done[w] .. ToldCount - 1
                /\ Outstanding[i] = EntryOf(w, Outstanding[i].op)
           /\ \A i, j \in DOMAIN Outstanding : i # j => Outstanding[i].op # Outstanding[j].op
           /\ \A i \in DOMAIN inflight : i \in DOMAIN Outstanding /\ Outstanding[i] = inflight[i]
           /\ \A x \in FetchedCount .. ToldCount - 1 :
                \E i \in DOMAIN Outstanding : Outstanding[i].op = x
<1>p. QueueTypes /\ DriverTypes /\ CountInv(w) /\ HeldInv(w)
  BY Zenon DEF BatchInv
<1>1. PICK F \in Nat, T \in Nat, o \in Nat, L \in Nat, I \in Nat, D \in Nat, t \in Nat :
        /\ F = FetchedCount /\ T = ToldCount /\ o = ops_done[w] /\ L = Len(log) /\ t = Total
        /\ I = Len(inflight) /\ D = Distance(fetchHead, sqTailDb)
        /\ T = F + D /\ F = L + I /\ o <= L /\ T <= t /\ T - o < QueueSize
        /\ inflight \in Seq(Commands) /\ DOMAIN inflight = 1 .. I
  <2>1. PICK F \in Nat, T \in Nat, o \in Nat, t \in Nat, C \in Nat, L \in Nat, I \in Nat :
          /\ F = FetchedCount /\ T = ToldCount /\ o = ops_done[w] /\ t = Total
          /\ C = Consumed(w) /\ L = Len(log) /\ I = Len(inflight) /\ DOMAIN inflight = 1 .. I
          /\ o <= C /\ C <= L /\ L <= F /\ T <= t /\ T - o < QueueSize
    BY Zenon, <1>p, Counts
  <2>2. o <= L
    BY <2>1
  <2>3. Distance(fetchHead, sqTailDb) \in Nat
    BY Zenon, <1>p, DistanceIs, QueueConstants DEF QueueTypes
  <2> QED
    BY Zenon, <2>1, <2>2, <2>3, <1>p DEF ToldCount, FetchedCount, QueueTypes
<1>a. T = F + D /\ F = L + I /\ o <= L /\ T <= t /\ T - o < QueueSize
  BY Zenon, <1>1
<1>2. PICK P \in Seq(Commands) : /\ P = Pending /\ Len(P) = D
                                 /\ \A k \in 1 .. D : P[k] = EntryOf(w, (F + k) - 1)
  BY Zenon, <1>1, PendingIs
<1>3. PICK O \in Seq(Commands) : /\ O = Outstanding /\ Len(O) = I + D
                                 /\ \A i \in 1 .. I : O[i] = inflight[i]
                                 /\ \A k \in 1 .. D : O[I + k] = EntryOf(w, (F + k) - 1)
  <2>0. PICK f \in Seq(Commands) : f = inflight
    BY Zenon, <1>1
  <2>1. PICK O \in Seq(Commands) : /\ O = Joined(f, P) /\ Len(O) = Len(f) + Len(P)
                                   /\ \A i \in 1 .. Len(f) : O[i] = f[i]
                                   /\ \A i \in 1 .. Len(P) : O[Len(f) + i] = P[i]
    <3>1. /\ Joined(f, P) \in Seq(Commands) /\ Len(Joined(f, P)) = Len(f) + Len(P)
          /\ \A i \in 1 .. Len(f) : Joined(f, P)[i] = f[i]
          /\ \A i \in 1 .. Len(P) : Joined(f, P)[Len(f) + i] = P[i]
      BY Zenon, JoinedIs
    <3>2. PICK O : O = Joined(f, P)
      BY Zenon
    <3> QED
      BY Zenon, <3>1, <3>2
  <2>2. Outstanding = O
    BY Zenon, <2>0, <2>1, <1>2 DEF Outstanding, Joined
  <2> QED
    <3>1. Len(f) = I /\ Len(P) = D
      BY Zenon, <2>0, <1>1, <1>2
    <3>2. Len(O) = I + D /\ \A i \in 1 .. I : O[i] = inflight[i]
      BY Zenon, <2>0, <2>1, <3>1
    <3>3. \A k \in 1 .. D : O[I + k] = EntryOf(w, (F + k) - 1)
      BY Zenon, <2>1, <3>1, <1>2
    <3> QED
      BY Zenon, <2>2, <3>2, <3>3
<1>4. DOMAIN O = 1 .. I + D
  BY Zenon, <1>3, LenIn
<1>5. \A k \in 1 .. D : EntryOf(w, (F + k) - 1).op = (F + k) - 1
  BY Zenon DEF EntryOf
<1>6. \A i \in DOMAIN O : \/ i \in 1 .. I
                          \/ \E k \in 1 .. D : i = I + k
  <2>1. \A i \in 1 .. I + D : i \in 1 .. I \/ (i - I \in 1 .. D /\ i = I + (i - I))
    BY <1>a
  <2> QED
    BY Zenon, <2>1, <1>4
<1>7. \A i \in 1 .. I : O[i].op \in o .. F - 1 /\ O[i] = EntryOf(w, O[i].op)
  BY Zenon, <1>1, <1>3, <1>p DEF HeldInv
<1>8. \A k \in 1 .. D : /\ O[I + k].op = (F + k) - 1 /\ (F + k) - 1 \in F .. T - 1
                        /\ O[I + k] = EntryOf(w, O[I + k].op)
  <2>1. \A k \in 1 .. D : (F + k) - 1 \in F .. T - 1
    BY <1>a
  <2> QED
    BY Zenon, <2>1, <1>3, <1>5
<1>9. ASSUME NEW i \in DOMAIN O
      PROVE  O[i].op \in o .. T - 1 /\ O[i] = EntryOf(w, O[i].op)
  <2>1. o .. F - 1 \subseteq o .. T - 1 /\ F .. T - 1 \subseteq o .. T - 1
    BY <1>a
  <2> QED
    <3>1. CASE i \in 1 .. I
      BY Zenon, <2>1, <3>1, <1>7
    <3>2. CASE \E k \in 1 .. D : i = I + k
      <4>1. PICK k \in 1 .. D : i = I + k
        BY Zenon, <3>2
      <4> QED
        BY Zenon, <2>1, <4>1, <1>8
    <3> QED
      BY Zenon, <3>1, <3>2, <1>6
<1>10. ASSUME NEW i \in DOMAIN O, NEW j \in DOMAIN O, i # j
       PROVE  O[i].op # O[j].op
  <2>1. \A x, y : x \in o .. F - 1 /\ y \in F .. T - 1 => x # y
    BY <1>a
  <2>2. CASE i \in 1 .. I /\ j \in 1 .. I
    BY Zenon, <2>2, <1>10, <1>1, <1>3, <1>p DEF HeldInv
  <2>3. CASE \E k \in 1 .. D, m \in 1 .. D : i = I + k /\ j = I + m
    <3>1. PICK k \in 1 .. D, m \in 1 .. D : i = I + k /\ j = I + m
      BY Zenon, <2>3
    <3>2. k # m
      BY Zenon, <3>1, <1>10
    <3>3. (F + k) - 1 # (F + m) - 1
      BY <3>2
    <3> QED
      BY Zenon, <3>1, <3>3, <1>8
  <2>4. CASE i \in 1 .. I /\ \E k \in 1 .. D : j = I + k
    BY Zenon, <2>1, <2>4, <1>7, <1>8
  <2>5. CASE j \in 1 .. I /\ \E k \in 1 .. D : i = I + k
    BY Zenon, <2>1, <2>5, <1>7, <1>8
  <2> QED
    BY Zenon, <2>2, <2>3, <2>4, <2>5, <1>6
<1>11. \A i \in 1 .. I : i \in DOMAIN O
  <2>1. 1 .. I \subseteq 1 .. I + D
    BY <1>a
  <2> QED
    BY Zenon, <2>1, <1>4
<1>12. ASSUME NEW x \in F .. T - 1
       PROVE  \E i \in DOMAIN O : O[i].op = x
  <2>1. PICK k \in 1 .. D : (F + k) - 1 = x /\ I + k \in 1 .. I + D
    <3>1. (x - F) + 1 \in 1 .. D /\ (F + ((x - F) + 1)) - 1 = x /\ I + ((x - F) + 1) \in 1 .. I + D
      BY <1>a
    <3> QED
      BY Zenon, <3>1
  <2> QED
    BY Zenon, <2>1, <1>4, <1>8
<1>13. L + (I + D) = T
  BY <1>a
<1> QED
  BY Zenon, <1>1, <1>3, <1>9, <1>10, <1>11, <1>12, <1>13


-----------------------------------------------------------------------------
(* The theorems.                                                           *)

LEMMA ElementIn ==
    ASSUME NEW S, NEW s \in Seq(S), NEW i \in DOMAIN s
    PROVE  s[i] \in S
  OBVIOUS

LEMMA LoggedCommands ==
    ASSUME QueueTypes, NEW i \in DOMAIN log
    PROVE  log[i].cmd \in Commands
<1>1. log \in Seq([cmd : Commands, ok : BOOLEAN])
  BY Zenon DEF QueueTypes
<1>2. log[i] \in [cmd : Commands, ok : BOOLEAN]
  BY Zenon, <1>1, ElementIn
<1> QED
  BY Zenon, <1>2

LEMMA BatchInvariant ==
    ASSUME OneDriver
    PROVE  Spec => [](\A w \in Drivers : BatchInv(w))
<1>1. Init => \A w \in Drivers : BatchInv(w)
  BY Zenon, InitBatch
<1>2. (\A w \in Drivers : BatchInv(w)) /\ [Next]_vars => (\A w \in Drivers : BatchInv(w))'
  BY Zenon, NextBatch
<1> QED
  BY PTL, <1>1, <1>2 DEF Spec

\* The driver never takes an old completion for a new one, for rings of any
\* size: the phase it expects (nvme-ep.hip, the poll loops) tells the entries
\* of this pass of the controller from those of the last, across every wrap of
\* the ring and across the launches of the stateful kernel.
THEOREM ConsumedArePosted ==
    ASSUME OneDriver
    PROVE  Spec => []NoPhantom
<1>1. ASSUME \A w \in Drivers : BatchInv(w)
      PROVE  NoPhantom
  BY Zenon, <1>1 DEF NoPhantom, BatchInv, CountInv, Consumed
<1> QED
  BY PTL, <1>1, BatchInvariant

\* What the controller was told of is the start of the run, every operation
\* once: batch_size leaves a place of the ring free, the tail is advanced by
\* what was written, and an entry is written again only after the batch that
\* used it was consumed (nvme-ep.hip, sqeWrite and the tail arithmetic).
THEOREM OperationsOnce ==
    ASSUME OneDriver
    PROVE  Spec => []EachOpOnce
<1>1. ASSUME \A w \in Drivers : BatchInv(w)
      PROVE  EachOpOnce
  <2>1. PICK w \in Drivers : BatchInv(w)
    BY Zenon, <1>1, BatchAssumption
  <2>p. QueueTypes /\ DriverTypes /\ CountInv(w) /\ OnceInv /\ HeldInv(w)
    BY Zenon, <2>1 DEF BatchInv
  <2>2. PICK L \in Nat, F \in Nat, T \in Nat, o \in Nat :
          /\ L = Len(log) /\ F = FetchedCount /\ T = ToldCount /\ o = ops_done[w]
          /\ L <= F /\ F <= T /\ DOMAIN log = 1 .. L
    BY Zenon, <2>p, Counts
  <2>a. L <= F /\ F <= T
    BY Zenon, <2>2
  <2>3. PICK O \in Seq(Commands) :
          /\ O = Outstanding /\ L + Len(O) = T
          /\ \A i \in DOMAIN O : O[i].op \in o .. T - 1
          /\ \A i \in DOMAIN inflight : i \in DOMAIN O /\ O[i] = inflight[i]
          /\ \A x \in F .. T - 1 : \E i \in DOMAIN O : O[i].op = x
    BY Zenon, <2>1, <2>2, OutstandingIs
  <2>4. PICK n \in Nat : n = Len(O) /\ DOMAIN O = 1 .. n /\ L + n = T
    BY Zenon, <2>3, LenIn
  <2>5. PICK A \in Seq(Commands) : /\ A = [i \in DOMAIN log |-> log[i].cmd] /\ Len(A) = L
                                   /\ \A i \in 1 .. L : A[i] = log[i].cmd
    <3>1. PICK A : A = [i \in DOMAIN log |-> log[i].cmd]
      BY Zenon
    <3>2. \A i \in 1 .. L : log[i].cmd \in Commands
      BY Zenon, <2>2, <2>p, LoggedCommands
    <3>3. A \in [1 .. L -> Commands] /\ \A i \in 1 .. L : A[i] = log[i].cmd
      BY Zenon, <2>2, <3>1, <3>2
    <3>4. A \in Seq(Commands) /\ Len(A) = L
      BY <3>3
    <3> QED
      BY Zenon, <3>1, <3>3, <3>4
  <2>6. PICK G \in Seq(Commands) : /\ G = Told /\ Len(G) = T
                                   /\ \A i \in 1 .. L : G[i] = log[i].cmd
                                   /\ \A i \in 1 .. n : G[L + i] = O[i]
    <3>1. /\ Joined(A, O) \in Seq(Commands) /\ Len(Joined(A, O)) = Len(A) + Len(O)
          /\ \A i \in 1 .. Len(A) : Joined(A, O)[i] = A[i]
          /\ \A i \in 1 .. Len(O) : Joined(A, O)[Len(A) + i] = O[i]
      BY Zenon, JoinedIs
    <3>2. PICK G : G = Joined(A, O)
      BY Zenon
    <3>3. G = Told
      BY Zenon, <3>2, <2>3, <2>5 DEF Told, Joined
    <3>4. G \in Seq(Commands) /\ Len(G) = T
      BY Zenon, <3>1, <3>2, <2>4, <2>5
    <3>5. \A i \in 1 .. L : G[i] = log[i].cmd
      BY Zenon, <3>1, <3>2, <2>5
    <3>6. \A i \in 1 .. n : G[L + i] = O[i]
      BY Zenon, <3>1, <3>2, <2>4, <2>5
    <3> QED
      BY Zenon, <3>3, <3>4, <3>5, <3>6
  <2>7. DOMAIN G = 1 .. T
    BY Zenon, <2>6, LenIn
  <2>8. \A i \in DOMAIN G : OpOf(G[i]) = G[i].op
    <3>1. \A i \in DOMAIN G : G[i] \in Commands
      BY <2>6
    <3> QED
      BY Zenon, <3>1, QueueConstants DEF OpOf
  <2>9. ASSUME NEW i \in DOMAIN G
        PROVE  G[i].op \in 0 .. T - 1
    <3>1. 0 .. F - 1 \subseteq 0 .. T - 1 /\ o .. T - 1 \subseteq 0 .. T - 1
      BY <2>a
    <3>2. CASE i \in 1 .. L
      <4>1. log[i].cmd.op \in 0 .. F - 1
        BY Zenon, <3>2, <2>2, <2>p DEF OnceInv
      <4> QED
        BY Zenon, <4>1, <3>1, <3>2, <2>6
    <3>3. CASE i \notin 1 .. L
      <4>1. PICK k \in 1 .. n : i = L + k
        <5>1. i \in 1 .. T /\ L + n = T
          BY Zenon, <2>4, <2>7
        <5>2. i - L \in 1 .. n /\ i = L + (i - L)
          BY <5>1, <3>3
        <5> QED
          BY Zenon, <5>2
      <4>2. G[i] = O[k] /\ O[k].op \in o .. T - 1
        BY Zenon, <4>1, <2>3, <2>4, <2>6
      <4> QED
        BY Zenon, <4>2, <3>1
    <3> QED
      BY Zenon, <3>2, <3>3
  <2>10. ASSUME NEW x \in 0 .. T - 1
         PROVE  \E i \in DOMAIN G : G[i].op = x
    <3>0. L + n = T
      BY Zenon, <2>4
    <3>1. 1 .. L \subseteq 1 .. T /\ \A k \in 1 .. n : L + k \in 1 .. T
      BY <3>0
    <3>2. \A k \in DOMAIN O : \E i \in DOMAIN G : G[i] = O[k]
      BY Zenon, <3>1, <2>4, <2>6, <2>7
    <3>3. CASE x \in 0 .. F - 1
      <4>1. CASE \E i \in DOMAIN log : log[i].cmd.op = x
        <5>1. PICK i \in 1 .. L : log[i].cmd.op = x
          BY Zenon, <4>1, <2>2
        <5>2. i \in DOMAIN G /\ G[i] = log[i].cmd
          BY Zenon, <3>1, <2>6, <2>7
        <5> QED
          BY Zenon, <5>1, <5>2
      <4>2. CASE \E i \in DOMAIN inflight : inflight[i].op = x
        <5>1. PICK i \in DOMAIN inflight : inflight[i].op = x
          BY Zenon, <4>2
        <5>2. i \in DOMAIN O /\ O[i].op = x
          BY Zenon, <5>1, <2>3
        <5>3. PICK k \in DOMAIN G : G[k] = O[i]
          BY Zenon, <5>2, <3>2
        <5> QED
          BY Zenon, <5>2, <5>3
      <4> QED
        BY Zenon, <3>3, <4>1, <4>2, <2>2, <2>p DEF OnceInv
    <3>4. CASE x \notin 0 .. F - 1
      <4>1. x \in F .. T - 1
        BY <3>4, <2>a
      <4>2. PICK i \in DOMAIN O : O[i].op = x
        BY Zenon, <4>1, <2>3
      <4>3. PICK k \in DOMAIN G : G[k] = O[i]
        BY Zenon, <3>2
      <4> QED
        BY Zenon, <4>2, <4>3
    <3> QED
      BY Zenon, <3>3, <3>4
  <2>11. {OpOf(G[i]) : i \in DOMAIN G} = 0 .. T - 1
    <3>1. \A x \in {OpOf(G[i]) : i \in DOMAIN G} : x \in 0 .. T - 1
      BY Zenon, <2>8, <2>9
    <3>2. \A x \in 0 .. T - 1 : x \in {OpOf(G[i]) : i \in DOMAIN G}
      BY Zenon, <2>8, <2>10
    <3> QED
      BY Zenon, <3>1, <3>2
  <2> QED
    BY Zenon, <2>6, <2>11 DEF EachOpOnce
<1> QED
  BY PTL, <1>1, BatchInvariant

\* No two commands at the controller use the same data buffer and PRP page, and
\* none is prepared under a command that is: the place is the index in the
\* batch (nvme-ep.hip, the buffer offsets of driveEndpoint), and the next batch
\* is prepared only when all of the last one was consumed.
THEOREM BuffersExclusive ==
    ASSUME OneDriver
    PROVE  Spec => []BufferExclusive
<1>1. ASSUME \A w \in Drivers : BatchInv(w)
      PROVE  BufferExclusive
  <2>1. ASSUME NEW i \in DOMAIN Outstanding, NEW j \in DOMAIN Outstanding, i # j
        PROVE  Outstanding[i].slot # Outstanding[j].slot
    <3>1. PICK w \in Drivers : BatchInv(w)
      BY Zenon, <1>1, BatchAssumption
    <3>2. PICK x, y : x = Outstanding[i].op /\ y = Outstanding[j].op
      BY Zenon
    <3>3. PICK o \in Nat, T \in Nat : o = ops_done[w] /\ T = ToldCount
      BY Zenon, <3>1, Counts DEF BatchInv
    <3>4. /\ x \in o .. T - 1 /\ y \in o .. T - 1 /\ x # y
          /\ Outstanding[i] = EntryOf(w, x) /\ Outstanding[j] = EntryOf(w, y)
      BY Zenon, <3>1, <3>2, <3>3, <2>1, OutstandingIs
    <3>5. Outstanding[i].slot = x - o /\ Outstanding[j].slot = y - o
      <4>1. EntryOf(w, x).slot = x - o /\ EntryOf(w, y).slot = y - o
        BY Zenon, <3>3 DEF EntryOf
      <4> QED
        BY Zenon, <3>4, <4>1
    <3>6. x \in o .. T - 1 /\ y \in o .. T - 1 /\ x # y
      BY Zenon, <3>4
    <3>7. x - o # y - o
      BY <3>6
    <3> QED
      BY Zenon, <3>5, <3>7
  <2>2. ASSUME NEW w \in Drivers, pc[w] = "prepare", NEW i \in DOMAIN Outstanding
        PROVE  FALSE
    <3>1. BatchInv(w)
      BY Zenon, <1>1
    <3>2. PICK o \in Nat : o = ToldCount /\ o = Len(log)
      BY Zenon, <3>1, <2>2, PrepareCounts
    <3>3. Outstanding \in Seq(Commands) /\ o + Len(Outstanding) = o
      BY Zenon, <3>1, <3>2, OutstandingIs
    <3>4. PICK n \in Nat : n = Len(Outstanding) /\ i \in 1 .. n
      BY Zenon, <3>3, <2>2, LenIn
    <3>5. o + n = o
      BY Zenon, <3>3, <3>4
    <3>6. i \in 1 .. n
      BY Zenon, <3>4
    <3> QED
      BY <3>5, <3>6
  <2> QED
    BY Zenon, <2>1, <2>2 DEF BufferExclusive
<1> QED
  BY PTL, <1>1, BatchInvariant

\* With --batch-size 1, the size --verify is meant for, a read executes after
\* the write of its block was reported a success (nvme-ep.hip: one operation
\* at a time, the writes first, and the run ends at the first error).
THEOREM ReadsFindWrites ==
    ASSUME OneDriver, \A c \in Configs : c.batchSize # 0
    PROVE  Spec => []ReadBack
<1>1. ASSUME \A w \in Drivers : BatchInv(w)
      PROVE  ReadBack
  <2>1. SUFFICES ASSUME VerifyAllowed, NEW i \in DOMAIN log, IsRead(OpOf(log[i].cmd))
                 PROVE  \E j \in 1 .. i - 1 : /\ OpOf(log[j].cmd) = LbaIdx(OpOf(log[i].cmd))
                                              /\ log[j].ok
    BY Zenon DEF ReadBack
  <2>2. PICK w \in Drivers : BatchInv(w)
    BY Zenon, <1>1, BatchAssumption
  <2>p. QueueTypes /\ DriverTypes /\ CountInv(w) /\ SerialInv(w)
    BY Zenon, <2>2 DEF BatchInv
  <2>3. ~Stateful /\ config.batchSize = 1 /\ config.writeIo > 0 /\ config.readIo > 0
    <3>1. ~Stateful /\ config.batchSize <= 1 /\ config.writeIo > 0 /\ config.readIo > 0
      BY Zenon, <2>1 DEF VerifyAllowed
    <3>2. PICK b \in Nat : b = config.batchSize /\ b # 0
      BY Zenon, <2>p, RunOf DEF DriverTypes
    <3>3. b = 1
      BY <3>1, <3>2
    <3> QED
      BY Zenon, <3>1, <3>2, <3>3
  <2>4. \A k \in DOMAIN log : OpOf(log[k].cmd) = k - 1
    <3>1. \A k \in DOMAIN log : log[k].cmd \in Commands
      BY Zenon, <2>p, LoggedCommands
    <3> QED
      BY Zenon, <3>1, <2>3, <2>p, QueueConstants DEF SerialInv, OpOf
  <2>5. PICK L \in Nat, C \in Nat, o \in Nat, m \in Nat, T \in Nat, W \in Nat, F \in Nat :
          /\ L = Len(log) /\ C = Consumed(w) /\ o = ops_done[w] /\ m = batch_count(w)
          /\ T = ToldCount /\ W = config.writeIo /\ F = FetchedCount
          /\ o <= C /\ L <= F /\ F <= T /\ T <= o + m /\ m <= 1 /\ W > 0
          /\ DOMAIN log = 1 .. L
    <3>1. PICK L \in Nat, C \in Nat, o \in Nat, m \in Nat, T \in Nat, F \in Nat, t \in Nat :
            /\ L = Len(log) /\ C = Consumed(w) /\ o = ops_done[w] /\ m = batch_count(w)
            /\ T = ToldCount /\ F = FetchedCount /\ t = Total
            /\ o <= C /\ L <= F /\ F <= T /\ T <= o + m /\ C <= L /\ T <= t
            /\ DOMAIN log = 1 .. L
      BY Zenon, <2>p, Counts, QueueConstants
    <3>2. o <= t
      BY <3>1
    <3>3. m <= 1
      BY Zenon, <3>1, <3>2, <2>3, <2>p, BatchCount
    <3>4. config.writeIo \in Nat
      BY Zenon, <2>p, RunOf
    <3> QED
      BY Zenon, <3>1, <3>3, <3>4, <2>3
  <2>6. o <= C /\ L <= F /\ F <= T /\ T <= o + m /\ m <= 1 /\ W > 0
    BY Zenon, <2>5
  <2>7. i \in 1 .. L /\ i - 1 >= W
    <3>1. IsRead(i - 1)
      BY Zenon, <2>1, <2>4
    <3> QED
      BY Zenon, <3>1, <2>3, <2>5 DEF IsRead
  <2>8. PICK j \in 1 .. i - 1 : /\ j - 1 = (i - 1) - W /\ j \in 1 .. C /\ j \in 1 .. L
    <3>1. /\ i - W \in 1 .. i - 1 /\ (i - W) - 1 = (i - 1) - W /\ i - W \in 1 .. C
          /\ i - W \in 1 .. L
      BY <2>6, <2>7
    <3> QED
      BY Zenon, <3>1
  <2>9. OpOf(log[j].cmd) = j - 1 /\ log[j].ok
    BY Zenon, <2>3, <2>4, <2>5, <2>8, <2>p DEF SerialInv
  <2>10. LbaIdx(i - 1) = (i - 1) - W
    BY Zenon, <2>1, <2>3, <2>4, <2>5 DEF LbaIdx
  <2> QED
    BY Zenon, <2>4, <2>8, <2>9, <2>10
<1> QED
  BY PTL, <1>1, BatchInvariant

=============================================================================
