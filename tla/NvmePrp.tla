------------------------------ MODULE NvmePrp ------------------------------
(***************************************************************************)
(* What a submission entry says, as nvme-ep.h computes it: the physical    *)
(* region pages (PRPs) of a transfer, the place of its PRP list in the     *)
(* pool, the blocks it names; and what a completion's status says.         *)
(*                                                                         *)
(* The controller is external: PrpByte is how it finds byte o of a         *)
(* transfer from the two PRP words, after section 4.4 of the NVMe          *)
(* specification, which calculatePrps quotes.  The unit of addresses is    *)
(* the byte.  The theorems are in NvmeBatch_proofs.                        *)
(***************************************************************************)
EXTENDS Integers, Sequences

CONSTANTS
    NVME_PAGE_SIZE,  \* bytes of a page, 4096 in the code
    Word32,          \* values of a 32-bit field, 2^32 in the code
    Word16           \* values of a 16-bit field, 2^16 in the code

EntryBytes == 8

ASSUME PrpAssumption ==
    /\ NVME_PAGE_SIZE \in Nat \ {0}
    /\ NVME_PAGE_SIZE % EntryBytes = 0
    /\ Word32 \in Nat \ {0} /\ Word16 \in Nat \ {0}

prpListEntriesPerPage == NVME_PAGE_SIZE \div EntryBytes

\* pagePhysAddrs is nullptr: the buffer is contiguous.
Contiguous == <<>>

nullptr == 0

-----------------------------------------------------------------------------
(* The pages of a transfer.                                                *)

FirstPageSize(bufferAddr) == NVME_PAGE_SIZE - (bufferAddr % NVME_PAGE_SIZE)

Pages(bytes) == (bytes + NVME_PAGE_SIZE - 1) \div NVME_PAGE_SIZE

RemainingPages(bufferAddr, bufferSize) ==
    IF bufferSize <= FirstPageSize(bufferAddr) THEN 0
    ELSE Pages(bufferSize - FirstPageSize(bufferAddr))

\* A list is one page; what it cannot hold is dropped.
NumRemainingPages(bufferAddr, bufferSize) ==
    IF RemainingPages(bufferAddr, bufferSize) > prpListEntriesPerPage
    THEN prpListEntriesPerPage
    ELSE RemainingPages(bufferAddr, bufferSize)

\* The address of the i-th page behind the first, from 0.  A function stands
\* for the array pagePhysAddrs, indexed by the pages of the allocation.
PageBehindFirst(bufferAddr, pagePhysAddrs, bufPageOffset, i) ==
    IF pagePhysAddrs = Contiguous
    THEN bufferAddr + FirstPageSize(bufferAddr) + i * NVME_PAGE_SIZE
    ELSE pagePhysAddrs[bufPageOffset + 1 + i]

\* The two words of the entry, and the list it stores when one is needed, at
\* prpList; if that is nullptr, PRP2 names a list that is there already.
calculatePrps(bufferAddr, bufferSize, prpList, prpListDma, pagePhysAddrs, bufPageOffset) ==
    LET n == NumRemainingPages(bufferAddr, bufferSize)
        Page(i) == PageBehindFirst(bufferAddr, pagePhysAddrs, bufPageOffset, i)
    IN  [prp1 |-> bufferAddr,
         prp2 |-> CASE n = 0 -> 0 [] n = 1 -> Page(0) [] OTHER -> prpListDma,
         list |-> IF n > 1 /\ prpList # nullptr THEN [k \in 1 .. n |-> Page(k - 1)] ELSE <<>>]

\* The list rxio_prp_prefill leaves for slot s of the fio engine's buffer, whose
\* slots are singleBufPages pages each.
rxio_prp_prefill(pagePhysAddrs, bufDmaBase, singleBufPages, s) ==
    LET n == IF singleBufPages - 1 > prpListEntriesPerPage
             THEN prpListEntriesPerPage ELSE singleBufPages - 1
    IN  [k \in 1 .. n |->
            IF pagePhysAddrs = Contiguous
            THEN bufDmaBase + s * singleBufPages * NVME_PAGE_SIZE + k * NVME_PAGE_SIZE
            ELSE pagePhysAddrs[s * singleBufPages + k]]

\* The overload for at most two pages.
calculatePrpsShort(bufferAddr, bufferSize) ==
    [prp1 |-> bufferAddr,
     prp2 |-> IF bufferSize <= FirstPageSize(bufferAddr) THEN 0
              ELSE bufferAddr + FirstPageSize(bufferAddr),
     list |-> <<>>]

\* Where the controller reads or writes byte o of a transfer: PRP2 is a page
\* if the transfer has two, and the address of the list if it has more.
PrpByte(prps, bufferSize, o) ==
    LET first == FirstPageSize(prps.prp1)
        k == (o - first) \div NVME_PAGE_SIZE
        within == (o - first) % NVME_PAGE_SIZE
    IN  IF o < first THEN prps.prp1 + o
        ELSE IF RemainingPages(prps.prp1, bufferSize) = 1 THEN prps.prp2 + within
        ELSE prps.list[k + 1] + within

\* The address of a place of an allocation: as the driveEndpoint loops compute
\* it, which add the offset in the page, when the allocation has a page array.
BufferAddr(base, pagePhysAddrs, off) ==
    IF pagePhysAddrs = Contiguous
    THEN base + off
    ELSE pagePhysAddrs[off \div NVME_PAGE_SIZE] + (off % NVME_PAGE_SIZE)

-----------------------------------------------------------------------------
(* The places of the PRP lists: nvmeBufferParams holds prpEntriesPerCmd,   *)
(* prpSlotsPerBatch, the pool's DMA address and, if it has one, the array  *)
(* of the DMA addresses of its pages.                                      *)

nvmePrpSlotsPerBatchVal(p) == IF p.prpSlotsPerBatch = 2 THEN 2 ELSE 1

nvmePrpListWordOffset(p, batchIdx, isWrite) ==
    LET mul == nvmePrpSlotsPerBatchVal(p)
    IN  batchIdx * mul * p.prpEntriesPerCmd
            + (IF mul > 1 /\ isWrite THEN p.prpEntriesPerCmd ELSE 0)

nvmePrpListDmaSlotIndex(p, batchIdx, isWrite) ==
    IF nvmePrpSlotsPerBatchVal(p) > 1
    THEN batchIdx * nvmePrpSlotsPerBatchVal(p) + (IF isWrite THEN 1 ELSE 0)
    ELSE batchIdx

prpListDmaForSlot(p, slot) ==
    IF p.prpListPageDmas # Contiguous
    THEN p.prpListPageDmas[slot]
    ELSE IF p.prpListPoolDma = 0 \/ p.prpEntriesPerCmd = 0 THEN 0
    ELSE LET stride == IF p.prpEntriesPerCmd < prpListEntriesPerPage
                       THEN prpListEntriesPerPage ELSE p.prpEntriesPerCmd
         IN  p.prpListPoolDma + slot * stride * EntryBytes

\* getPhysAddr of a virtual address: frames is the page table.
getPhysAddr(frames, virt) == frames[virt \div NVME_PAGE_SIZE] + (virt % NVME_PAGE_SIZE)

\* The pool of a queue of run(), or of rxio_setup with one list per place: its
\* virtual address, the batch, and the lists of each place of the batch.
QueuePool(frames, pool, batch, slotsPerBatch) ==
    [prpEntriesPerCmd |-> prpListEntriesPerPage,
     prpSlotsPerBatch |-> slotsPerBatch,
     prpListPoolDma |-> getPhysAddr(frames, pool),
     prpListPageDmas |-> [s \in 0 .. batch * slotsPerBatch - 1 |->
                             getPhysAddr(frames, pool + s * prpListEntriesPerPage * EntryBytes)]]

-----------------------------------------------------------------------------
(* The command words and the status word.                                  *)

\* sqe holds cdw10, cdw11 and cdw12; a zero argument leaves what is there.
sqeSetup(sqe, slba, nlb) ==
    [cdw10 |-> IF slba # 0 THEN slba % Word32 ELSE sqe.cdw10,
     cdw11 |-> IF slba # 0 THEN (slba \div Word32) % Word32 ELSE sqe.cdw11,
     cdw12 |-> IF nlb # 0 THEN nlb - 1 ELSE sqe.cdw12]

\* Both kernels start from a zeroed entry.
ZeroSqe == [cdw10 |-> 0, cdw11 |-> 0, cdw12 |-> 0]

\* The first block and the number of blocks the controller finds: the count is
\* in the low half of CDW12, the flags of the command are in the other.
CommandLba(sqe) == sqe.cdw10 + Word32 * sqe.cdw11
CommandBlocks(sqe) == (sqe.cdw12 % Word16) + 1

\* run() admits a transfer of as many pages as PRP1 and one list can name.
TransferAccepted(lbasPerIo, lbaSize) == Pages(lbasPerIo * lbaSize) <= prpListEntriesPerPage + 1

\* Bit 0 of the status is the phase, bits 1 to 8 the code, 9 to 11 its type.
cqeStatusCode(status) == (status \div 2) % 256
cqeStatusType(status) == (status \div 512) % 8
cqeOk(status) == cqeStatusType(status) = 0 /\ cqeStatusCode(status) = 0
============================================================================
