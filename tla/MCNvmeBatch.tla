---------------------------- MODULE MCNvmeBatch ----------------------------
(* Small instances of NvmeBatch and NvmePrp for TLC.                       *)
EXTENDS NvmeBatch, NvmePrp

MaxTotal == Max({c.writeIo + c.readIo : c \in Configs})
MCCommands == [op : 0 .. MaxTotal - 1, slot : Slots]

Run(batch, write, read) ==
    [kernel |-> "drive", batchSize |-> batch, writeIo |-> write, readIo |-> read]
Launches(n, read) == [kernel |-> "stateful", batchSize |-> n, writeIo |-> 0, readIo |-> read]

\* Single operations, batches of 2, and batches of 4 clamped to the queue; a
\* verifiable run, mixed ones, and reads alone; launches of one to three
\* commands, so that the phase flips between and within them.
Runs == {Run(1, 2, 2), Run(1, 5, 0), Run(2, 2, 3), Run(4, 3, 4), Run(4, 0, 5), Launches(3, 5)}

-----------------------------------------------------------------------------
(* The PRPs, with pages of 32 bytes and so lists of four entries.          *)

\* An allocation whose pages lie in descending order.
Scattered == [i \in 0 .. 9 |-> NVME_PAGE_SIZE * (20 - i)]

\* Every transfer of one to five pages from any offset of two pages.
ASSUME PrpsCover ==
    \A pages \in {Contiguous, Scattered}, off \in 0 .. 2 * NVME_PAGE_SIZE,
       size \in 1 .. 5 * NVME_PAGE_SIZE :
        LET a == BufferAddr(0, pages, off)
            prps == calculatePrps(a, size, 1, 0, pages, off \div NVME_PAGE_SIZE)
        IN  /\ RemainingPages(a, size) <= prpListEntriesPerPage =>
                   \A o \in 0 .. size - 1 :
                       PrpByte(prps, size, o) = BufferAddr(0, pages, off + o)
            /\ RemainingPages(off, size) <= 1 =>
                   calculatePrpsShort(off, size) = calculatePrps(off, size, 1, 0, Contiguous, 0)

\* The slots of the fio engine, of three and of six pages: the second needs more
\* entries than a list has, and its transfers may be shorter.
ASSUME PrefilledCover ==
    \A pages \in {Contiguous, [i \in 0 .. 20 |-> NVME_PAGE_SIZE * (30 - i)]}, m \in {3, 6}, s \in 0 .. 2 :
        LET off == s * m * NVME_PAGE_SIZE
            a == BufferAddr(0, pages, off)
            list == rxio_prp_prefill(pages, 0, m, s)
        IN  \A size \in 1 .. m * NVME_PAGE_SIZE :
                RemainingPages(a, size) <= prpListEntriesPerPage =>
                    \A o \in 0 .. size - 1 :
                        PrpByte([calculatePrps(a, size, nullptr, 0, pages, s * m) EXCEPT !.list = list],
                                size, o) = BufferAddr(0, pages, off + o)

\* A pool whose pages lie in descending order.
ASSUME ListsNamed ==
    LET frames == [i \in 0 .. 9 |-> NVME_PAGE_SIZE * (20 - i)] IN
    \A mul \in {1, 2}, b \in 0 .. 2, w \in BOOLEAN, k \in 0 .. prpListEntriesPerPage - 1 :
        LET p == QueuePool(frames, NVME_PAGE_SIZE, 3, mul) IN
        getPhysAddr(frames, NVME_PAGE_SIZE + (nvmePrpListWordOffset(p, b, w) + k) * EntryBytes)
            = prpListDmaForSlot(p, nvmePrpListDmaSlotIndex(p, b, w)) + k * EntryBytes

\* The smallest block for which 16 bits are enough, and a larger one.
ASSUME BlocksNamed ==
    \A lbaSize \in {20, 32}, nlb \in 1 .. 20, slba \in 0 .. 40 :
        TransferAccepted(nlb, lbaSize) =>
            /\ CommandLba(sqeSetup(ZeroSqe, slba, nlb)) = slba
            /\ CommandBlocks(sqeSetup(ZeroSqe, slba, nlb)) = nlb
============================================================================
