----------------------------- MODULE BnxtSizing -----------------------------
(***************************************************************************)
(* The sizes of the bnxt queues the endpoint allocates itself              *)
(* (endpoints/rdma-ep/bnxt/bnxt-dv-sizing.hpp): work requests to slots,    *)
(* slots to bytes, and the table of PSN entries behind the send ring.      *)
(*                                                                         *)
(* The checks run over queue sizes far from the width of uint32_t.         *)
(***************************************************************************)
EXTENDS Integers, Bitwise

CONSTANTS
  PageBytes,        \* sysconf(_SC_PAGESIZE)
  SizesChecked,     \* the numbers of work requests checked
  SgesChecked,      \* the numbers of scatter entries checked
  InlineChecked     \* the inline sizes checked

STRIDE == 16
SQE_HDR_SZ == 32
MSN_ENTRY_SZ == 8
FULL_FLAG_DELTA == 128
VAR_SLOT_ALIGN == 256

Smear(n, k) == n | (n \div 2^k)

\* The shift by 32 is left out: no number here has a bit it could move.
roundup_pow2(n) ==
  IF n <= 1 THEN 1
  ELSE Smear(Smear(Smear(Smear(Smear(n - 1, 1), 2), 4), 8), 16) + 1

\* A mask with ~(a - 1), for a power of two.
align_up(val, a) == (val + a - 1) - ((val + a - 1) & (a - 1))

calc_wqe_sz(nsge) == STRIDE * nsge + SQE_HDR_SZ

SqWqeSize(sge, inline) ==
  LET cal == SQE_HDR_SZ + align_up(inline, STRIDE)
      sz  == calc_wqe_sz(sge)
  IN  IF inline = 0 THEN sz ELSE align_up(IF cal > sz THEN cal ELSE sz, STRIDE)

compute_sq(wr, sge, inline) ==
  LET nswr   == roundup_pow2(wr + 1 + FULL_FLAG_DELTA)
      wqe_sz == SqWqeSize(sge, inline)
      slots  == align_up((nswr * wqe_sz) \div STRIDE, VAR_SLOT_ALIGN)
      npsn   == roundup_pow2(slots)
  IN  [slots |-> slots, wqe_sz |-> wqe_sz, npsn |-> npsn, psn_sz |-> MSN_ENTRY_SZ,
       len |-> align_up(slots * STRIDE + npsn * MSN_ENTRY_SZ, PageBytes)]

compute_rq(wr, sge) ==
  LET nrwr   == roundup_pow2(wr + 1)
      wqe_sz == calc_wqe_sz(sge)
      slots  == (nrwr * wqe_sz) \div STRIDE
  IN  IF wr = 0 THEN [slots |-> 0, wqe_sz |-> 0, len |-> 0]
      ELSE [slots |-> slots, wqe_sz |-> wqe_sz, len |-> align_up(slots * STRIDE, PageBytes)]

Powers == {2^k : k \in 0 .. 20}

\* roundup_pow2's smearing of bits finds the least power of two that is not
\* below its argument, align_up the least multiple.
ASSUME RoundsUp ==
  \A n \in SizesChecked :
    /\ roundup_pow2(n) \in Powers /\ roundup_pow2(n) >= n
    /\ n > 1 => roundup_pow2(n) < 2 * n
    /\ align_up(n, PageBytes) % PageBytes = 0
    /\ align_up(n, PageBytes) - n \in 0 .. PageBytes - 1

\* The send ring has a slot for every request create_qps may post and for the
\* full-flag reserve, a PSN entry for every slot, and the allocation holds the
\* ring with the table behind it; the receive ring holds its requests.
ASSUME RingsHold ==
  \A wr \in SizesChecked, sge \in SgesChecked, inline \in InlineChecked :
    LET sq == compute_sq(wr, sge, inline)
        rq == compute_rq(wr, sge)
    IN  /\ sq.slots * STRIDE >= (wr + 1 + FULL_FLAG_DELTA) * sq.wqe_sz
        /\ sq.wqe_sz % STRIDE = 0 /\ sq.wqe_sz >= SQE_HDR_SZ + inline
        /\ sq.npsn >= sq.slots /\ sq.npsn \in Powers
        /\ sq.len >= sq.slots * STRIDE + sq.npsn * sq.psn_sz /\ sq.len % PageBytes = 0
        /\ wr > 0 => rq.len >= (wr + 1) * rq.wqe_sz /\ rq.len % PageBytes = 0

\* The device takes the head from a 16-bit count of work requests of three slots
\* (con_indx): with one scatter entry and at most two strides inline, the count
\* wraps at the end of a lap of the ring.
ASSUME LapsWhole ==
  \A wr \in SizesChecked, inline \in InlineChecked :
    LET slots == compute_sq(wr, 1, inline).slots
    IN  inline <= 2 * STRIDE /\ slots <= 2^16 => (2^16 * 3) % slots = 0
=============================================================================
