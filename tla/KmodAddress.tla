---------------------------- MODULE KmodAddress ----------------------------
(***************************************************************************)
(* The address arithmetic of the kernel module (kernel/rocm-xio/           *)
(* rocm-xio.c): the packing of a PCI address into a BDF word and back, and *)
(* the guest address of a GPU buffer that GET_VRAM_PHYS_ADDR returns.      *)
(*                                                                         *)
(* A word of w bits is a number below the product of its fields' sizes;    *)
(* shifts and masks are \div and % by them.  The PCI core, the scatter     *)
(* list and the TTM resource of a buffer are external inputs.              *)
(***************************************************************************)
EXTENDS Integers, Sequences

CONSTANTS
  Domains,    \* values of the domain field: 65536
  Buses,      \* values of the bus field: 256
  Devfns,     \* values of the device and function field: 256
  PageSize    \* 1 << PAGE_SHIFT

ASSUME FieldsAssumption ==
  /\ Domains \in Nat \ {0} /\ Buses \in Nat \ {0} /\ Devfns \in Nat \ {0}
  /\ PageSize \in Nat \ {0}

-----------------------------------------------------------------------------
(* BDF words.                                                              *)

\* What pci_domain_nr, pci_bus.number and pci_dev.devfn may be.  A domain
\* number is an int and may exceed its field.
PciAddress == [domain : Nat, bus : 0 .. Buses - 1, devfn : 0 .. Devfns - 1]

\* The shift into a 32-bit word drops the domain's high bits.
pci_dev_to_bdf(d) ==
  (d.domain % Domains) * (Buses * Devfns) + d.bus * Devfns + d.devfn

DecodeBdf(bdf) ==
  [domain |-> (bdf \div (Buses * Devfns)) % Domains,
   bus    |-> (bdf \div Devfns) % Buses,
   devfn  |-> bdf % Devfns]

\* The keys of poisoned_qids are 16 bits wide.
ShortBdf(bdf) == bdf % (Buses * Devfns)

-----------------------------------------------------------------------------
(* GET_VRAM_PHYS_ADDR.  -1 stands for -EINVAL.                             *)

\* extract_vram_offset_from_amdgpu_bo.  ttm is the buffer's TTM resource, if
\* it has one; an offset behind the BAR is only reported.
extract_vram_offset_from_amdgpu_bo(ttm) ==
  IF ttm.present /\ ttm.vram THEN ttm.start * PageSize ELSE -1

InBar(a, bar) == bar.start <= a /\ a < bar.start + bar.len

\* The first segment of the scatter list that lies in the BAR, or 0.
FirstInBar(sgs, bar) ==
  IF \E i \in DOMAIN sgs : InBar(sgs[i].phys, bar)
  THEN CHOOSE i \in DOMAIN sgs :
         /\ InBar(sgs[i].phys, bar)
         /\ \A j \in DOMAIN sgs : InBar(sgs[j].phys, bar) => i <= j
  ELSE 0

\* extract_vram_offset_from_sg: the physical address, then the TTM resource,
\* then the DMA address of the first segment taken for an offset.
extract_vram_offset_from_sg(sgs, bar, ttm) ==
  LET first == FirstInBar(sgs, bar)
      bo    == extract_vram_offset_from_amdgpu_bo(ttm)
  IN  IF sgs = <<>> THEN -1
      ELSE IF first # 0 THEN sgs[first].phys - bar.start
      ELSE IF bo # -1 THEN bo
      ELSE IF 0 < sgs[1].dma /\ sgs[1].dma < bar.len THEN sgs[1].dma
      ELSE -1

\* get_dmabuf_bar_gpa once the buffer is mapped: only a prefetchable memory
\* BAR 0 will do, and its base stands in for an offset that is not found.
get_dmabuf_bar_gpa(bars, sgs, ttm) ==
  LET bar    == bars[0]
      offset == extract_vram_offset_from_sg(sgs, bar, ttm)
  IN  IF ~(bar.mem /\ bar.prefetch) THEN -1
      ELSE IF offset # -1 THEN bar.start + offset
      ELSE bar.start

Bar == [mem : BOOLEAN, prefetch : BOOLEAN, start : Nat, len : Nat \ {0}]
Segment == [phys : Nat, dma : Nat]
Resource == [present : BOOLEAN, vram : BOOLEAN, start : Nat]
=============================================================================
