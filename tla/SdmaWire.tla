------------------------------ MODULE SdmaWire ------------------------------
(***************************************************************************)
(* The SDMA packets as the device-side builders fill them in               *)
(* (sdma_packets.hpp, sdma_device.hpp) and as the engine reads them.  A    *)
(* packet structure (sdma_pkt_struct.h, sdma_pkt_struct_mi4.h) is a record *)
(* that gives each bit field the number of values it can hold; reserved    *)
(* bits are left out.  Assigning to a bit field keeps the value modulo     *)
(* that number, and a field that is not assigned is zero.                  *)
(*                                                                         *)
(* The engine is external: it puts the halves of an address or a datum     *)
(* together, and copies one byte more than the count says.                 *)
(***************************************************************************)
EXTENDS Integers

CONSTANTS
    Dword,     \* 2^32: what a full field holds
    CountMod,  \* 2^30: what the count field of a copy holds
    Align      \* 8: what the fields that drop the low address bits divide by

ASSUME WireAssumption ==
    /\ Align \in Nat \ {0}
    /\ CountMod \in Nat \ {0}
    /\ Dword \in Nat \ {0}
    /\ Dword % Align = 0

Address == 0 .. Dword * Dword - 1
Nullptr == 0

\* sizeof(layout) zeroed, then the assignments of vals.
Fill(layout, vals) ==
    [f \in DOMAIN layout |-> IF f \in DOMAIN vals THEN vals[f] % layout[f] ELSE 0]

-----------------------------------------------------------------------------
(* The structures.                                                         *)

SDMA_PKT_COPY_LINEAR ==
    [op |-> 256, sub_op |-> 256, broadcast |-> 2, count |-> CountMod,
     dst_sw |-> 4, dst_ha |-> 2, src_sw |-> 4, src_ha |-> 2,
     src_addr_31_0 |-> Dword, src_addr_63_32 |-> Dword,
     dst_addr_31_0 |-> Dword, dst_addr_63_32 |-> Dword]

SDMA_PKT_FENCE ==
    [op |-> 256, sub_op |-> 256, addr_31_0 |-> Dword, addr_63_32 |-> Dword, data |-> Dword]

SDMA_PKT_POLL_REGMEM ==
    [op |-> 256, sub_op |-> 256, hdp_flush |-> 2, func |-> 8, mem_poll |-> 2,
     addr_31_0 |-> Dword, addr_63_32 |-> Dword, value |-> Dword, mask |-> Dword,
     interval |-> 65536, retry_count |-> 4096]

SDMA_PKT_TIMESTAMP ==
    [op |-> 256, sub_op |-> 256, addr_31_0 |-> Dword, addr_63_32 |-> Dword]

SDMA_PKT_ATOMIC ==
    [op |-> 256, sub_op |-> 256, l |-> 2, operation |-> 128,
     addr_31_0 |-> Dword, addr_63_32 |-> Dword,
     src_data_31_0 |-> Dword, src_data_63_32 |-> Dword,
     cmp_data_31_0 |-> Dword, cmp_data_63_32 |-> Dword, loop_interval |-> 8192]

\* The upper half of the destination address is called src_data_63_32 there.
SDMA_PKT_LINEAR_LARGE_SUB_WINDOW_COPY ==
    [op |-> 256, sub_op |-> 256, l |-> 2, operation |-> 128,
     src_base_addr_31_0 |-> Dword, src_base_addr_63_32 |-> Dword,
     src_x |-> Dword, src_y |-> Dword, src_z |-> Dword, src_pitch |-> Dword,
     src_slice_pitch_31_0 |-> Dword, src_slice_pitch_47_32 |-> 65536,
     dst_data_31_0 |-> Dword, src_data_63_32 |-> Dword,
     dst_x |-> Dword, dst_y |-> Dword, dst_z |-> Dword, dst_pitch |-> Dword,
     dst_slice_pitch_31_0 |-> Dword, dst_slice_pitch_47_32 |-> 65536,
     rect_x |-> Dword, rect_y |-> Dword, rect_z |-> Dword]

\* The scopes and temporal hints are never assigned and are left out.
SDMA_PKT_COPY_LINEAR_WAIT_SIGNAL_MI4 ==
    [op |-> 256, subop |-> 256, tmz |-> 2, npd |-> 2, wait |-> 2, signal |-> 2,
     wait_function |-> 8, wait_addr_31_3 |-> Dword \div Align, wait_addr_63_32 |-> Dword,
     wait_reference_31_0 |-> Dword, wait_reference_63_32 |-> Dword,
     wait_mask_31_0 |-> Dword, wait_mask_63_32 |-> Dword, copy_count |-> CountMod,
     src_addr_31_0 |-> Dword, src_addr_63_32 |-> Dword,
     dst_addr_31_0 |-> Dword, dst_addr_63_32 |-> Dword, signal_operation |-> 128,
     signal_addr_31_3 |-> Dword \div Align, signal_addr_63_32 |-> Dword,
     signal_data_31_0 |-> Dword, signal_data_63_32 |-> Dword]

-----------------------------------------------------------------------------
(* The builders.                                                           *)

CopyLinearPacket(src, dst, size) ==
    Fill(SDMA_PKT_COPY_LINEAR,
         [op |-> 1, sub_op |-> 0, count |-> size - 1,
          src_addr_31_0 |-> src, src_addr_63_32 |-> src \div Dword,
          dst_addr_31_0 |-> dst, dst_addr_63_32 |-> dst \div Dword])

TimestampPacket(addr) ==
    Fill(SDMA_PKT_TIMESTAMP,
         [op |-> 13, sub_op |-> 2, addr_31_0 |-> addr, addr_63_32 |-> addr \div Dword])

LargeSubWindowCopyPacket(src, dst, width, height, srcPitch, dstPitch, srcX, srcY, dstX, dstY) ==
    Fill(SDMA_PKT_LINEAR_LARGE_SUB_WINDOW_COPY,
         [op |-> 1, sub_op |-> 36,
          src_base_addr_31_0 |-> src, src_base_addr_63_32 |-> src \div Dword,
          src_x |-> srcX, src_y |-> srcY, src_pitch |-> srcPitch - 1,
          dst_data_31_0 |-> dst, src_data_63_32 |-> dst \div Dword,
          dst_x |-> dstX, dst_y |-> dstY, dst_pitch |-> dstPitch - 1,
          rect_x |-> width - 1, rect_y |-> height - 1])

\* The 64-bit instance, the one the device code uses.
AtomicAddPacket(ptr, delta) ==
    Fill(SDMA_PKT_ATOMIC,
         [op |-> 10, operation |-> 47, addr_31_0 |-> ptr, addr_63_32 |-> ptr \div Dword,
          src_data_31_0 |-> delta, src_data_63_32 |-> delta \div Dword])

CreateAtomicIncPacket(addr) == AtomicAddPacket(addr, 1)

PollRegmemPacket(flag, expected) ==
    Fill(SDMA_PKT_POLL_REGMEM,
         [op |-> 8, func |-> 5, mem_poll |-> 1,
          addr_31_0 |-> flag, addr_63_32 |-> flag \div Dword,
          value |-> expected, mask |-> Dword - 1, interval |-> 10, retry_count |-> 4095])

CreateFencePacket(addr, data) ==
    Fill(SDMA_PKT_FENCE,
         [op |-> 5, addr_31_0 |-> addr, addr_63_32 |-> addr \div Dword, data |-> data])

\* put_signal_counter_impl never enables the wait: those fields stay zero.
CreateCopyWaitSignalPacketMI4(src, dst, size, signalAddr, signalData) ==
    Fill(SDMA_PKT_COPY_LINEAR_WAIT_SIGNAL_MI4,
         [op |-> 1, subop |-> 0, signal |-> IF signalAddr # Nullptr THEN 1 ELSE 0,
          copy_count |-> size - 1,
          src_addr_31_0 |-> src, src_addr_63_32 |-> src \div Dword,
          dst_addr_31_0 |-> dst, dst_addr_63_32 |-> dst \div Dword,
          signal_operation |-> IF signalAddr # Nullptr THEN 111 ELSE 0,
          signal_addr_31_3 |-> signalAddr \div Align,
          signal_addr_63_32 |-> signalAddr \div Dword,
          signal_data_31_0 |-> IF signalAddr # Nullptr THEN signalData ELSE 0,
          signal_data_63_32 |-> IF signalAddr # Nullptr THEN signalData \div Dword ELSE 0])

-----------------------------------------------------------------------------
(* What the engine does for a packet.                                      *)

Whole(lo, hi) == hi * Dword + lo

EngineCopy(p) ==
    [src |-> Whole(p.src_addr_31_0, p.src_addr_63_32),
     dst |-> Whole(p.dst_addr_31_0, p.dst_addr_63_32),
     bytes |-> p.count + 1]

EngineAdd(p) ==
    [addr |-> Whole(p.addr_31_0, p.addr_63_32),
     add |-> Whole(p.src_data_31_0, p.src_data_63_32)]

EngineFusedCopy(p) ==
    [src |-> Whole(p.src_addr_31_0, p.src_addr_63_32),
     dst |-> Whole(p.dst_addr_31_0, p.dst_addr_63_32),
     bytes |-> p.copy_count + 1]

EngineFusedAdd(p) ==
    [addr |-> Whole(p.signal_addr_31_3 * Align, p.signal_addr_63_32),
     add |-> Whole(p.signal_data_31_0, p.signal_data_63_32)]

EngineWindow(p) ==
    [src |-> Whole(p.src_base_addr_31_0, p.src_base_addr_63_32),
     dst |-> Whole(p.dst_data_31_0, p.src_data_63_32),
     width |-> p.rect_x + 1, height |-> p.rect_y + 1,
     srcPitch |-> p.src_pitch + 1, dstPitch |-> p.dst_pitch + 1,
     at |-> <<p.src_x, p.src_y, p.src_z, p.dst_x, p.dst_y, p.dst_z>>]

EngineAddress(p) == Whole(p.addr_31_0, p.addr_63_32)
=============================================================================
