----------------------------- MODULE MemoryMap -----------------------------
(***************************************************************************)
(* The address arithmetic of dapico-load: the constants and the helpers at *)
(* the top of dapico-load/src/main.cpp.  dryrun.cpp holds a second copy of *)
(* the helpers.                                                            *)
(*                                                                         *)
(* Addresses are uint32_t in the code, so every sum here is reduced modulo *)
(* Word (2^32 in the program, a small number in the models).  The concrete *)
(* numbers of the source are constants; LayoutAssumption states the facts  *)
(* about them that the models and the proofs rely on.                      *)
(***************************************************************************)
EXTENDS Integers

CONSTANTS
  Word,             \* number of uint32_t values
  SectorSize,       \* kFlashSectorSize, the unit of a flash erase
  PageSize,         \* kFlashPageSize, the unit of a flash write
  FlashStart,       \* kFlashStart
  SramStart,        \* kSramStart
  FlashEndRp2040, FlashEndRp2350, SramEndRp2040, SramEndRp2350

LayoutAssumption ==
  /\ Word \in Nat /\ SectorSize \in Nat /\ PageSize \in Nat \ {0}
  /\ FlashStart \in Nat \ {0} /\ SramStart \in Nat
  /\ FlashEndRp2040 \in Nat /\ FlashEndRp2350 \in Nat
  /\ SramEndRp2040 \in Nat /\ SramEndRp2350 \in Nat
  /\ \E k \in 1 .. SectorSize : SectorSize = PageSize * k
  /\ FlashStart < FlashEndRp2040
  /\ FlashEndRp2040 <= FlashEndRp2350
  /\ FlashEndRp2350 <= SramStart
  /\ SramStart < SramEndRp2040
  /\ SramEndRp2040 <= SramEndRp2350
  /\ SramStart + (FlashEndRp2350 - FlashStart) < Word
  /\ SramEndRp2350 < Word

ASSUME LayoutIsSane == LayoutAssumption

Address == 0 .. (Word - 1)

(***************************************************************************)
(* The product id selects the layout; both BOOTSEL products are supported. *)
(***************************************************************************)
Product == {"rp2040", "rp2350"}

memory_layout_for_product(product_id) ==
  IF product_id = "rp2040"
    THEN [flash_end |-> FlashEndRp2040, sram_end |-> SramEndRp2040]
    ELSE [flash_end |-> FlashEndRp2350, sram_end |-> SramEndRp2350]

Layout == {memory_layout_for_product(p) : p \in Product}

Plus(a, b) == (a + b) % Word

\* value & ~(align - 1), for an align that is a power of two
align_down(value, align) == value - (value % align)

\* Mutant of align_up: a value that is aligned goes one alignment too far.
align_up_past(value, align) == align_down(Plus(value, align), align)

align_up(value, align) == align_down(Plus(value, align - 1), align)

is_flash_address(addr, layout) ==
  FlashStart <= addr /\ addr < layout.flash_end

is_sram_address(addr, layout) ==
  SramStart <= addr /\ addr < layout.sram_end

(***************************************************************************)
(* map_flash_to_sram answers through a bool and an out-parameter: here the *)
(* bool is maps_to_sram and the out-parameter sram_mirror.  The sum with   *)
(* the size is a uint32_t sum too.                                         *)
(***************************************************************************)
sram_mirror(addr) == Plus(SramStart, addr - FlashStart)

\* Mutant of maps_to_sram: only the start has to fit.
start_maps_to_sram(addr, size, layout) ==
  addr >= FlashStart /\ sram_mirror(addr) \in SramStart .. layout.sram_end

maps_to_sram(addr, size, layout) ==
  /\ addr >= FlashStart
  /\ sram_mirror(addr) >= SramStart
  /\ Plus(sram_mirror(addr), size) <= layout.sram_end

segment_address(segment) ==
  IF segment.paddr # 0 THEN segment.paddr ELSE segment.vaddr

=============================================================================
