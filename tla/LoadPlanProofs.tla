--------------------------- MODULE LoadPlanProofs ---------------------------
(***************************************************************************)
(* Theorems about LoadPlan for every memory map that satisfies             *)
(* LayoutAssumption, every page and sector size, and every image.          *)
(*                                                                         *)
(* The first invariant is PlanInv.  PagesErased is inductive once the      *)
(* state is typed; that no sum wraps comes from SegmentsEndInTheWord,      *)
(* which speaks of the images the program is given, hence the first        *)
(* conjunct.  PlanFacts adds what each list holds of which segment: from   *)
(* it follow the tight erases, and the facts about Script that the proofs  *)
(* about the loader need.                                                  *)
(***************************************************************************)
EXTENDS LoadPlan, PlanLemmas

PlanInv ==
  /\ image \in Images
  /\ PlanTypeOK
  /\ PagesErased

\* The constants as numbers.
LEMMA MapNumbers ==
  /\ Word \in Nat \ {0} /\ SectorSize \in Nat \ {0} /\ PageSize \in Nat \ {0}
  /\ FlashStart \in Nat /\ SramStart \in Nat
  /\ FlashEndRp2350 \in Nat /\ FlashEndRp2350 < Word
  /\ layout.flash_end \in Nat /\ layout.flash_end <= FlashEndRp2350
  /\ layout.sram_end \in Nat
<1>1. SectorSize \in Nat \ {0}
  BY LayoutIsSane DEF LayoutAssumption
<1> QED
  BY <1>1, LayoutIsSane
  DEF LayoutAssumption, layout, memory_layout_for_product

\* The erase range of a flash segment holds the whole page of each of its bytes.
LEMMA EraseRangeHoldsPage ==
  ASSUME NEW addr \in Nat, NEW size \in Nat, addr < FlashEndRp2350,
         FlashEndRp2350 + size + SectorSize <= Word,
         NEW a \in Nat, addr <= a, a < addr + size
  PROVE  /\ EraseRange(addr, size).start <= align_down(a, PageSize)
         /\ align_down(a, PageSize) + PageSize <= EraseRange(addr, size).end
<1> DEFINE start == align_down(addr, SectorSize)
           end   == align_up(addr + size, SectorSize)
           base  == align_down(a, PageSize)
<1>1. /\ addr + size \in Nat
      /\ addr + size + SectorSize <= Word
  BY MapNumbers, SMT
<1>2. Plus(addr, size) = addr + size
  BY <1>1, MapNumbers, SMT DEF Plus
<1>3. EraseRange(addr, size) = [start |-> start, end |-> end]
  BY <1>2 DEF EraseRange
<1>4. start \in Nat /\ start <= addr /\ \E k \in Nat : start = SectorSize * k
  BY AlignDown, MapNumbers
<1>5. end \in Nat /\ addr + size <= end /\ \E k \in Nat : end = SectorSize * k
  BY AlignUp, <1>1, MapNumbers
<1>6. PICK s \in Nat : start = PageSize * s
  BY <1>4, SectorsAreWholePages
<1>7. PICK e \in Nat : end = PageSize * e
  BY <1>5, SectorsAreWholePages
<1>8. base \in Nat /\ base <= a
  BY AlignDown, MapNumbers
<1>9. PICK b \in Nat : base = PageSize * b
  BY AlignDown, MapNumbers
<1> HIDE DEF start, end, base
<1>10. start <= base
  <2>1. PageSize * s <= a
    BY <1>4, <1>6, SMT
  <2>2. PageSize * s <= align_down(a, PageSize)
    BY <2>1, AlignDownIsGreatest, MapNumbers
  <2> QED
    BY <2>2, <1>6 DEF base
<1>11. base + PageSize <= end
  <2>1. base < end
    BY <1>5, <1>8, <1>1, SMT
  <2> QED
    BY <2>1, <1>7, <1>9, Multiples, MapNumbers
<1> QED
  BY <1>3, <1>10, <1>11 DEF base

\* An erase range is a pair of addresses.
LEMMA EraseRangeType ==
  ASSUME NEW addr \in Nat, NEW size \in Nat, addr < FlashEndRp2350,
         FlashEndRp2350 + size + SectorSize <= Word
  PROVE  EraseRange(addr, size) \in Range32
<1>1. /\ addr + size \in Nat
      /\ addr + size + SectorSize <= Word
  BY MapNumbers, SMT
<1>2. Plus(addr, size) = addr + size
  BY <1>1, MapNumbers, SMT DEF Plus
<1>3. /\ align_down(addr, SectorSize) \in Nat
      /\ align_down(addr, SectorSize) <= addr
  BY AlignDown, MapNumbers
<1>4. /\ align_up(addr + size, SectorSize) \in Nat
      /\ align_up(addr + size, SectorSize) < addr + size + SectorSize
  BY AlignUp, <1>1, MapNumbers
<1>5. align_down(addr, SectorSize) \in Address
  BY <1>3, MapNumbers, SMT DEF Address
<1>6. align_up(addr + size, SectorSize) \in Address
  BY <1>1, <1>4, MapNumbers, SMT DEF Address
<1> QED
  BY <1>2, <1>5, <1>6 DEF EraseRange, Range32

\* content() hands out filez bytes, numbered from the segment's first.
LEMMA ContentType ==
  ASSUME image \in Image, NEW i \in DOMAIN image.segments
  PROVE  /\ content(i) \in Seq(Byte)
         /\ DOMAIN content(i) = 1 .. image.segments[i].filez
         /\ image.segments[i] \in Segment
         /\ image.segments[i].filez \in Nat
         /\ i \in Nat \ {0}
<1>1. image.segments \in Seq(Segment)
  BY DEF Image
<1>2. image.segments[i] \in Segment /\ i \in Nat \ {0}
  BY <1>1
<1>3. image.segments[i].filez \in Nat
  BY <1>2 DEF Segment
<1>4. \A j \in 1 .. image.segments[i].filez : <<i, j - 1>> \in Byte
  BY <1>2, <1>3 DEF Byte
<1> QED
  BY <1>2, <1>3, <1>4 DEF content

\* The byte loop keeps full pages at page addresses: it adds the pages of the
\* segment's bytes and no others.
LEMMA PagesWithType ==
  ASSUME NEW addr, NEW data \in Seq(Byte),
         flash_pages \in [DOMAIN flash_pages -> Page]
  PROVE  /\ DOMAIN PagesWith(addr, data) = DOMAIN flash_pages \cup
              {align_down(Plus(addr, j - 1), PageSize) : j \in DOMAIN data}
         /\ PagesWith(addr, data) \in [DOMAIN PagesWith(addr, data) -> Page]
<1> DEFINE Hits(a) == {j \in DOMAIN data : Plus(addr, j - 1) = a}
           bases == {align_down(Plus(addr, j - 1), PageSize) : j \in DOMAIN data}
           Filled(b, offset) ==
             IF Hits(b + offset) # {} THEN data[CHOOSE j \in Hits(b + offset) : TRUE]
             ELSE IF b \in DOMAIN flash_pages THEN flash_pages[b][offset]
             ELSE Padding
<1>1. PagesWith(addr, data) =
        [b \in DOMAIN flash_pages \cup bases |->
           [offset \in 0 .. PageSize - 1 |-> Filled(b, offset)]]
  BY DEF PagesWith
<1>2. ASSUME NEW b, NEW offset \in 0 .. PageSize - 1
      PROVE  Filled(b, offset) \in Byte
  <2>1. CASE Hits(b + offset) # {}
    <3>1. (CHOOSE j \in Hits(b + offset) : TRUE) \in DOMAIN data
      BY <2>1
    <3>2. \A j \in DOMAIN data : data[j] \in Byte
      OBVIOUS
    <3> QED
      BY <2>1, <3>1, <3>2
  <2>2. CASE Hits(b + offset) = {} /\ b \in DOMAIN flash_pages
    <3>1. flash_pages[b] \in Page
      BY <2>2
    <3> QED
      BY <2>2, <3>1 DEF Page
  <2>3. CASE Hits(b + offset) = {} /\ b \notin DOMAIN flash_pages
    BY <2>3 DEF Padding, Byte
  <2> QED
    BY <2>1, <2>2, <2>3
<1> HIDE DEF Filled
<1>3. \A b : [offset \in 0 .. PageSize - 1 |-> Filled(b, offset)] \in Page
  BY <1>2 DEF Page
<1> DEFINE pages == PagesWith(addr, data)
<1>4. DOMAIN pages = DOMAIN flash_pages \cup bases
  BY <1>1
<1>5. ASSUME NEW b \in DOMAIN pages PROVE pages[b] \in Page
  <2>1. pages[b] = [offset \in 0 .. PageSize - 1 |-> Filled(b, offset)]
    BY <1>1, <1>4
  <2> QED
    BY <2>1, <1>3
<1>6. pages = [b \in DOMAIN pages |-> pages[b]]
  BY <1>1
<1> HIDE DEF pages
<1>7. pages \in [DOMAIN pages -> Page]
  BY <1>5, <1>6
<1> QED
  BY <1>4, <1>7 DEF pages

-----------------------------------------------------------------------------
\* The initial states satisfy the invariant.
LEMMA PlanInitInv == PlanInit => PlanInv
<1> SUFFICES ASSUME PlanInit PROVE PlanInv
  OBVIOUS
<1>1. /\ image \in Images /\ image \in Image
      /\ product \in Product /\ allow_flash \in BOOLEAN
      /\ plan \in {"parse", "scan", "planned", "rejected"} /\ next = 1
      /\ ram_segments = <<>> /\ flash_erase_ranges = <<>>
      /\ mirrored_flash_segments \in BOOLEAN
      /\ skipped_flash_segments \in BOOLEAN
  BY ImagesAreImages DEF PlanInit
<1>2. DOMAIN flash_pages = {} /\ flash_pages = [b \in DOMAIN flash_pages |-> <<>>]
  BY DEF PlanInit
<1>3. flash_pages \in [DOMAIN flash_pages -> Page]
  BY <1>2
<1>4. /\ ram_segments \in Seq([addr: Address, data: Seq(Byte)])
      /\ flash_erase_ranges \in Seq(Range32)
  BY <1>1
<1>5. next \in Nat \ {0} /\ DOMAIN flash_pages \subseteq Address
  BY <1>1, <1>2
<1>6. PlanTypeOK
  BY <1>5, <1>1, <1>2, <1>3, <1>4, Zenon DEF PlanTypeOK
<1> QED
  BY <1>1, <1>2, <1>6 DEF PlanInv, PagesErased

\* What a flash segment contributes, as the numbers the other lemmas need.
LEMMA SegmentNumbers ==
  ASSUME image \in Images, next \in DOMAIN image.segments
  PROVE  /\ segment_address(image.segments[next]) \in Address
         /\ image.segments[next].filez \in Nat
         /\ FlashEndRp2350 + image.segments[next].filez + SectorSize <= Word
         /\ content(next) \in Seq(Byte)
         /\ DOMAIN content(next) = 1 .. image.segments[next].filez
<1>1. image \in Image
  BY ImagesAreImages
<1>2. image.segments[next].paddr \in Address /\ image.segments[next].vaddr \in Address
  BY <1>1, ContentType DEF Segment
<1> QED
  BY <1>1, <1>2, ContentType, SegmentsEndInTheWord DEF segment_address

\* The segment the loop looks at is one of the image's.
LEMMA AtSegmentNext ==
  ASSUME PlanInv, NEW segment, AtSegment(segment)
  PROVE  next \in DOMAIN image.segments /\ segment = image.segments[next]
<1>1. image.segments \in Seq(Segment)
  BY DEF PlanInv, PlanTypeOK, Image
<1> QED
  BY <1>1 DEF PlanInv, PlanTypeOK, AtSegment

\* A flash segment keeps the invariant: its pages are typed and lie in the range
\* it adds, and the ranges there were are still there.
LEMMA FlashSegmentInv ==
  ASSUME PlanInv, NEW segment, FlashSegment(segment)
  PROVE  PlanInv'
<1> DEFINE addr == segment_address(segment)
           range == EraseRange(addr, segment.filez)
           data == content(next)
           Base(j) == align_down(Plus(addr, j - 1), PageSize)
<1>1. /\ next \in DOMAIN image.segments /\ segment = image.segments[next]
  BY AtSegmentNext DEF FlashSegment, HasContent
<1>2. /\ flash_erase_ranges' = Append(flash_erase_ranges, range)
      /\ flash_pages' = PagesWith(addr, data)
      /\ next' = next + 1
      /\ UNCHANGED <<image, product, allow_flash, plan, ram_segments,
                     mirrored_flash_segments, skipped_flash_segments>>
  BY DEF FlashSegment, HasContent, input
<1>3. /\ addr \in Nat /\ addr < FlashEndRp2350
      /\ segment.filez \in Nat
      /\ FlashEndRp2350 + segment.filez + SectorSize <= Word
      /\ data \in Seq(Byte)
      /\ DOMAIN data = 1 .. segment.filez
  <2>1. is_flash_address(addr, layout)
    BY DEF FlashSegment
  <2>2. addr < layout.flash_end
    BY <2>1 DEF is_flash_address
  <2>3. addr \in Address
    BY <1>1, SegmentNumbers DEF PlanInv
  <2>4. addr \in Nat
    BY <2>3, MapNumbers, SMT DEF Address
  <2>5. addr < FlashEndRp2350
    BY <2>2, <2>4, MapNumbers, SMT
  <2> QED
    BY <2>4, <2>5, <1>1, SegmentNumbers DEF PlanInv
<1>4. ASSUME NEW j \in DOMAIN data
      PROVE  /\ Base(j) \in Address
             /\ range.start <= Base(j)
             /\ Base(j) + PageSize <= range.end
  <2>1. /\ addr + (j - 1) \in Nat
        /\ addr <= addr + (j - 1)
        /\ addr + (j - 1) < addr + segment.filez
        /\ addr + (j - 1) < Word
    BY <1>3, <1>4, MapNumbers, SMT
  <2>2. Plus(addr, j - 1) = addr + (j - 1)
    BY <2>1, MapNumbers, SMT DEF Plus
  <2>3. Base(j) \in Nat /\ Base(j) <= addr + (j - 1)
    BY <2>1, <2>2, AlignDown, MapNumbers
  <2>4. Base(j) \in Address
    BY <2>1, <2>3, MapNumbers, SMT DEF Address
  <2> QED
    BY <1>3, <2>1, <2>2, <2>4, EraseRangeHoldsPage
<1>5. range \in Range32
  BY <1>3, EraseRangeType
<1> HIDE DEF addr, range, data
<1>6. /\ DOMAIN flash_pages' = DOMAIN flash_pages \cup {Base(j) : j \in DOMAIN data}
      /\ flash_pages' \in [DOMAIN flash_pages' -> Page]
  BY <1>2, <1>3, PagesWithType DEF PlanInv, PlanTypeOK
<1>7. PlanTypeOK'
  <2>1. DOMAIN flash_pages' \subseteq Address
    BY <1>4, <1>6 DEF PlanInv, PlanTypeOK
  <2>2. flash_erase_ranges' \in Seq(Range32)
    BY <1>2, <1>5 DEF PlanInv, PlanTypeOK
  <2> QED
    BY <1>2, <1>6, <2>1, <2>2 DEF PlanInv, PlanTypeOK, Page
<1>8. PagesErased'
  <2>1. SUFFICES ASSUME NEW b \in DOMAIN flash_pages'
                 PROVE  \E k \in DOMAIN flash_erase_ranges' :
                          /\ flash_erase_ranges'[k].start <= b
                          /\ b + PageSize <= flash_erase_ranges'[k].end
    BY DEF PagesErased
  <2> DEFINE n == Len(flash_erase_ranges)
  <2>2. /\ n \in Nat /\ DOMAIN flash_erase_ranges = 1 .. n
        /\ DOMAIN flash_erase_ranges' = 1 .. n + 1
        /\ flash_erase_ranges'[n + 1] = range
        /\ \A k \in 1 .. n : flash_erase_ranges'[k] = flash_erase_ranges[k]
    BY <1>2, <1>5 DEF PlanInv, PlanTypeOK
  <2>3. CASE b \in DOMAIN flash_pages
    BY <2>2, <2>3 DEF PlanInv, PagesErased
  <2>4. CASE b \in {Base(j) : j \in DOMAIN data}
    BY <2>2, <2>4, <1>4
  <2> QED
    BY <2>3, <2>4, <1>6
<1> QED
  BY <1>2, <1>7, <1>8 DEF PlanInv

\* A segment for the RAM, native or mirrored, keeps the invariant.
LEMMA AppendRamInv ==
  ASSUME PlanInv, next \in DOMAIN image.segments, NEW addr \in Address,
         ram_segments' = Append(ram_segments, [addr |-> addr, data |-> content(next)]),
         next' = next + 1, mirrored_flash_segments' \in BOOLEAN,
         UNCHANGED <<image, product, allow_flash, plan, flash_pages,
                     flash_erase_ranges, skipped_flash_segments>>
  PROVE  PlanInv'
<1>1. content(next) \in Seq(Byte)
  BY SegmentNumbers DEF PlanInv
<1>2. ram_segments' \in Seq([addr: Address, data: Seq(Byte)])
  BY <1>1 DEF PlanInv, PlanTypeOK
<1> QED
  BY <1>2 DEF PlanInv, PlanTypeOK, PagesErased

\* The mirror of an address is an address.
LEMMA MirrorIsAddress ==
  ASSUME NEW addr \in Address
  PROVE  sram_mirror(addr) \in Address
<1>1. addr - FlashStart \in Int /\ SramStart + (addr - FlashStart) \in Int
  BY MapNumbers, SMT DEF Address
<1> QED
  BY <1>1, MapNumbers, SMT DEF sram_mirror, Plus, Address

\* Every step of the loop keeps the invariant.
LEMMA PlanNextInv == PlanInv /\ [PlanNext]_planVars => PlanInv'
<1> SUFFICES ASSUME PlanInv, [PlanNext]_planVars PROVE PlanInv'
  OBVIOUS
<1>1. CASE UNCHANGED planVars
  BY <1>1 DEF PlanInv, PlanTypeOK, PagesErased, planVars, input, segment_data
<1>2. CASE ReadElf \/ RejectElf \/ FinishPlan
  BY <1>2 DEF ReadElf, RejectElf, FinishPlan, Throw, PlanInv, PlanTypeOK,
              PagesErased, input, segment_data
<1>3. ASSUME NEW segment, PlanSegment(segment) PROVE PlanInv'
  <2>1. CASE SkipSegment(segment)
    BY <2>1 DEF SkipSegment, PlanInv, PlanTypeOK, PagesErased,
                input, segment_data
  <2>5. CASE RejectSegment(segment)
    BY <2>5 DEF RejectSegment, Throw, PlanInv, PlanTypeOK, PagesErased,
                input, segment_data
  <2>6. CASE SkipFlashSegment(segment)
    BY <2>6 DEF SkipFlashSegment, HasContent, PlanInv, PlanTypeOK, PagesErased,
                input, segment_data
  <2>2. CASE RamSegment(segment)
    <3>1. next \in DOMAIN image.segments /\ segment = image.segments[next]
      BY <2>2, AtSegmentNext DEF RamSegment, HasContent
    <3>2. segment_address(segment) \in Address
      BY <3>1, SegmentNumbers DEF PlanInv
    <3> QED
      BY <2>2, <3>1, <3>2, AppendRamInv
      DEF RamSegment, HasContent, input, PlanInv, PlanTypeOK
  <2>3. CASE MirrorSegment(segment)
    <3>1. next \in DOMAIN image.segments /\ segment = image.segments[next]
      BY <2>3, AtSegmentNext DEF MirrorSegment, HasContent
    <3>2. sram_mirror(segment_address(segment)) \in Address
      BY <3>1, SegmentNumbers, MirrorIsAddress DEF PlanInv
    <3> QED
      BY <2>3, <3>1, <3>2, AppendRamInv DEF MirrorSegment, HasContent, input
  <2>4. CASE FlashSegment(segment)
    BY <2>4, FlashSegmentInv
  <2> QED
    BY <1>3, <2>1, <2>2, <2>3, <2>4, <2>5, <2>6 DEF PlanSegment
<1> QED
  BY <1>1, <1>2, <1>3 DEF PlanNext

\* The invariant holds in every state of the planning.
THEOREM PlanInvariant == PlanSpec => []PlanInv
  BY PlanInitInv, PlanNextInv, PTL DEF PlanSpec

\* The plan is typed: whatever the image, addresses stay 32-bit addresses, pages
\* are whole pages, and each erase range is a pair of addresses.
THEOREM PlanIsTyped == PlanSpec => []PlanTypeOK
<1>1. PlanInv => PlanTypeOK
  BY DEF PlanInv
<1> QED
  BY <1>1, PlanInvariant, PTL

\* Every page that will be programmed lies in a range that will be erased, for
\* every page and sector size and every image that ends below 2^32.
THEOREM PlannedPagesAreErased == PlanSpec => []PagesErased
<1>1. PlanInv => PagesErased
  BY DEF PlanInv
<1> QED
  BY <1>1, PlanInvariant, PTL

-----------------------------------------------------------------------------
(***************************************************************************)
(* Where the RAM segments come from: each is the content of one segment of *)
(* the image, at its own address or, for a flash segment, at its mirror.   *)
(***************************************************************************)
Origin(ram, i) ==
  LET segment == image.segments[i]
      addr    == segment_address(segment)
  IN  /\ segment.filez # 0
      /\ ram.data = content(i)
      /\ IF is_flash_address(addr, layout)
           THEN /\ ~ allow_flash
                /\ maps_to_sram(addr, segment.filez, layout)
                /\ ram.addr = sram_mirror(addr)
           ELSE ram.addr = addr

RamHasOrigin ==
  \A k \in DOMAIN ram_segments :
    \E i \in DOMAIN image.segments : Origin(ram_segments[k], i)

FlashIsLeftAlone ==
  ~ allow_flash => DOMAIN flash_pages = {} /\ flash_erase_ranges = <<>>

MirrorInv == RamHasOrigin /\ FlashIsLeftAlone

\* A segment appended with its origin keeps the invariant.
LEMMA AppendKeepsOrigin ==
  ASSUME PlanInv, MirrorInv, next \in DOMAIN image.segments,
         NEW addr \in Address, NEW ram,
         ram = [addr |-> addr, data |-> content(next)], Origin(ram, next),
         ram_segments' = Append(ram_segments, ram),
         UNCHANGED <<input, flash_pages, flash_erase_ranges>>
  PROVE  MirrorInv'
<1> DEFINE n == Len(ram_segments)
<1>1. content(next) \in Seq(Byte)
  BY SegmentNumbers DEF PlanInv
<1>2. /\ n \in Nat /\ DOMAIN ram_segments = 1 .. n
      /\ DOMAIN ram_segments' = 1 .. n + 1
      /\ ram_segments'[n + 1] = ram
      /\ \A k \in 1 .. n : ram_segments'[k] = ram_segments[k]
  BY <1>1 DEF PlanInv, PlanTypeOK
<1>3. \A r, i : Origin(r, i)' <=> Origin(r, i)
  BY DEF Origin, input, content, layout
<1>4. ASSUME NEW k \in DOMAIN ram_segments'
      PROVE  \E i \in DOMAIN image.segments : Origin(ram_segments'[k], i)
  <2>1. CASE k = n + 1
    BY <1>2, <2>1
  <2>2. CASE k \in 1 .. n
    BY <1>2, <2>2 DEF MirrorInv, RamHasOrigin
  <2> QED
    BY <1>2, <2>1, <2>2, SMT
<1>5. RamHasOrigin'
  BY <1>3, <1>4 DEF RamHasOrigin, Origin, input, content, layout
<1> QED
  BY <1>5 DEF MirrorInv, FlashIsLeftAlone, input

\* The steps that add no RAM segment keep it.
LEMMA OthersKeepOrigin ==
  ASSUME MirrorInv, UNCHANGED <<input, ram_segments>>,
         allow_flash \/ UNCHANGED <<flash_pages, flash_erase_ranges>>
  PROVE  MirrorInv'
<1>1. RamHasOrigin'
  BY DEF MirrorInv, RamHasOrigin, Origin, input, content, layout
<1>2. FlashIsLeftAlone'
  BY DEF MirrorInv, FlashIsLeftAlone, input
<1> QED
  BY <1>1, <1>2 DEF MirrorInv

LEMMA MirrorNextInv ==
  PlanInv /\ MirrorInv /\ [PlanNext]_planVars => MirrorInv'
<1> SUFFICES ASSUME PlanInv, MirrorInv, [PlanNext]_planVars PROVE MirrorInv'
  OBVIOUS
<1>1. CASE UNCHANGED planVars \/ ReadElf \/ RejectElf \/ FinishPlan
  BY <1>1, OthersKeepOrigin
  DEF planVars, segment_data, ReadElf, RejectElf, FinishPlan, Throw
<1>2. ASSUME NEW segment, PlanSegment(segment) PROVE MirrorInv'
  <2>1. CASE SkipSegment(segment) \/ RejectSegment(segment)
             \/ SkipFlashSegment(segment)
    BY <2>1, OthersKeepOrigin
    DEF SkipSegment, RejectSegment, SkipFlashSegment, Throw, HasContent,
        segment_data
  <2>2. CASE FlashSegment(segment)
    BY <2>2, OthersKeepOrigin DEF FlashSegment, HasContent
  <2>3. ASSUME RamSegment(segment) \/ MirrorSegment(segment)
        PROVE  /\ next \in DOMAIN image.segments
               /\ segment = image.segments[next]
               /\ segment_address(segment) \in Address
               /\ segment.filez # 0
    <3>1. AtSegment(segment) /\ Loadable(segment)
      BY <2>3 DEF RamSegment, MirrorSegment, HasContent
    <3>2. next \in DOMAIN image.segments /\ segment = image.segments[next]
      BY <3>1, AtSegmentNext
    <3> QED
      BY <3>1, <3>2, SegmentNumbers DEF PlanInv, Loadable
  <2>4. CASE RamSegment(segment)
    <3> DEFINE ram == [addr |-> segment_address(segment), data |-> content(next)]
    <3>1. Origin(ram, next)
      BY <2>3, <2>4 DEF Origin, RamSegment
    <3>2. /\ ram_segments' = Append(ram_segments, ram)
          /\ UNCHANGED <<input, flash_pages, flash_erase_ranges>>
      BY <2>4 DEF RamSegment, HasContent
    <3> QED
      BY <2>3, <2>4, <3>1, <3>2, AppendKeepsOrigin
  <2>5. CASE MirrorSegment(segment)
    <3> DEFINE ram == [addr |-> sram_mirror(segment_address(segment)),
                       data |-> content(next)]
    <3>1. Origin(ram, next)
      BY <2>3, <2>5 DEF Origin, MirrorSegment
    <3>2. /\ ram_segments' = Append(ram_segments, ram)
          /\ UNCHANGED <<input, flash_pages, flash_erase_ranges>>
      BY <2>5 DEF MirrorSegment, HasContent
    <3>3. sram_mirror(segment_address(segment)) \in Address
      BY <2>3, <2>5, MirrorIsAddress
    <3> QED
      BY <2>3, <2>5, <3>1, <3>2, <3>3, AppendKeepsOrigin
  <2> QED
    BY <1>2, <2>1, <2>2, <2>4, <2>5 DEF PlanSegment
<1> QED
  BY <1>1, <1>2 DEF PlanNext

\* A flash segment that map_flash_to_sram accepts has its mirror in SRAM.
LEMMA MirrorIsInSram ==
  ASSUME NEW addr \in Nat, NEW size \in Nat,
         is_flash_address(addr, layout), maps_to_sram(addr, size, layout),
         SramStart + (FlashEndRp2350 - FlashStart) + size <= Word
  PROVE  /\ SramStart <= sram_mirror(addr)
         /\ sram_mirror(addr) + size <= layout.sram_end
         /\ sram_mirror(addr) - SramStart = addr - FlashStart
<1>1. /\ FlashStart <= addr /\ addr < FlashEndRp2350
  BY MapNumbers, SMT DEF is_flash_address
<1> DEFINE mirror == SramStart + (addr - FlashStart)
<1>2. mirror \in Nat /\ mirror + size \in Nat /\ mirror + size < Word
      /\ mirror < Word
  BY <1>1, MapNumbers, SMT
<1>3. sram_mirror(addr) = mirror
  BY <1>2, MapNumbers, SMT DEF sram_mirror, Plus
<1>4. Plus(sram_mirror(addr), size) = mirror + size
  BY <1>2, <1>3, MapNumbers, SMT DEF Plus
<1>5. mirror + size <= layout.sram_end
  BY <1>4 DEF maps_to_sram
<1> QED
  BY <1>1, <1>3, <1>5, MapNumbers, SMT

\* Without --flash the plan has no page and no erase range, and every mirrored
\* segment lies whole inside the SRAM of the device, at its own offset: for
\* every memory map and image, so flash stays untouched unless it is asked for.
THEOREM MirrorsStayInSram == PlanSpec => []MirrorStaysInSram
<1>1. PlanInit => MirrorInv
  BY DEF PlanInit, MirrorInv, RamHasOrigin, FlashIsLeftAlone
<1>2. PlanInv /\ MirrorInv => MirrorStaysInSram
  <2> SUFFICES ASSUME PlanInv, MirrorInv, ~ allow_flash PROVE MirrorStaysInSram
    BY DEF MirrorStaysInSram
  <2>1. ASSUME NEW k \in DOMAIN ram_segments,
               is_flash_address(segment_address(
                 image.segments[ram_segments[k].data[1][1]]), layout)
        PROVE  LET s == ram_segments[k]
                   from == segment_address(image.segments[s.data[1][1]])
               IN  /\ SramStart <= s.addr
                   /\ s.addr + Len(s.data) <= layout.sram_end
                   /\ s.addr - SramStart = from - FlashStart
    <3>1. PICK i \in DOMAIN image.segments : Origin(ram_segments[k], i)
      BY DEF MirrorInv, RamHasOrigin
    <3> DEFINE segment == image.segments[i]
               addr == segment_address(segment)
    <3>2. /\ content(i) \in Seq(Byte) /\ DOMAIN content(i) = 1 .. segment.filez
          /\ segment \in Segment /\ segment.filez \in Nat
      BY ImagesAreImages, ContentType DEF PlanInv
    <3>3. /\ ram_segments[k].data = content(i) /\ segment.filez # 0
      BY <3>1 DEF Origin
    <3>4. content(i)[1] = <<i, 0>> /\ Len(content(i)) = segment.filez
      BY <3>2, <3>3, SMT DEF content
    <3>5. ram_segments[k].data[1][1] = i
      BY <3>3, <3>4
    <3>6. /\ ram_segments[k].addr = sram_mirror(addr)
          /\ maps_to_sram(addr, segment.filez, layout)
          /\ is_flash_address(addr, layout)
      BY <2>1, <3>1, <3>5 DEF Origin
    <3>7. addr \in Nat
      BY <3>2, MapNumbers DEF Segment, segment_address, Address
    <3>8. SramStart + (FlashEndRp2350 - FlashStart) + segment.filez <= Word
      BY SegmentsEndInTheWord DEF PlanInv
    <3> HIDE DEF segment
    <3>9. /\ SramStart <= sram_mirror(addr)
          /\ sram_mirror(addr) + segment.filez <= layout.sram_end
          /\ sram_mirror(addr) - SramStart = addr - FlashStart
      BY <3>2, <3>6, <3>7, <3>8, MirrorIsInSram
    <3> QED
      BY <3>3, <3>4, <3>5, <3>6, <3>9 DEF segment
  <2> QED
    BY <2>1 DEF MirrorStaysInSram, MirrorInv, FlashIsLeftAlone
<1>3. PlanSpec => []MirrorInv
  BY <1>1, MirrorNextInv, PlanInvariant, PTL DEF PlanSpec
<1> QED
  BY <1>2, <1>3, PlanInvariant, PTL

-----------------------------------------------------------------------------
(***************************************************************************)
(* What the pages hold.  A page that is met for the first time starts as   *)
(* padding; that this loses nothing needs that every byte a segment has    *)
(* claimed so far is in a page that is there (ClaimedIsPaged), and that    *)
(* the bytes of a page have that page as theirs (PagesAreAligned).         *)
(***************************************************************************)
SeenIsImages == 1 .. next - 1 \subseteq DOMAIN image.segments

PagesAreAligned ==
  \A b \in DOMAIN flash_pages : \E k \in Nat : b = PageSize * k

ClaimedIsPaged ==
  \A i \in FlashSeen : \A a \in Nat :
    Covers(i, a) => align_down(a, PageSize) \in DOMAIN flash_pages

PageInv ==
  /\ SeenIsImages
  /\ PagesAreAligned
  /\ ClaimedIsPaged
  /\ PagesHoldImage

\* Every byte of a page is in that page.
LEMMA PageOfItsBytes ==
  ASSUME NEW n \in Nat \ {0}, NEW k \in Nat, NEW offset \in 0 .. n - 1
  PROVE  align_down(n * k + offset, n) = n * k
<1> DEFINE v == n * k + offset
<1>1. n * k \in Nat /\ v \in Nat /\ n * k <= v /\ v < n * k + n
  BY SMT
<1>2. PICK q \in Nat : align_down(v, n) = n * q
  BY <1>1, AlignDown
<1>3. n * q \in Nat /\ n * q <= v
  BY <1>1, <1>2, AlignDown
<1>4. n * k <= n * q
  BY <1>1, <1>2, AlignDownIsGreatest
<1> HIDE DEF v
<1>5. ~ (n * k < n * q)
  <2> SUFFICES ASSUME n * k < n * q PROVE FALSE
    OBVIOUS
  <2>1. n * k + n <= n * q
    BY Multiples
  <2> QED
    BY <2>1, <1>1, <1>3, SMT
<1>6. n * k = n * q
  BY <1>1, <1>3, <1>4, <1>5, SMT
<1> QED
  BY <1>2, <1>6 DEF v

\* Steps that send no segment to the flash change nothing about the pages.
LEMMA OthersKeepPages ==
  ASSUME PageInv, UNCHANGED <<input, flash_pages>>,
         FlashSeen' = FlashSeen, SeenIsImages'
  PROVE  PageInv'
<1>1. PagesAreAligned'
  BY DEF PageInv, PagesAreAligned
<1>2. \A i, a : Covers(i, a)' <=> Covers(i, a)
  BY DEF Covers, input
<1>3. ClaimedIsPaged'
  BY <1>2 DEF PageInv, ClaimedIsPaged
<1>4. \A a : LastByteAt(FlashSeen, a)' = LastByteAt(FlashSeen, a)
  BY DEF LastByteAt, Covers, input
<1>5. PagesHoldImage'
  BY <1>4 DEF PageInv, PagesHoldImage
<1> QED
  BY <1>1, <1>3, <1>5 DEF PageInv

\* The segment the loop passes joins those seen when it goes to the flash.
LEMMA SeenGrows ==
  ASSUME PlanInv, PageInv, UNCHANGED input,
         next \in DOMAIN image.segments, next' = next + 1
  PROVE  /\ SeenIsImages'
         /\ FlashSeen' = FlashSeen \cup
              {i \in {next} : /\ allow_flash
                              /\ Loadable(image.segments[i])
                              /\ is_flash_address(
                                   segment_address(image.segments[i]), layout)}
<1>1. next \in Nat \ {0}
  BY DEF PlanInv, PlanTypeOK
<1>2. 1 .. next' - 1 = (1 .. next - 1) \cup {next}
  BY <1>1, SMT
<1>3. SeenIsImages'
  BY <1>2 DEF PageInv, SeenIsImages, input
<1> QED
  BY <1>2, <1>3 DEF FlashSeen, input, layout

\* The last of the segments that claim an address is the only last one.
LEMMA LastClaim ==
  ASSUME NEW S \in SUBSET Nat, NEW a, NEW i \in S, Covers(i, a),
         \A k \in S : Covers(k, a) => k <= i
  PROVE  LastByteAt(S, a) = <<i, a - segment_address(image.segments[i])>>
<1> DEFINE claim == {k \in S : Covers(k, a)}
<1>1. i \in claim /\ \A k \in claim : k <= i
  OBVIOUS
<1>2. \A t \in claim : (\A k \in claim : k <= t) => t = i
  BY <1>1, SMT
<1>3. (CHOOSE t \in claim : \A k \in claim : k <= t) = i
  BY <1>1, <1>2
<1> QED
  BY <1>1, <1>3 DEF LastByteAt

\* In a segment that ends below 2^32 each address is that of one byte at most.
LEMMA ByteAtAddress ==
  ASSUME NEW addr \in Nat, NEW size \in Nat, addr + size < Word, NEW a \in Int
  PROVE  {j \in 1 .. size : Plus(addr, j - 1) = a} =
           IF addr <= a /\ a < addr + size THEN {a - addr + 1} ELSE {}
<1>1. ASSUME NEW j \in 1 .. size PROVE Plus(addr, j - 1) = addr + (j - 1)
  <2>1. addr + (j - 1) \in Nat /\ addr + (j - 1) < Word
    BY MapNumbers, SMT
  <2> QED
    BY <2>1, MapNumbers, SMT DEF Plus
<1>2. \A j \in 1 .. size : addr + (j - 1) = a <=> j = a - addr + 1
  BY SMT
<1>3. addr <= a /\ a < addr + size <=> a - addr + 1 \in 1 .. size
  BY SMT
<1> QED
  BY <1>1, <1>2, <1>3

\* What is at an address depends on the segments that claim it alone.
LEMMA SameClaim ==
  ASSUME NEW S, NEW T, NEW a,
         {i \in S : Covers(i, a)} = {i \in T : Covers(i, a)}
  PROVE  LastByteAt(S, a) = LastByteAt(T, a)
<1> DEFINE Top(claim) == CHOOSE i \in claim : \A k \in claim : k <= i
           Of(claim) ==
             IF claim = {} THEN Padding
             ELSE <<Top(claim), a - segment_address(image.segments[Top(claim)])>>
<1>1. LastByteAt(S, a) = Of({i \in S : Covers(i, a)})
  BY DEF LastByteAt
<1>2. LastByteAt(T, a) = Of({i \in T : Covers(i, a)})
  BY DEF LastByteAt
<1> HIDE DEF Of
<1> QED
  BY <1>1, <1>2

\* The byte loop: in each page the bytes of the segment, over what was there.
LEMMA PageBytes ==
  ASSUME PlanInv, NEW segment, FlashSegment(segment),
         NEW b \in DOMAIN flash_pages', NEW offset \in 0 .. PageSize - 1
  PROVE  flash_pages'[b][offset] =
           IF Covers(next, b + offset)
             THEN <<next, (b + offset) - segment_address(segment)>>
           ELSE IF b \in DOMAIN flash_pages THEN flash_pages[b][offset]
           ELSE Padding
<1> DEFINE addr == segment_address(segment)
           data == content(next)
           a == b + offset
           Hits == {j \in DOMAIN data : Plus(addr, j - 1) = a}
           bases == {align_down(Plus(addr, j - 1), PageSize) : j \in DOMAIN data}
<1>1. PICK size \in Nat :
        /\ next \in DOMAIN image.segments /\ segment = image.segments[next]
        /\ addr \in Nat /\ size = segment.filez
        /\ addr + size < Word
        /\ data = [j \in 1 .. size |-> <<next, j - 1>>]
  <2>1. next \in DOMAIN image.segments /\ segment = image.segments[next]
    BY AtSegmentNext DEF FlashSegment, HasContent
  <2>2. is_flash_address(addr, layout)
    BY DEF FlashSegment
  <2>3. addr \in Nat
    BY <2>1, SegmentNumbers, MapNumbers DEF PlanInv, Address
  <2>4. segment.filez \in Nat /\ FlashEndRp2350 + segment.filez + SectorSize <= Word
    BY <2>1, SegmentNumbers DEF PlanInv
  <2>5. addr + segment.filez < Word
    BY <2>2, <2>3, <2>4, MapNumbers, SMT DEF is_flash_address
  <2> QED
    BY <2>1, <2>3, <2>4, <2>5 DEF content
<1>2. a \in Int /\ b \in DOMAIN flash_pages \cup bases
  <2>1. flash_pages' = PagesWith(addr, data)
    BY DEF FlashSegment
  <2>2. b \in DOMAIN flash_pages \cup bases
    BY <2>1 DEF PagesWith
  <2>3. b \in Int
    <3>1. DOMAIN flash_pages \subseteq Int
      BY MapNumbers DEF PlanInv, PlanTypeOK, Address
    <3>2. ASSUME NEW j \in DOMAIN data
          PROVE  align_down(Plus(addr, j - 1), PageSize) \in Int
      <4>1. Plus(addr, j - 1) \in Nat
        BY <1>1, MapNumbers, SMT DEF Plus
      <4> QED
        BY <4>1, AlignDown, MapNumbers
    <3> QED
      BY <2>2, <3>1, <3>2
  <2> QED
    BY <2>2, <2>3, MapNumbers, SMT
<1>3. flash_pages'[b][offset] =
        IF Hits # {} THEN data[CHOOSE j \in Hits : TRUE]
        ELSE IF b \in DOMAIN flash_pages THEN flash_pages[b][offset]
        ELSE Padding
  <2>1. flash_pages' = PagesWith(addr, data)
    BY DEF FlashSegment
  <2> HIDE DEF addr, data
  <2> QED
    BY <2>1, <1>2 DEF PagesWith
<1>4. Hits = IF addr <= a /\ a < addr + size THEN {a - addr + 1} ELSE {}
  BY <1>1, <1>2, ByteAtAddress
<1>5. Covers(next, a) <=> addr <= a /\ a < addr + size
  BY <1>1 DEF Covers
<1>6. CASE Covers(next, a)
  <2>1. Hits = {a - addr + 1}
    BY <1>4, <1>5, <1>6
  <2>2. data[a - addr + 1] = <<next, a - addr>>
    <3>1. a - addr + 1 \in 1 .. size
      BY <1>1, <2>1
    <3> HIDE DEF a, addr, data
    <3>2. addr \in Int /\ a \in Int
      BY <1>1, <1>2
    <3>3. (a - addr + 1) - 1 = a - addr
      BY <3>2, SMT
    <3> QED
      BY <1>1, <3>1, <3>3
  <2> HIDE DEF Hits, a, addr, data
  <2>3. (CHOOSE j \in Hits : TRUE) = a - addr + 1
    BY <2>1
  <2>4. flash_pages'[b][offset] = <<next, a - addr>>
    BY <1>3, <2>1, <2>2, <2>3
  <2> QED
    BY <1>6, <2>4 DEF a, addr
<1>7. CASE ~ Covers(next, a)
  <2>1. Hits = {}
    BY <1>4, <1>5, <1>7
  <2> HIDE DEF Hits
  <2> QED
    BY <1>3, <1>7, <2>1
<1> QED
  BY <1>6, <1>7

\* A flash segment keeps what is known of the pages: where it has a byte it is
\* the last segment to claim it, and a page it adds was claimed by none before.
LEMMA FlashSegmentPages ==
  ASSUME PlanInv, PageInv, NEW segment, FlashSegment(segment)
  PROVE  PageInv'
<1> DEFINE addr == segment_address(segment)
           data == content(next)
<1>1. /\ next \in DOMAIN image.segments /\ segment = image.segments[next]
      /\ next \in Nat \ {0} /\ next' = next + 1 /\ UNCHANGED input
      /\ allow_flash /\ Loadable(segment) /\ is_flash_address(addr, layout)
  BY AtSegmentNext DEF FlashSegment, HasContent, PlanInv, PlanTypeOK
<1>2. SeenIsImages' /\ FlashSeen' = FlashSeen \cup {next}
  BY <1>1, SeenGrows
<1>3. /\ addr \in Nat /\ segment.filez \in Nat
      /\ addr + segment.filez < Word
      /\ data \in Seq(Byte) /\ DOMAIN data = 1 .. segment.filez
  <2>1. addr \in Nat
    BY <1>1, SegmentNumbers, MapNumbers DEF PlanInv, Address
  <2>2. /\ segment.filez \in Nat
        /\ FlashEndRp2350 + segment.filez + SectorSize <= Word
        /\ data \in Seq(Byte) /\ DOMAIN data = 1 .. segment.filez
    BY <1>1, SegmentNumbers DEF PlanInv
  <2>3. addr + segment.filez < Word
    BY <1>1, <2>1, <2>2, MapNumbers, SMT DEF is_flash_address
  <2> QED
    BY <2>1, <2>2, <2>3
<1>4. DOMAIN flash_pages' = DOMAIN flash_pages \cup
        {align_down(Plus(addr, j - 1), PageSize) : j \in DOMAIN data}
  <2>1. flash_pages' = PagesWith(addr, data)
    BY DEF FlashSegment
  <2> HIDE DEF addr, data
  <2> QED
    BY <1>3, <2>1, PagesWithType DEF PlanInv, PlanTypeOK
<1>5. \A i, c : Covers(i, c)' <=> Covers(i, c)
  BY <1>1 DEF Covers, input
<1>6. \A c : Covers(next, c) <=> addr <= c /\ c < addr + segment.filez
  BY <1>1 DEF Covers
<1>7. PagesAreAligned'
  <2>1. ASSUME NEW j \in DOMAIN data
        PROVE  \E k \in Nat : align_down(Plus(addr, j - 1), PageSize) = PageSize * k
    <3> HIDE DEF addr
    <3>1. Plus(addr, j - 1) \in Nat
      BY <1>3, MapNumbers, SMT DEF Plus
    <3> QED
      BY <3>1, AlignDown, MapNumbers
  <2> QED
    BY <1>4, <2>1 DEF PageInv, PagesAreAligned
<1>8. ClaimedIsPaged'
  <2> SUFFICES ASSUME NEW i \in FlashSeen', NEW c \in Nat, Covers(i, c)
               PROVE  align_down(c, PageSize) \in DOMAIN flash_pages'
    BY <1>5 DEF ClaimedIsPaged
  <2>1. CASE i \in FlashSeen
    BY <2>1, <1>4 DEF PageInv, ClaimedIsPaged
  <2>2. CASE i = next
    <3>1. addr <= c /\ c < addr + segment.filez
      BY <2>2, <1>6
    <3>2. {j \in 1 .. segment.filez : Plus(addr, j - 1) = c} = {c - addr + 1}
      <4> HIDE DEF addr
      <4>1. c \in Int /\ addr \in Nat /\ segment.filez \in Nat
            /\ addr + segment.filez < Word
        BY <1>3
      <4> DEFINE size == segment.filez
      <4> HIDE DEF size
      <4>2. {j \in 1 .. size : Plus(addr, j - 1) = c} =
              IF addr <= c /\ c < addr + size THEN {c - addr + 1} ELSE {}
        BY <4>1, ByteAtAddress DEF size
      <4> QED
        BY <3>1, <4>2 DEF size
    <3> HIDE DEF addr, data
    <3>3. \E j \in DOMAIN data : Plus(addr, j - 1) = c
      BY <3>2, <1>3
    <3> QED
      BY <3>3, <1>4
  <2> QED
    BY <2>1, <2>2, <1>2
<1>9. PagesHoldImage'
  <2> SUFFICES ASSUME NEW b \in DOMAIN flash_pages', NEW offset \in 0 .. PageSize - 1
               PROVE  flash_pages'[b][offset] = LastByteAt(FlashSeen, b + offset)'
    BY DEF PagesHoldImage
  <2> DEFINE c == b + offset
             Seen == FlashSeen \cup {next}
  <2>1. LastByteAt(FlashSeen, c)' = LastByteAt(Seen, c)
    BY <1>1, <1>2 DEF LastByteAt, Covers, input
  <2>2. FlashSeen \subseteq Nat /\ \A i \in FlashSeen : i < next
    BY <1>1, SMT DEF FlashSeen
  <2>3. flash_pages'[b][offset] =
          IF Covers(next, c) THEN <<next, c - addr>>
          ELSE IF b \in DOMAIN flash_pages THEN flash_pages[b][offset]
          ELSE Padding
    BY PageBytes
  <2>4. PICK k \in Nat : b = PageSize * k
    BY <1>7 DEF PagesAreAligned
  <2>5. c \in Nat /\ align_down(c, PageSize) = b
    <3>1. align_down(c, PageSize) = b
      BY <2>4, PageOfItsBytes, MapNumbers
    <3>2. PageSize * k \in Nat
      BY MapNumbers, SMT
    <3> QED
      BY <3>1, <3>2, <2>4, MapNumbers, SMT
  <2> HIDE DEF c
  <2>6. CASE Covers(next, c)
    <3>1. Seen \in SUBSET Nat /\ next \in Seen
      BY <2>2, <1>1
    <3>2. \A i \in FlashSeen : i <= next
      BY <2>2, <1>1, SMT
    <3>3. \A i \in Seen : i <= next
      BY <3>2, <1>1
    <3> HIDE DEF Seen
    <3>4. LastByteAt(Seen, c) = <<next, c - segment_address(image.segments[next])>>
      BY <2>6, <3>1, <3>3, LastClaim
    <3>5. segment_address(image.segments[next]) = addr
      BY <1>1
    <3> HIDE DEF addr
    <3>6. LastByteAt(Seen, c) = <<next, c - addr>>
      BY <3>4, <3>5
    <3>7. flash_pages'[b][offset] = <<next, c - addr>>
      BY <2>3, <2>6
    <3> QED
      BY <2>1, <3>6, <3>7 DEF c
  <2>7. CASE ~ Covers(next, c)
    <3>1. LastByteAt(Seen, c) = LastByteAt(FlashSeen, c)
      <4>1. {i \in Seen : Covers(i, c)} = {i \in FlashSeen : Covers(i, c)}
        BY <2>7
      <4> HIDE DEF Seen
      <4> QED
        BY <4>1, SameClaim
    <3>2. CASE b \in DOMAIN flash_pages
      <4>1. flash_pages[b][offset] = LastByteAt(FlashSeen, c)
        BY <3>2 DEF PageInv, PagesHoldImage, c
      <4>2. flash_pages'[b][offset] = flash_pages[b][offset]
        BY <2>3, <2>7, <3>2
      <4> QED
        BY <2>1, <3>1, <4>1, <4>2 DEF c
    <3>3. CASE b \notin DOMAIN flash_pages
      <4>1. {i \in FlashSeen : Covers(i, c)} = {}
        BY <2>5, <3>3 DEF PageInv, ClaimedIsPaged
      <4>2. LastByteAt(FlashSeen, c) = Padding
        BY <4>1 DEF LastByteAt
      <4> QED
        BY <2>1, <2>3, <2>7, <3>1, <3>3, <4>2 DEF c
    <3> QED
      BY <3>2, <3>3
  <2> QED
    BY <2>6, <2>7
<1> QED
  BY <1>2, <1>7, <1>8, <1>9 DEF PageInv

LEMMA PageNextInv ==
  PlanInv /\ PageInv /\ [PlanNext]_planVars => PageInv'
<1> SUFFICES ASSUME PlanInv, PageInv, [PlanNext]_planVars PROVE PageInv'
  OBVIOUS
<1>1. ASSUME UNCHANGED <<input, next, flash_pages>> PROVE PageInv'
  <2>1. FlashSeen' = FlashSeen /\ SeenIsImages'
    BY <1>1 DEF FlashSeen, SeenIsImages, PageInv, input, layout
  <2> QED
    BY <1>1, <2>1, OthersKeepPages
<1>2. CASE UNCHANGED planVars \/ ReadElf \/ RejectElf \/ FinishPlan
  BY <1>1, <1>2
  DEF planVars, segment_data, ReadElf, RejectElf, FinishPlan, Throw
<1>3. ASSUME NEW segment, PlanSegment(segment) PROVE PageInv'
  <2>1. CASE RejectSegment(segment)
    BY <2>1, <1>1 DEF RejectSegment, Throw, segment_data
  <2>2. CASE FlashSegment(segment)
    BY <2>2, FlashSegmentPages
  <2>3. CASE SkipSegment(segment) \/ RamSegment(segment)
             \/ MirrorSegment(segment) \/ SkipFlashSegment(segment)
    <3>1. /\ AtSegment(segment) /\ next' = next + 1
          /\ UNCHANGED <<input, flash_pages>>
      BY <2>3 DEF SkipSegment, RamSegment, MirrorSegment, SkipFlashSegment,
                  HasContent, segment_data
    <3>2. next \in DOMAIN image.segments /\ segment = image.segments[next]
      BY <3>1, AtSegmentNext
    <3>3. ~ (/\ allow_flash /\ Loadable(image.segments[next])
             /\ is_flash_address(segment_address(image.segments[next]), layout))
      BY <2>3, <3>2
      DEF SkipSegment, RamSegment, MirrorSegment, SkipFlashSegment
    <3>4. SeenIsImages' /\ FlashSeen' = FlashSeen
      BY <3>1, <3>2, <3>3, SeenGrows
    <3> QED
      BY <3>1, <3>4, OthersKeepPages
  <2> QED
    BY <1>3, <2>1, <2>2, <2>3 DEF PlanSegment
<1> QED
  BY <1>2, <1>3 DEF PlanNext

LEMMA PageInitInv == PlanInit => PageInv
<1> SUFFICES ASSUME PlanInit PROVE PageInv
  OBVIOUS
<1>1. next = 1 /\ DOMAIN flash_pages = {}
  BY DEF PlanInit
<1>2. 1 .. next - 1 = {}
  BY <1>1, SMT
<1>3. FlashSeen = {}
  BY <1>2 DEF FlashSeen
<1> QED
  BY <1>1, <1>2, <1>3
  DEF PageInv, SeenIsImages, PagesAreAligned, ClaimedIsPaged, PagesHoldImage

\* What is known of the pages holds in every state.
LEMMA PageInvariant == PlanSpec => []PageInv
  BY PageInitInv, PageNextInv, PlanInvariant, PTL DEF PlanSpec

\* Every page that will be programmed holds exactly the bytes of the image that
\* fall into it, the last segment winning, and zeros elsewhere: for every page
\* size, every image and however its segments share pages.
THEOREM PlannedPagesHoldTheImage == PlanSpec => []PagesHoldImage
<1>1. PageInv => PagesHoldImage
  BY DEF PageInv
<1> QED
  BY <1>1, PageInvariant, PTL

-----------------------------------------------------------------------------
(***************************************************************************)
(* EraseIsTight.  merge_ranges covers what its ranges cover (PlanLemmas),  *)
(* and each range was made for one segment (RangesHaveSegments).           *)
(***************************************************************************)
SegmentRange(i) ==
  EraseRange(segment_address(image.segments[i]), image.segments[i].filez)

RangesHaveSegments ==
  \A k \in DOMAIN flash_erase_ranges :
    \E i \in FlashSeen : flash_erase_ranges[k] = SegmentRange(i)

\* What is known of a segment that was sent to the flash.
LEMMA SeenNumbers ==
  ASSUME PlanInv, SeenIsImages, NEW i \in FlashSeen
  PROVE  /\ segment_address(image.segments[i]) \in Nat
         /\ segment_address(image.segments[i]) < FlashEndRp2350
         /\ image.segments[i].filez \in Nat \ {0}
         /\ FlashEndRp2350 + image.segments[i].filez + SectorSize <= Word
<1>1. /\ i \in DOMAIN image.segments
      /\ Loadable(image.segments[i])
      /\ is_flash_address(segment_address(image.segments[i]), layout)
  BY DEF FlashSeen, SeenIsImages
<1>2. image \in Images /\ image \in Image
  BY ImagesAreImages DEF PlanInv
<1>3. image.segments[i] \in Segment /\ image.segments[i].filez \in Nat \ {0}
  BY <1>1, <1>2, ContentType DEF Loadable
<1>4. segment_address(image.segments[i]) \in Nat
  <2>1. Address \subseteq Nat
    BY MapNumbers DEF Address
  <2> QED
    BY <1>3, <2>1 DEF segment_address, Segment
<1>5. segment_address(image.segments[i]) < FlashEndRp2350
  BY <1>1, <1>4, MapNumbers, SMT DEF is_flash_address
<1> QED
  BY <1>1, <1>2, <1>3, <1>4, <1>5, SegmentsEndInTheWord

\* A sector in the erase range of a segment has a byte of the segment.
LEMMA EraseRangeIsTight ==
  ASSUME NEW addr \in Nat, NEW size \in Nat \ {0}, addr < FlashEndRp2350,
         FlashEndRp2350 + size + SectorSize <= Word,
         NEW sector \in Nat, sector % SectorSize = 0,
         In(sector, EraseRange(addr, size))
  PROVE  \E a \in sector .. sector + SectorSize - 1 : addr <= a /\ a < addr + size
<1>1. /\ addr + size \in Nat
      /\ addr + size + SectorSize <= Word
  BY MapNumbers, SMT
<1>2. Plus(addr, size) = addr + size
  BY <1>1, MapNumbers, SMT DEF Plus
<1>3. PICK from \in Nat, to \in Nat :
        /\ EraseRange(addr, size) = [start |-> from, end |-> to]
        /\ from <= addr /\ addr < from + SectorSize /\ to < addr + size + SectorSize
        /\ \E k \in Nat : from = SectorSize * k
        /\ \E k \in Nat : to = SectorSize * k
  <2>1. /\ align_down(addr, SectorSize) \in Nat
        /\ align_down(addr, SectorSize) <= addr
        /\ addr < align_down(addr, SectorSize) + SectorSize
        /\ \E k \in Nat : align_down(addr, SectorSize) = SectorSize * k
    BY AlignDown, MapNumbers
  <2>2. /\ align_up(addr + size, SectorSize) \in Nat
        /\ align_up(addr + size, SectorSize) < addr + size + SectorSize
        /\ \E k \in Nat : align_up(addr + size, SectorSize) = SectorSize * k
    BY <1>1, AlignUp, MapNumbers
  <2>3. EraseRange(addr, size) = [start |-> align_down(addr, SectorSize),
                                  end |-> align_up(addr + size, SectorSize)]
    BY <1>2 DEF EraseRange
  <2> QED
    BY <2>1, <2>2, <2>3
<1>4. from <= sector /\ sector < to
  BY <1>3 DEF In
<1>5. PICK k \in Nat : sector = SectorSize * k
  <2>1. sector = align_down(sector, SectorSize)
    BY MapNumbers, SMT DEF align_down
  <2>2. PICK k \in Nat : align_down(sector, SectorSize) = SectorSize * k
    BY AlignDown, MapNumbers
  <2> QED
    BY <2>1, <2>2
<1>6. sector + SectorSize <= to
  BY <1>3, <1>4, <1>5, Multiples, MapNumbers
<1>7. sector < addr + size
  BY <1>3, <1>6, <1>1, MapNumbers, SMT
<1>8. addr < sector + SectorSize
  BY <1>3, <1>4, MapNumbers, SMT
<1>9. PICK a \in Nat : a = IF sector <= addr THEN addr ELSE sector
  OBVIOUS
<1>10. a \in sector .. sector + SectorSize - 1 /\ addr <= a /\ a < addr + size
  BY <1>7, <1>8, <1>9, MapNumbers, SMT
<1> QED
  BY <1>10

\* The erase ranges are spans: none ends before it starts.
LEMMA EraseRangesAreSpans ==
  ASSUME PlanInv, SeenIsImages, RangesHaveSegments
  PROVE  flash_erase_ranges \in Seq(Span)
<1>1. ASSUME NEW k \in DOMAIN flash_erase_ranges
      PROVE  flash_erase_ranges[k] \in Span
  <2>1. PICK i \in FlashSeen : flash_erase_ranges[k] = SegmentRange(i)
    BY DEF RangesHaveSegments
  <2>2. PICK addr \in Nat, size \in Nat \ {0} :
          /\ addr < FlashEndRp2350 /\ FlashEndRp2350 + size + SectorSize <= Word
          /\ flash_erase_ranges[k] = EraseRange(addr, size)
    BY <2>1, SeenNumbers DEF SegmentRange
  <2>3. Plus(addr, size) = addr + size /\ addr + size \in Nat
        /\ addr + size + SectorSize <= Word
    BY <2>2, MapNumbers, SMT DEF Plus
  <2>4. PICK from \in Nat, to \in Nat :
          /\ flash_erase_ranges[k] = [start |-> from, end |-> to]
          /\ from <= addr /\ addr + size <= to
    BY <2>2, <2>3, AlignDown, AlignUp, MapNumbers DEF EraseRange
  <2>5. from <= to
    BY <2>4, SMT
  <2> QED
    BY <2>4, <2>5 DEF Span
<1> QED
  BY <1>1 DEF PlanInv, PlanTypeOK

\* Steps that send no segment to the flash change no range.
LEMMA OthersKeepRanges ==
  ASSUME RangesHaveSegments, UNCHANGED <<input, flash_erase_ranges>>,
         FlashSeen \subseteq FlashSeen'
  PROVE  RangesHaveSegments'
  BY DEF RangesHaveSegments, SegmentRange, input

LEMMA RangesNextInv ==
  PlanInv /\ PageInv /\ RangesHaveSegments /\ [PlanNext]_planVars
    => RangesHaveSegments'
<1> SUFFICES ASSUME PlanInv, PageInv, RangesHaveSegments, [PlanNext]_planVars
             PROVE  RangesHaveSegments'
  OBVIOUS
<1>1. ASSUME UNCHANGED <<input, next, flash_erase_ranges>>
      PROVE  RangesHaveSegments'
  <2>1. FlashSeen' = FlashSeen
    BY <1>1 DEF FlashSeen, input, layout
  <2> QED
    BY <1>1, <2>1, OthersKeepRanges
<1>2. CASE UNCHANGED planVars \/ ReadElf \/ RejectElf \/ FinishPlan
  BY <1>1, <1>2
  DEF planVars, segment_data, ReadElf, RejectElf, FinishPlan, Throw
<1>3. ASSUME NEW segment, PlanSegment(segment) PROVE RangesHaveSegments'
  <2>1. CASE RejectSegment(segment)
    BY <2>1, <1>1 DEF RejectSegment, Throw, segment_data
  <2>2. ASSUME ~ RejectSegment(segment)
        PROVE  /\ next \in DOMAIN image.segments /\ segment = image.segments[next]
               /\ next' = next + 1 /\ UNCHANGED input
               /\ FlashSeen \subseteq FlashSeen'
    <3>1. AtSegment(segment) /\ next' = next + 1 /\ UNCHANGED input
      BY <1>3, <2>2
      DEF PlanSegment, SkipSegment, RamSegment, MirrorSegment, SkipFlashSegment,
          FlashSegment, HasContent
    <3> QED
      BY <3>1, AtSegmentNext, SeenGrows DEF PageInv
  <2>3. CASE FlashSegment(segment)
    <3> DEFINE n == Len(flash_erase_ranges)
               range == EraseRange(segment_address(segment), segment.filez)
    <3>1. ~ RejectSegment(segment)
      BY <2>3 DEF FlashSegment, HasContent, RejectSegment
    <3>2. next \in FlashSeen'
      <4>1. FlashSeen' = FlashSeen \cup {next}
        BY <2>2, <2>3, <3>1, SeenGrows DEF FlashSegment, HasContent, PageInv
      <4> QED
        BY <4>1
    <3>3. /\ n \in Nat /\ DOMAIN flash_erase_ranges = 1 .. n
          /\ DOMAIN flash_erase_ranges' = 1 .. n + 1
          /\ flash_erase_ranges'[n + 1] = range
          /\ \A k \in 1 .. n : flash_erase_ranges'[k] = flash_erase_ranges[k]
      <4>1. flash_erase_ranges' = Append(flash_erase_ranges, range)
        BY <2>3 DEF FlashSegment
      <4> HIDE DEF range
      <4> QED
        BY <4>1 DEF PlanInv, PlanTypeOK
    <3> HIDE DEF n
    <3>4. range = SegmentRange(next)
      BY <2>2, <3>1 DEF SegmentRange
    <3>5. \A i : SegmentRange(i)' = SegmentRange(i)
      BY <2>2, <3>1 DEF SegmentRange, input
    <3>6. ASSUME NEW k \in 1 .. n + 1
          PROVE  \E i \in FlashSeen' : flash_erase_ranges'[k] = SegmentRange(i)
      <4>1. CASE k = n + 1
        BY <3>2, <3>3, <3>4, <4>1
      <4>2. CASE k \in 1 .. n
        <5>1. \E i \in FlashSeen : flash_erase_ranges[k] = SegmentRange(i)
          BY <4>2, <3>3 DEF RangesHaveSegments
        <5> QED
          BY <4>2, <5>1, <3>1, <3>3, <2>2
      <4> QED
        BY <3>3, <4>1, <4>2, SMT
    <3> QED
      BY <3>3, <3>5, <3>6 DEF RangesHaveSegments
  <2>4. CASE SkipSegment(segment) \/ RamSegment(segment)
             \/ MirrorSegment(segment) \/ SkipFlashSegment(segment)
    <3>1. flash_erase_ranges' = flash_erase_ranges /\ ~ RejectSegment(segment)
      BY <2>4 DEF SkipSegment, RamSegment, MirrorSegment, SkipFlashSegment,
                  HasContent, segment_data, RejectSegment
    <3> QED
      BY <2>2, <3>1, OthersKeepRanges
  <2> QED
    BY <1>3, <2>1, <2>3, <2>4 DEF PlanSegment
<1> QED
  BY <1>2, <1>3 DEF PlanNext

\* The merged ranges hold sectors of the image only, in order and apart.
LEMMA RangesAreTight ==
  ASSUME PlanInv, SeenIsImages, RangesHaveSegments
  PROVE  EraseIsTight
<1>1. flash_erase_ranges \in Seq(Span)
  BY EraseRangesAreSpans
<1>2. PICK merged : merged = merge_ranges(flash_erase_ranges)
  OBVIOUS
<1>3. /\ merged \in Seq(Span) /\ Apart(merged)
      /\ \A a \in Int : Covered(merged, a) <=> Covered(flash_erase_ranges, a)
  BY <1>1, <1>2, MergeRangesResult
<1>4. ASSUME NEW k \in DOMAIN merged,
             NEW sector \in merged[k].start .. merged[k].end - 1,
             sector % SectorSize = 0
      PROVE  \E a \in sector .. sector + SectorSize - 1, i \in FlashSeen :
               Covers(i, a)
  <2>1. merged[k].start \in Int /\ merged[k].end \in Int
    BY <1>3, SpanFields
  <2>2. sector \in Int /\ In(sector, merged[k])
    BY <2>1 DEF In
  <2>3. PICK l \in DOMAIN flash_erase_ranges : In(sector, flash_erase_ranges[l])
    BY <1>3, <2>2 DEF Covered
  <2>4. PICK i \in FlashSeen : flash_erase_ranges[l] = SegmentRange(i)
    BY DEF RangesHaveSegments
  <2>5. sector \in Nat
    <3>1. flash_erase_ranges[l].start \in Nat
      <4>1. Address \subseteq Nat
        BY MapNumbers DEF Address
      <4>2. flash_erase_ranges[l] \in Range32
        BY <2>3 DEF PlanInv, PlanTypeOK
      <4> QED
        BY <4>1, <4>2 DEF Range32
    <3> QED
      BY <2>2, <2>3, <3>1, SMT DEF In
  <2>6. PICK addr, size :
          addr = segment_address(image.segments[i]) /\ size = image.segments[i].filez
    OBVIOUS
  <2>7. /\ addr \in Nat /\ addr < FlashEndRp2350
        /\ size \in Nat \ {0} /\ FlashEndRp2350 + size + SectorSize <= Word
    BY <2>6, SeenNumbers
  <2>8. In(sector, EraseRange(addr, size))
    BY <2>3, <2>4, <2>6 DEF SegmentRange
  <2>9. PICK a \in sector .. sector + SectorSize - 1 :
          addr <= a /\ a < addr + size
    BY <1>4, <2>5, <2>7, <2>8, EraseRangeIsTight
  <2> QED
    BY <2>6, <2>9 DEF Covers
<1>5. ASSUME NEW k \in 2 .. Len(merged)
      PROVE  merged[k - 1].end < merged[k].start
  BY <1>3 DEF Apart
<1> QED
  BY <1>2, <1>4, <1>5 DEF EraseIsTight

\* Nothing but sectors in which the image has a byte is erased, and no two of
\* the ranges erased overlap or touch: what lies beside the image in flash
\* survives, for every sector size, every image and every order of its segments.
THEOREM PlannedErasesAreTight == PlanSpec => []EraseIsTight
<1>1. PlanInit => RangesHaveSegments
  BY DEF PlanInit, RangesHaveSegments
<1>2. PlanInv /\ PageInv /\ RangesHaveSegments => EraseIsTight
  BY RangesAreTight DEF PageInv
<1> QED
  BY <1>1, <1>2, RangesNextInv, PageInvariant, PlanInvariant, PTL DEF PlanSpec

-----------------------------------------------------------------------------
(***************************************************************************)
(* The RAM segments are in the order of the image and none is missing, so  *)
(* that where two of them overlap the later segment of the image wins.     *)
(***************************************************************************)
Source(ram) == ram.data[1][1]   \* the segment its bytes are from

GoesToRam(i) ==
  LET segment == image.segments[i]
      addr    == segment_address(segment)
  IN  /\ Loadable(segment)
      /\ is_flash_address(addr, layout) =>
           ~ allow_flash /\ maps_to_sram(addr, segment.filez, layout)

RamSeen == {i \in 1 .. next - 1 : GoesToRam(i)}

RamFollowsImage ==
  /\ \A k \in DOMAIN ram_segments :
       LET ram == ram_segments[k]
       IN  Source(ram) \in RamSeen /\ Origin(ram, Source(ram))
  /\ \A k, l \in DOMAIN ram_segments :
       k < l => Source(ram_segments[k]) < Source(ram_segments[l])
  /\ \A i \in RamSeen : \E k \in DOMAIN ram_segments : Source(ram_segments[k]) = i

\* a plan is one of the whole image
WholeImage == plan = "planned" => 1 .. next - 1 = DOMAIN image.segments

\* Everything that is known of the plan.
PlanFacts ==
  /\ PlanInv
  /\ MirrorInv
  /\ PageInv
  /\ RangesHaveSegments
  /\ RamFollowsImage
  /\ WholeImage

\* The segment that is appended to ram_segments is the one the loop looks at.
LEMMA AppendFollowsImage ==
  ASSUME PlanInv, RamFollowsImage, next \in DOMAIN image.segments,
         NEW addr \in Address, NEW ram,
         ram = [addr |-> addr, data |-> content(next)], Origin(ram, next),
         ram_segments' = Append(ram_segments, ram),
         UNCHANGED input, GoesToRam(next), next' = next + 1
  PROVE  RamFollowsImage'
<1> DEFINE n == Len(ram_segments)
<1>1. /\ content(next) \in Seq(Byte) /\ image.segments[next].filez \in Nat
      /\ DOMAIN content(next) = 1 .. image.segments[next].filez
  BY SegmentNumbers DEF PlanInv
<1>2. /\ n \in Nat /\ DOMAIN ram_segments = 1 .. n
      /\ DOMAIN ram_segments' = 1 .. n + 1
      /\ ram_segments'[n + 1] = ram
      /\ \A k \in 1 .. n : ram_segments'[k] = ram_segments[k]
  BY <1>1 DEF PlanInv, PlanTypeOK
<1> HIDE DEF n
<1>3. \A r, i : Origin(r, i)' <=> Origin(r, i)
  BY DEF Origin, input, content, layout
<1>4. \A i : GoesToRam(i)' <=> GoesToRam(i)
  BY DEF GoesToRam, input, layout
<1>5. next \in Nat \ {0}
  BY DEF PlanInv, PlanTypeOK
<1>6. RamSeen' = RamSeen \cup {next} /\ \A i \in RamSeen : i \in Nat /\ i < next
  <2>1. 1 .. next' - 1 = (1 .. next - 1) \cup {next}
    BY <1>5, SMT
  <2>2. RamSeen' = RamSeen \cup {next}
    BY <1>4, <2>1 DEF RamSeen
  <2>3. \A i \in 1 .. next - 1 : i \in Nat /\ i < next
    BY <1>5, SMT
  <2> QED
    BY <2>2, <2>3 DEF RamSeen
<1>7. Source(ram) = next
  <2>1. image.segments[next].filez # 0
    BY DEF GoesToRam, Loadable
  <2>2. content(next)[1] = <<next, 0>>
    BY <1>1, <2>1, SMT DEF content
  <2> QED
    BY <1>2, <2>2 DEF Source
<1>8. ASSUME NEW k \in 1 .. n + 1
      PROVE  /\ Source(ram_segments'[k]) \in RamSeen'
             /\ Origin(ram_segments'[k], Source(ram_segments'[k]))
             /\ k \in 1 .. n \/ k = n + 1
  <2>1. CASE k \in 1 .. n
    BY <2>1, <1>2, <1>6 DEF RamFollowsImage
  <2>2. CASE k = n + 1
    BY <2>2, <1>2, <1>6, <1>7
  <2> QED
    BY <1>2, <2>1, <2>2, SMT
<1>9. ASSUME NEW k \in 1 .. n + 1, NEW l \in 1 .. n + 1, k < l
       PROVE  Source(ram_segments'[k]) < Source(ram_segments'[l])
  <2>1. k \in 1 .. n
    BY <1>2, <1>9, SMT
  <2>2. CASE l \in 1 .. n
    BY <2>1, <2>2, <1>2, <1>9 DEF RamFollowsImage
  <2>3. CASE l = n + 1
    <3>1. Source(ram_segments[k]) \in RamSeen
      BY <2>1, <1>2 DEF RamFollowsImage
    <3> QED
      BY <2>1, <2>3, <3>1, <1>2, <1>6, <1>7
  <2> QED
    BY <1>8, <2>2, <2>3
<1>10. ASSUME NEW i \in RamSeen' 
       PROVE  \E k \in 1 .. n + 1 : Source(ram_segments'[k]) = i
  <2>1. CASE i = next
    <3>1. n + 1 \in 1 .. n + 1
      BY <1>2, SMT
    <3> QED
      BY <2>1, <3>1, <1>2, <1>7
  <2>2. CASE i \in RamSeen
    <3>1. PICK k \in 1 .. n : Source(ram_segments[k]) = i
      BY <2>2, <1>2 DEF RamFollowsImage
    <3>2. k \in 1 .. n + 1
      BY <1>2, SMT
    <3> QED
      BY <3>1, <3>2, <1>2
  <2> QED
    BY <2>1, <2>2, <1>6
<1>11. \A k \in DOMAIN ram_segments' :
         Origin(ram_segments[k], Source(ram_segments[k]))'
           <=> Origin(ram_segments'[k], Source(ram_segments'[k]))
  BY <1>3 DEF Origin, input, content, layout, Source
<1>12. DOMAIN ram_segments' = 1 .. n + 1
  BY <1>2
<1> QED
  BY <1>8, <1>9, <1>10, <1>11, <1>12 DEF RamFollowsImage

\* The steps that append nothing.
LEMMA OthersFollowImage ==
  ASSUME RamFollowsImage, UNCHANGED <<input, ram_segments>>, RamSeen' = RamSeen
  PROVE  RamFollowsImage'
<1>1. \A k : Origin(ram_segments[k], Source(ram_segments[k]))'
               <=> Origin(ram_segments[k], Source(ram_segments[k]))
  BY DEF Origin, input, content, layout, Source
<1> QED
  BY <1>1 DEF RamFollowsImage

LEMMA FollowNextInv ==
  PlanInv /\ RamFollowsImage /\ [PlanNext]_planVars => RamFollowsImage'
<1> SUFFICES ASSUME PlanInv, RamFollowsImage, [PlanNext]_planVars
             PROVE  RamFollowsImage'
  OBVIOUS
<1>1. ASSUME UNCHANGED <<input, next, ram_segments>> PROVE RamFollowsImage'
  <2>1. RamSeen' = RamSeen
    BY <1>1 DEF RamSeen, GoesToRam, input, layout
  <2> QED
    BY <1>1, <2>1, OthersFollowImage
<1>2. CASE UNCHANGED planVars \/ ReadElf \/ RejectElf \/ FinishPlan
  BY <1>1, <1>2
  DEF planVars, segment_data, ReadElf, RejectElf, FinishPlan, Throw
<1>3. ASSUME NEW segment, PlanSegment(segment) PROVE RamFollowsImage'
  <2>1. CASE RejectSegment(segment)
    BY <2>1, <1>1 DEF RejectSegment, Throw, segment_data
  <2>2. ASSUME SkipSegment(segment) \/ RamSegment(segment) \/ MirrorSegment(segment)
               \/ SkipFlashSegment(segment) \/ FlashSegment(segment)
        PROVE  /\ next \in DOMAIN image.segments /\ segment = image.segments[next]
               /\ next' = next + 1 /\ UNCHANGED input
               /\ next \in Nat \ {0}
               /\ segment_address(segment) \in Address
    <3>1. AtSegment(segment) /\ next' = next + 1 /\ UNCHANGED input
      BY <2>2
      DEF SkipSegment, RamSegment, MirrorSegment, SkipFlashSegment,
          FlashSegment, HasContent
    <3>2. next \in DOMAIN image.segments /\ segment = image.segments[next]
      BY <3>1, AtSegmentNext
    <3> QED
      BY <3>1, <3>2, SegmentNumbers DEF PlanInv, PlanTypeOK
  <2>3. CASE SkipSegment(segment) \/ SkipFlashSegment(segment)
             \/ FlashSegment(segment)
    <3>1. ram_segments' = ram_segments
      BY <2>3 DEF SkipSegment, SkipFlashSegment, FlashSegment, segment_data
    <3>2. ~ GoesToRam(next)
      BY <2>2, <2>3 DEF SkipSegment, SkipFlashSegment, FlashSegment, GoesToRam
    <3>3. 1 .. next' - 1 = (1 .. next - 1) \cup {next}
      BY <2>2, <2>3, SMT
    <3>4. \A i : GoesToRam(i)' <=> GoesToRam(i)
      BY <2>2, <2>3 DEF GoesToRam, input, layout
    <3>5. RamSeen' = RamSeen
      BY <3>2, <3>3, <3>4 DEF RamSeen
    <3> QED
      BY <2>2, <2>3, <3>1, <3>5, OthersFollowImage
  <2>4. CASE RamSegment(segment)
    <3> DEFINE ram == [addr |-> segment_address(segment), data |-> content(next)]
    <3>1. Origin(ram, next) /\ GoesToRam(next)
      BY <2>2, <2>4 DEF Origin, GoesToRam, RamSegment, HasContent, Loadable
    <3>2. ram_segments' = Append(ram_segments, ram)
      BY <2>4 DEF RamSegment
    <3> QED
      BY <2>2, <2>4, <3>1, <3>2, AppendFollowsImage
  <2>5. CASE MirrorSegment(segment)
    <3> DEFINE ram == [addr |-> sram_mirror(segment_address(segment)),
                       data |-> content(next)]
    <3>1. Origin(ram, next) /\ GoesToRam(next)
      BY <2>2, <2>5 DEF Origin, GoesToRam, MirrorSegment, HasContent, Loadable
    <3>2. ram_segments' = Append(ram_segments, ram)
      BY <2>5 DEF MirrorSegment
    <3>3. sram_mirror(segment_address(segment)) \in Address
      BY <2>2, <2>5, MirrorIsAddress
    <3> QED
      BY <2>2, <2>5, <3>1, <3>2, <3>3, AppendFollowsImage
  <2> QED
    BY <1>3, <2>1, <2>3, <2>4, <2>5 DEF PlanSegment
<1> QED
  BY <1>2, <1>3 DEF PlanNext

LEMMA WholeNextInv ==
  PlanInv /\ PageInv /\ WholeImage /\ [PlanNext]_planVars => WholeImage'
<1> SUFFICES ASSUME PlanInv, PageInv, WholeImage, [PlanNext]_planVars
             PROVE  WholeImage'
  OBVIOUS
<1>1. CASE UNCHANGED planVars
  BY <1>1 DEF planVars, input, WholeImage
<1>2. CASE ReadElf \/ RejectElf
  BY <1>2 DEF ReadElf, RejectElf, Throw, WholeImage
<1>3. CASE FinishPlan
  <2>1. /\ next > Len(image.segments) /\ UNCHANGED <<next, image>>
    BY <1>3 DEF FinishPlan, input
  <2>2. /\ DOMAIN image.segments = 1 .. Len(image.segments)
        /\ Len(image.segments) \in Nat /\ next \in Nat
    BY DEF PlanInv, PlanTypeOK, Image
  <2>3. 1 .. Len(image.segments) \subseteq 1 .. next - 1
    BY <2>1, <2>2, SMT
  <2> QED
    BY <2>1, <2>2, <2>3 DEF WholeImage, PageInv, SeenIsImages
<1>4. ASSUME NEW segment, PlanSegment(segment) PROVE WholeImage'
  <2>1. plan' # "planned"
    BY <1>4 DEF PlanSegment, SkipSegment, RejectSegment, RamSegment, MirrorSegment,
       SkipFlashSegment, FlashSegment, HasContent, AtSegment, Throw
  <2> QED
    BY <2>1 DEF WholeImage
<1> QED
  BY <1>1, <1>2, <1>3, <1>4 DEF PlanNext

LEMMA PlanFactsInit == PlanInit => PlanFacts
<1> SUFFICES ASSUME PlanInit PROVE PlanFacts
  OBVIOUS
<1>1. PlanInv /\ PageInv
  BY PlanInitInv, PageInitInv
<1>2. 1 .. next - 1 = {}
  BY SMT DEF PlanInit
<1> QED
  BY <1>1, <1>2
  DEF PlanInit, PlanFacts, MirrorInv, RamHasOrigin, FlashIsLeftAlone,
      RangesHaveSegments, RamFollowsImage, RamSeen, WholeImage

LEMMA PlanFactsNext == PlanFacts /\ [PlanNext]_planVars => PlanFacts'
  BY PlanNextInv, MirrorNextInv, PageNextInv, RangesNextInv, FollowNextInv,
     WholeNextInv
  DEF PlanFacts

-----------------------------------------------------------------------------
(***************************************************************************)
(* Script: which command stands where, and what each does.  IsErase,       *)
(* IsChunk and IsPage name the command number k by the range, the chunk of *)
(* a RAM segment or the page it is for.                                    *)
(***************************************************************************)
MergedRanges == merge_ranges(flash_erase_ranges)

ChunkLists == [k \in DOMAIN ram_segments |-> Chunks(ram_segments[k])]

ChunkPlace == CHOOSE at : Placed(ChunkLists, RamWrites, at)

Bases == Ascending(DOMAIN flash_pages)

PageWrite(b) == Write(b, [o \in 1 .. PageSize |-> flash_pages[b][o - 1]])

IsErase(k, m) == m \in DOMAIN MergedRanges /\ k = m

IsChunk(k, s, c) ==
  /\ s \in DOMAIN ram_segments
  /\ c \in DOMAIN Chunks(ram_segments[s])
  /\ k = Len(Erases) + (ChunkPlace[s] + c)

IsPage(k, b) ==
  \E j \in DOMAIN Bases :
    Bases[j] = b /\ k = (Len(Erases) + Len(RamWrites)) + j

Erase(range) ==
  [id |-> "FLASH_ERASE", addr |-> range.start, data |-> <<>>,
   size |-> range.end - range.start]

ScriptCommand ==
  [id: {"FLASH_ERASE", "WRITE"}, addr: Nat, data: Seq(Byte), size: Nat]

\* Factors keep the order.
LEMMA TimesMonotone ==
  ASSUME NEW a \in Nat, NEW b \in Nat, NEW q \in Nat, a <= b
  PROVE  a * q <= b * q
<1>1. PICK d \in Nat : b = a + d
  <2>1. b - a \in Nat /\ b = a + (b - a)
    BY SMT
  <2> QED
    BY <2>1
<1>2. b * q = a * q + d * q /\ d * q \in Nat /\ a * q \in Nat
  BY <1>1, SMT
<1> QED
  BY <1>2, SMT

\* How many chunks of q bytes n bytes make, and where each begins and ends.
LEMMA ChunkNumbers ==
  ASSUME NEW n \in Nat, NEW q \in Nat \ {0}
  PROVE  /\ (n + q - 1) \div q \in Nat
         /\ \A c \in 1 .. (n + q - 1) \div q :
              /\ (c - 1) * q \in Nat /\ c * q \in Nat
              /\ c * q = (c - 1) * q + q
              /\ (c - 1) * q < n
         /\ \A c \in 1 .. (n + q - 1) \div q :
              c + 1 \in 1 .. (n + q - 1) \div q => c * q < n
         /\ \A j \in 1 .. n : \E c \in 1 .. (n + q - 1) \div q :
              (c - 1) * q < j /\ j <= c * q
<1>1. n + q - 1 \in Nat
  BY SMT
<1>2. PICK m \in Nat : /\ m = (n + q - 1) \div q
                       /\ m * q <= n + q - 1 /\ n + q - 1 < m * q + q
                       /\ m * q \in Nat
  <2>1. PICK v \in Nat : v = n + q - 1
    BY <1>1
  <2>2. v = q * (v \div q) + (v % q) /\ v \div q \in Nat /\ v % q \in 0 .. q - 1
    BY SMT
  <2>3. PICK m \in Nat : m = v \div q
    BY <2>2
  <2>4. m * q = q * m /\ m * q \in Nat
    BY SMT
  <2>5. m * q <= v /\ v < m * q + q
    BY <2>2, <2>3, <2>4, SMT
  <2> QED
    BY <2>1, <2>3, <2>4, <2>5
<1>3. ASSUME NEW c \in Nat \ {0}
      PROVE  (c - 1) * q \in Nat /\ c * q \in Nat /\ c * q = (c - 1) * q + q
  BY SMT
<1>4. ASSUME NEW c \in 1 .. m PROVE (c - 1) * q < n
  <2>1. c * q <= m * q
    BY <1>2, TimesMonotone
  <2>2. c \in Nat \ {0}
    BY <1>2
  <2> QED
    BY <1>2, <1>3, <2>1, <2>2, SMT
<1>5. ASSUME NEW c \in 1 .. m, c + 1 \in 1 .. m PROVE c * q < n
  <2>1. ((c + 1) - 1) * q < n
    BY <1>4, <1>5
  <2>2. (c + 1) - 1 = c
    BY SMT
  <2> QED
    BY <2>1, <2>2
<1>6. ASSUME NEW j \in 1 .. n
      PROVE  \E c \in 1 .. m : (c - 1) * q < j /\ j <= c * q
  <2>1. PICK v \in Nat : v = j - 1
    BY SMT
  <2>2. v = q * (v \div q) + (v % q) /\ v \div q \in Nat /\ v % q \in 0 .. q - 1
    BY SMT
  <2>3. PICK d \in Nat : d = v \div q
    BY <2>2
  <2>4. d * q = q * d /\ d * q \in Nat /\ (d + 1) * q = d * q + q
    BY SMT
  <2>5. d * q < j /\ j <= d * q + q
    BY <2>1, <2>2, <2>3, <2>4, SMT
  <2>6. d + 1 <= m
    <3> SUFFICES ASSUME m <= d PROVE FALSE
      BY <1>2, SMT
    <3>1. m * q <= d * q
      BY <1>2, TimesMonotone
    <3> QED
      BY <1>2, <2>4, <2>5, <3>1, SMT
  <2>7. d + 1 \in 1 .. m /\ (d + 1) - 1 = d
    BY <2>6, SMT
  <2> QED
    BY <2>4, <2>5, <2>7
<1> QED
  BY <1>2, <1>3, <1>4, <1>5, <1>6

\* What the writes of one RAM segment are: its bytes, one after the other.
LEMMA ChunkFacts ==
  ASSUME NEW segment, segment.addr \in Address, segment.data \in Seq(Byte)
  PROVE  /\ Chunks(segment) \in Seq(ScriptCommand)
         /\ \A c \in DOMAIN Chunks(segment) :
              LET write == Chunks(segment)[c]
                  from  == (c - 1) * ChunkSize
              IN  /\ c \in Nat \ {0} /\ from \in Nat
                  /\ write.id = "WRITE"
                  /\ write.addr = Plus(segment.addr, from)
                  /\ write.size \in Nat \ {0}
                  /\ from + write.size <= Len(segment.data)
                  /\ c * ChunkSize = from + ChunkSize
                  /\ from + write.size <= c * ChunkSize
                  /\ write.data \in Seq(Byte) /\ Len(write.data) = write.size
                  /\ \A o \in 1 .. write.size : write.data[o] = segment.data[from + o]
                  /\ c + 1 \in DOMAIN Chunks(segment) => write.size = ChunkSize
         /\ \A j \in 1 .. Len(segment.data) : \E c \in DOMAIN Chunks(segment) :
              /\ (c - 1) * ChunkSize < j
              /\ j <= (c - 1) * ChunkSize + Chunks(segment)[c].size
         /\ \A c \in DOMAIN Chunks(segment) : 1 .. c \subseteq DOMAIN Chunks(segment)
<1>1. PICK data, n, q, m :
        /\ data = segment.data /\ n = Len(data) /\ q = ChunkSize
        /\ m = (n + q - 1) \div q
  OBVIOUS
<1>2. data \in Seq(Byte) /\ n \in Nat /\ q \in Nat \ {0}
  BY <1>1, ChunkIsPositive
<1>3. /\ m \in Nat
      /\ \A c \in 1 .. m : /\ (c - 1) * q \in Nat /\ c * q \in Nat
                           /\ c * q = (c - 1) * q + q
                           /\ (c - 1) * q < n
      /\ \A c \in 1 .. m : c + 1 \in 1 .. m => c * q < n
      /\ \A j \in 1 .. n : \E c \in 1 .. m : (c - 1) * q < j /\ j <= c * q
  BY <1>1, <1>2, ChunkNumbers
<1> DEFINE Upto(c) == IF c * q <= n THEN c * q ELSE n
<1>4. Chunks(segment) =
        [c \in 1 .. m |-> Write(Plus(segment.addr, (c - 1) * q),
                                SubSeq(data, (c - 1) * q + 1, Upto(c)))]
  BY <1>1 DEF Chunks
<1>5. DOMAIN Chunks(segment) = 1 .. m
  BY <1>4
<1>6. ASSUME NEW c \in 1 .. m
      PROVE  \E from \in Nat, size \in Nat \ {0}, bytes \in Seq(Byte) :
               /\ from = (c - 1) * q
               /\ Chunks(segment)[c] = [id |-> "WRITE", addr |-> Plus(segment.addr, from),
                                        data |-> bytes, size |-> size]
               /\ from + size <= n /\ c * q = from + q /\ from + size <= c * q
               /\ Len(bytes) = size
               /\ \A o \in 1 .. size : bytes[o] = data[from + o]
               /\ c + 1 \in 1 .. m => size = q
               /\ \A j \in 1 .. n : j <= c * q => j <= from + size
  <2>1. PICK from \in Nat : from = (c - 1) * q
    BY <1>3
  <2>2. PICK to \in Nat : to = Upto(c)
    BY <1>2, <1>3
  <2>3. from < n /\ c * q = from + q /\ c * q \in Nat
    BY <1>3, <2>1
  <2>4. /\ from < to /\ to <= n /\ to <= c * q
        /\ c * q < n => to = c * q
        /\ \A j \in 1 .. n : j <= c * q => j <= to
    BY <1>2, <2>2, <2>3, SMT
  <2>5. PICK size \in Nat \ {0} : size = to - from
    BY <2>4
  <2>6. PICK bytes : bytes = SubSeq(data, from + 1, to)
    OBVIOUS
  <2>7. /\ bytes \in Seq(Byte) /\ Len(bytes) = size
        /\ \A o \in 1 .. size : bytes[o] = data[from + o]
    <3>1. /\ from + 1 \in 1 .. n /\ to \in 1 .. n /\ n = Len(data)
          /\ to - (from + 1) + 1 = size
      BY <1>1, <1>2, <2>4, <2>5
    <3>2. bytes \in Seq(Byte) /\ Len(bytes) = size
      BY <1>2, <2>4, <2>5, <2>6, <3>1
    <3>3. ASSUME NEW o \in 1 .. size PROVE bytes[o] = data[from + o]
      <4>1. bytes[o] = data[(from + 1) + o - 1] 
        BY <1>2, <2>4, <2>5, <2>6, <3>1
      <4>2. (from + 1) + o - 1 = from + o
        BY SMT
      <4> QED
        BY <4>1, <4>2
    <3> QED
      BY <3>2, <3>3
  <2>8. Chunks(segment)[c] = [id |-> "WRITE", addr |-> Plus(segment.addr, from),
                              data |-> bytes, size |-> size]
    BY <1>4, <2>1, <2>2, <2>6, <2>7 DEF Write
  <2>9. c + 1 \in 1 .. m => size = q
    BY <1>2, <1>3, <2>3, <2>4, <2>5, SMT
  <2>10. from + size <= n /\ from + size <= c * q
         /\ \A j \in 1 .. n : j <= c * q => j <= from + size
    BY <1>2, <2>3, <2>4, <2>5, SMT
  <2> QED
    BY <2>1, <2>3, <2>7, <2>8, <2>9, <2>10
<1> HIDE DEF Upto
<1>7. Plus(segment.addr, 0) \in Nat /\ \A x \in Nat : Plus(segment.addr, x) \in Nat
  <2>1. segment.addr \in Nat
    BY MapNumbers DEF Address
  <2> QED
    BY <2>1, MapNumbers, SMT DEF Plus
<1>8. Chunks(segment) \in Seq(ScriptCommand)
  <2>1. ASSUME NEW c \in 1 .. m PROVE Chunks(segment)[c] \in ScriptCommand
    <3>1. PICK from \in Nat, size \in Nat \ {0}, bytes \in Seq(Byte) :
            /\ from = (c - 1) * q
            /\ Chunks(segment)[c] = [id |-> "WRITE", addr |-> Plus(segment.addr, from),
                                     data |-> bytes, size |-> size]
            /\ from + size <= n /\ c * q = from + q /\ from + size <= c * q
            /\ Len(bytes) = size
            /\ \A o \in 1 .. size : bytes[o] = data[from + o]
            /\ c + 1 \in 1 .. m => size = q
      BY <1>6
    <3> QED
      BY <1>7, <3>1 DEF ScriptCommand
  <2>2. Chunks(segment) = [c \in 1 .. m |-> Chunks(segment)[c]]
    BY <1>4
  <2> QED
    BY <1>3, <2>1, <2>2
<1>9. ASSUME NEW j \in 1 .. n
      PROVE  \E c \in 1 .. m : /\ (c - 1) * q < j
                               /\ j <= (c - 1) * q + Chunks(segment)[c].size
  <2>1. PICK c \in 1 .. m : (c - 1) * q < j /\ j <= c * q
    BY <1>3
  <2>2. PICK from \in Nat, size \in Nat \ {0}, bytes \in Seq(Byte) :
          /\ from = (c - 1) * q
          /\ Chunks(segment)[c] = [id |-> "WRITE", addr |-> Plus(segment.addr, from),
                                   data |-> bytes, size |-> size]
          /\ \A b \in 1 .. n : b <= c * q => b <= from + size
    BY <1>6
  <2>3. Chunks(segment)[c].size = size
    BY <2>2
  <2> QED
    BY <2>1, <2>2, <2>3
<1>10. ASSUME NEW c \in 1 .. m
       PROVE  LET write == Chunks(segment)[c]
                  from  == (c - 1) * ChunkSize
              IN  /\ c \in Nat \ {0} /\ from \in Nat
                  /\ write.id = "WRITE"
                  /\ write.addr = Plus(segment.addr, from)
                  /\ write.size \in Nat \ {0}
                  /\ from + write.size <= Len(segment.data)
                  /\ c * ChunkSize = from + ChunkSize
                  /\ from + write.size <= c * ChunkSize
                  /\ write.data \in Seq(Byte) /\ Len(write.data) = write.size
                  /\ \A o \in 1 .. write.size : write.data[o] = segment.data[from + o]
                  /\ c + 1 \in DOMAIN Chunks(segment) => write.size = ChunkSize
  <2>1. PICK from \in Nat, size \in Nat \ {0}, bytes \in Seq(Byte) :
               /\ from = (c - 1) * q
               /\ Chunks(segment)[c] = [id |-> "WRITE", addr |-> Plus(segment.addr, from),
                                        data |-> bytes, size |-> size]
               /\ from + size <= n /\ c * q = from + q /\ from + size <= c * q
               /\ Len(bytes) = size
               /\ \A o \in 1 .. size : bytes[o] = data[from + o]
               /\ c + 1 \in 1 .. m => size = q
    BY <1>6
  <2>2. c \in Nat \ {0}
    BY <1>3
  <2> QED
    BY <1>1, <1>5, <2>1, <2>2
<1>11. \A c \in 1 .. m : 1 .. c \subseteq 1 .. m
  BY <1>3
<1> QED
  BY <1>1, <1>5, <1>8, <1>9, <1>10, <1>11

\* The erase commands: one for each merged range.
LEMMA EraseFacts ==
  ASSUME PlanFacts
  PROVE  /\ MergedRanges \in Seq(Span)
         /\ \A m \in DOMAIN MergedRanges :
              /\ MergedRanges[m].start \in Nat /\ MergedRanges[m].end \in Nat
              /\ MergedRanges[m].start <= MergedRanges[m].end
         /\ \A a \in Int : Covered(MergedRanges, a) <=> Covered(flash_erase_ranges, a)
         /\ Erases \in Seq(ScriptCommand)
         /\ DOMAIN Erases = DOMAIN MergedRanges
         /\ \A m \in DOMAIN MergedRanges : Erases[m] = Erase(MergedRanges[m])
<1>1. flash_erase_ranges \in Seq(Span)
  BY EraseRangesAreSpans DEF PlanFacts, PageInv
<1>2. PICK merged : merged = MergedRanges
  OBVIOUS
<1>3. /\ merged \in Seq(Span)
      /\ \A a \in Int : Covered(merged, a) <=> Covered(flash_erase_ranges, a)
      /\ \A a \in Int : Touched(merged, a) <=> Touched(flash_erase_ranges, a)
  BY <1>1, <1>2, MergeRangesResult DEF MergedRanges
<1>4. ASSUME NEW m \in DOMAIN merged
      PROVE  /\ merged[m].start \in Nat /\ merged[m].end \in Nat
             /\ merged[m].start <= merged[m].end
  <2>1. /\ merged[m].start \in Int /\ merged[m].end \in Int
        /\ merged[m].start <= merged[m].end
    BY <1>3, SpanFields
  <2>2. Touched(merged, merged[m].start)
    BY <2>1 DEF Touched, Meets
  <2>3. PICK k \in DOMAIN flash_erase_ranges :
          Meets(merged[m].start, flash_erase_ranges[k])
    BY <1>3, <2>1, <2>2 DEF Touched
  <2>4. flash_erase_ranges[k].start \in Nat
    <3>1. Address \subseteq Nat
      BY MapNumbers DEF Address
    <3>2. flash_erase_ranges[k] \in Range32
      BY DEF PlanFacts, PlanInv, PlanTypeOK
    <3> QED
      BY <3>1, <3>2 DEF Range32
  <2> QED
    BY <2>1, <2>3, <2>4, SMT DEF Meets
<1>5. Erases = [m \in DOMAIN merged |-> Erase(merged[m])]
  BY <1>2 DEF Erases, MergedRanges, Erase
<1>6. ASSUME NEW m \in DOMAIN merged PROVE Erase(merged[m]) \in ScriptCommand
  <2>1. merged[m].end - merged[m].start \in Nat
    BY <1>4
  <2>2. <<>> \in Seq(Byte)
    OBVIOUS
  <2> QED
    BY <1>4, <2>1, <2>2 DEF Erase, ScriptCommand
<1>7. PICK n \in Nat : DOMAIN merged = 1 .. n
  BY <1>3
<1>8. Erases \in Seq(ScriptCommand)
  <2> HIDE DEF Erases
  <2> QED
    BY <1>5, <1>6, <1>7
<1> QED
  BY <1>2, <1>3, <1>4, <1>5, <1>8

\* The address and the bytes of a planned RAM write.
LEMMA RamSegmentType ==
  ASSUME PlanInv, NEW s \in DOMAIN ram_segments
  PROVE  /\ ram_segments[s].addr \in Address /\ ram_segments[s].addr \in Nat
         /\ ram_segments[s].data \in Seq(Byte)
<1>1. ram_segments[s] \in [addr: Address, data: Seq(Byte)]
  <2>1. PICK R : R = [addr: Address, data: Seq(Byte)]
    OBVIOUS
  <2>2. ram_segments \in Seq(R)
    BY <2>1 DEF PlanInv, PlanTypeOK
  <2>3. ram_segments[s] \in R
    <3> HIDE <2>1
    <3> QED
      BY <2>2
  <2> QED
    BY <2>1, <2>3, Zenon
<1>2. Address \subseteq Nat
  BY MapNumbers DEF Address
<1> QED
  BY <1>1, <1>2

\* The RAM writes: the chunks of the RAM segments, one segment after the other.
LEMMA RamWriteFacts ==
  ASSUME PlanFacts
  PROVE  /\ RamWrites \in Seq(ScriptCommand)
         /\ DOMAIN ChunkLists = DOMAIN ram_segments
         /\ \A s \in DOMAIN ram_segments : ChunkLists[s] = Chunks(ram_segments[s])
         /\ Placed(ChunkLists, RamWrites, ChunkPlace)
<1>1. ram_segments \in Seq([addr: Address, data: Seq(Byte)])
  BY DEF PlanFacts, PlanInv, PlanTypeOK
<1>2. PICK n \in Nat : DOMAIN ram_segments = 1 .. n
  BY <1>1
<1>3. ASSUME NEW s \in 1 .. n PROVE Chunks(ram_segments[s]) \in Seq(ScriptCommand)
  <2>1. ram_segments[s].addr \in Address /\ ram_segments[s].data \in Seq(Byte)
    BY <1>2, RamSegmentType DEF PlanFacts
  <2> QED
    BY <2>1, ChunkFacts
<1>4. ChunkLists \in Seq(Seq(ScriptCommand))
  BY <1>2, <1>3 DEF ChunkLists
<1>5. RamWrites = FlattenSeq(ChunkLists)
  BY DEF RamWrites, ChunkLists
<1>6. RamWrites \in Seq(ScriptCommand) /\ \E at : Placed(ChunkLists, RamWrites, at)
  BY <1>4, <1>5, FlattenPlaces
<1>7. Placed(ChunkLists, RamWrites, ChunkPlace)
  BY <1>6, Zenon DEF ChunkPlace
<1> QED
  BY <1>6, <1>7 DEF ChunkLists

\* The page writes: one for each planned page.
LEMMA PageWriteFacts ==
  ASSUME PlanFacts
  PROVE  /\ PageWrites \in Seq(ScriptCommand)
         /\ DOMAIN PageWrites = DOMAIN Bases
         /\ \A j \in DOMAIN Bases : /\ j \in Nat \ {0}
                                    /\ Bases[j] \in DOMAIN flash_pages
                                    /\ PageWrites[j] = PageWrite(Bases[j])
         /\ \A b \in DOMAIN flash_pages : \E j \in DOMAIN Bases : Bases[j] = b
         /\ \A j, l \in DOMAIN Bases : Bases[j] = Bases[l] => j = l
         /\ \A b \in DOMAIN flash_pages :
              /\ b \in Nat
              /\ PageWrite(b) = [id |-> "WRITE", addr |-> b, size |-> PageSize,
                                 data |-> [o \in 1 .. PageSize |-> flash_pages[b][o - 1]]]
<1>1. PICK S : S = DOMAIN flash_pages
  OBVIOUS
<1>2. S \in SUBSET Int /\ IsFiniteSet(S) /\ S \subseteq Nat
  <2>1. S \subseteq 0 .. Word - 1
    BY <1>1 DEF PlanFacts, PlanInv, PlanTypeOK, Address
  <2>2. IsFiniteSet(0 .. Word - 1) /\ 0 .. Word - 1 \subseteq Nat
    BY MapNumbers, FS_Interval
  <2>3. IsFiniteSet(S)
    BY <2>1, <2>2, FS_Subset
  <2> QED
    BY <2>1, <2>2, <2>3
<1>3. PICK f : f = Ascending(S)
  OBVIOUS
<1>4. PICK n \in Nat : n = Cardinality(S)
  BY <1>2, AscendingLists
<1>5. /\ f \in [1 .. n -> S]
      /\ \A a \in S : \E k \in 1 .. n : f[k] = a
      /\ \A k, l \in 1 .. n : k < l => f[k] < f[l]
  BY <1>2, <1>3, <1>4, AscendingLists
<1>6. f = Bases
  BY <1>1, <1>3 DEF Bases
<1>7. \A b \in S : PageWrite(b) =
        [id |-> "WRITE", addr |-> b, size |-> PageSize,
         data |-> [o \in 1 .. PageSize |-> flash_pages[b][o - 1]]]
  BY MapNumbers DEF PageWrite, Write
<1>8. ASSUME NEW b \in S PROVE PageWrite(b) \in ScriptCommand
  <2>1. flash_pages[b] \in [0 .. PageSize - 1 -> Byte]
    BY <1>1 DEF PlanFacts, PlanInv, PlanTypeOK, Page
  <2>2. \A o \in 1 .. PageSize : o - 1 \in 0 .. PageSize - 1
    BY MapNumbers, SMT
  <2>3. [o \in 1 .. PageSize |-> flash_pages[b][o - 1]] \in Seq(Byte)
    BY <2>1, <2>2, MapNumbers
  <2>4. PageSize \in Nat
    BY MapNumbers
  <2> QED
    BY <1>2, <1>7, <2>3, <2>4 DEF ScriptCommand
<1>9. PageWrites = [k \in 1 .. n |-> PageWrite(f[k])]
  BY <1>1, <1>3, <1>5 DEF PageWrites, PageWrite
<1>10. PageWrites \in Seq(ScriptCommand)
  BY <1>5, <1>8, <1>9
<1>11. \A k, l \in 1 .. n : f[k] = f[l] => k = l
  <2> SUFFICES ASSUME NEW k \in 1 .. n, NEW l \in 1 .. n, f[k] = f[l], k # l
               PROVE  FALSE
    OBVIOUS
  <2>1. f[k] \in Int /\ f[l] \in Int
    BY <1>2, <1>5
  <2>2. k < l \/ l < k
    BY SMT
  <2> QED
    BY <1>5, <2>1, <2>2
<1>12. \A b \in S : b \in Nat
  BY <1>2
<1>13. \A k \in 1 .. n : k \in Nat \ {0} /\ f[k] \in S
  BY <1>5
<1>14. DOMAIN f = 1 .. n /\ DOMAIN PageWrites = 1 .. n
       /\ \A k \in 1 .. n : PageWrites[k] = PageWrite(f[k])
  BY <1>5, <1>9
<1> QED
  BY <1>1, <1>5, <1>6, <1>7, <1>10, <1>11, <1>12, <1>13, <1>14

\* Where the elements of two lists are after they are joined.
LEMMA OneAfterTheOther ==
  ASSUME NEW S, NEW x \in Seq(S), NEW y \in Seq(S)
  PROVE  /\ x \o y \in Seq(S) /\ Len(x \o y) = Len(x) + Len(y)
         /\ \A k \in DOMAIN x : k \in DOMAIN (x \o y) /\ (x \o y)[k] = x[k]
         /\ \A k \in DOMAIN y : /\ Len(x) + k \in DOMAIN (x \o y)
                               /\ (x \o y)[Len(x) + k] = y[k]
  OBVIOUS

\* The script is the erases, the RAM writes and the page writes, in that order.
LEMMA ScriptIsTyped ==
  ASSUME PlanFacts
  PROVE  /\ Script \in Seq(ScriptCommand)
         /\ Len(Erases) \in Nat /\ Len(RamWrites) \in Nat /\ Len(PageWrites) \in Nat
         /\ Len(Script) = Len(Erases) + Len(RamWrites) + Len(PageWrites)
         /\ \A k \in DOMAIN Erases : k \in DOMAIN Script /\ Script[k] = Erases[k]
         /\ \A k \in DOMAIN RamWrites : /\ Len(Erases) + k \in DOMAIN Script
                                        /\ Script[Len(Erases) + k] = RamWrites[k]
         /\ \A k \in DOMAIN PageWrites :
              /\ (Len(Erases) + Len(RamWrites)) + k \in DOMAIN Script
              /\ Script[(Len(Erases) + Len(RamWrites)) + k] = PageWrites[k]
<1>1. PICK x, y, z : x = Erases /\ y = RamWrites /\ z = PageWrites
  OBVIOUS
<1>2. /\ x \in Seq(ScriptCommand) /\ y \in Seq(ScriptCommand)
      /\ z \in Seq(ScriptCommand)
  BY <1>1, EraseFacts, RamWriteFacts, PageWriteFacts
<1>3. Script = (x \o y) \o z
  BY <1>1 DEF Script
<1>4. PICK xy : xy = x \o y
  OBVIOUS
<1>5. /\ xy \in Seq(ScriptCommand) /\ Len(xy) = Len(x) + Len(y)
      /\ \A k \in DOMAIN x : k \in DOMAIN xy /\ xy[k] = x[k]
      /\ \A k \in DOMAIN y : Len(x) + k \in DOMAIN xy /\ xy[Len(x) + k] = y[k]
  BY <1>2, <1>4, OneAfterTheOther
<1>6. PICK w : w = xy \o z
  OBVIOUS
<1>7. /\ w \in Seq(ScriptCommand) /\ Len(w) = Len(xy) + Len(z)
      /\ \A k \in DOMAIN xy : k \in DOMAIN w /\ w[k] = xy[k]
      /\ \A k \in DOMAIN z : Len(xy) + k \in DOMAIN w /\ w[Len(xy) + k] = z[k]
  <2>1. xy \in Seq(ScriptCommand) /\ z \in Seq(ScriptCommand)
    BY <1>2, <1>5
  <2> QED
    BY ONLY <2>1, <1>6, OneAfterTheOther
<1>8. Script = w
  BY <1>3, <1>4, <1>6
<1>9. Len(x) \in Nat /\ Len(y) \in Nat /\ Len(z) \in Nat
  BY <1>2
<1> QED
  BY <1>1, <1>5, <1>7, <1>8, <1>9

\* What stands where in the script.
LEMMA ScriptHas ==
  ASSUME PlanFacts
  PROVE  /\ \A k, m : IsErase(k, m) =>
              k \in DOMAIN Script /\ Script[k] = Erase(MergedRanges[m])
         /\ \A k, s, c : IsChunk(k, s, c) =>
              k \in DOMAIN Script /\ Script[k] = Chunks(ram_segments[s])[c]
         /\ \A k, b : IsPage(k, b) =>
              /\ b \in DOMAIN flash_pages
              /\ k \in DOMAIN Script /\ Script[k] = PageWrite(b)
<1>1. ASSUME NEW k, NEW m, IsErase(k, m)
      PROVE  k \in DOMAIN Script /\ Script[k] = Erase(MergedRanges[m])
  BY <1>1, EraseFacts, ScriptIsTyped DEF IsErase
<1>2. ASSUME NEW k, NEW s, NEW c, IsChunk(k, s, c)
      PROVE  k \in DOMAIN Script /\ Script[k] = Chunks(ram_segments[s])[c]
  <2>1. /\ s \in DOMAIN ChunkLists /\ c \in DOMAIN ChunkLists[s]
        /\ ChunkLists[s] = Chunks(ram_segments[s])
        /\ k = Len(Erases) + (ChunkPlace[s] + c)
    BY <1>2, RamWriteFacts DEF IsChunk
  <2>2. /\ ChunkPlace[s] + c \in DOMAIN RamWrites
        /\ RamWrites[ChunkPlace[s] + c] = Chunks(ram_segments[s])[c]
    BY <2>1, RamWriteFacts DEF Placed
  <2> QED
    BY <2>1, <2>2, ScriptIsTyped
<1>3. ASSUME NEW k, NEW b, IsPage(k, b)
      PROVE  /\ b \in DOMAIN flash_pages
             /\ k \in DOMAIN Script /\ Script[k] = PageWrite(b)
  <2>1. PICK j \in DOMAIN Bases :
          Bases[j] = b /\ k = (Len(Erases) + Len(RamWrites)) + j
    BY <1>3 DEF IsPage
  <2>2. j \in DOMAIN PageWrites /\ PageWrites[j] = PageWrite(b) /\ b \in DOMAIN flash_pages
    BY <2>1, PageWriteFacts
  <2> QED
    BY <2>1, <2>2, ScriptIsTyped
<1> QED
  BY <1>1, <1>2, <1>3

\* Every command is an erase, a chunk or a page, and all of these are there.
LEMMA ScriptKinds ==
  ASSUME PlanFacts
  PROVE  /\ \A k \in DOMAIN Script : \/ \E m : IsErase(k, m)
                                     \/ \E s, c : IsChunk(k, s, c)
                                     \/ \E b : IsPage(k, b)
         /\ \A m \in DOMAIN MergedRanges : IsErase(m, m)
         /\ \A s \in DOMAIN ram_segments : \A c \in DOMAIN Chunks(ram_segments[s]) :
              \E k : IsChunk(k, s, c)
         /\ \A b \in DOMAIN flash_pages : \E k : IsPage(k, b)
<1>1. PICK e \in Nat, r \in Nat, p \in Nat :
        /\ e = Len(Erases) /\ r = Len(RamWrites) /\ p = Len(PageWrites)
        /\ Len(Script) = e + r + p
  BY ScriptIsTyped
<1>2. DOMAIN Script = 1 .. e + r + p
  BY <1>1, ScriptIsTyped
<1>3. DOMAIN MergedRanges = 1 .. e /\ DOMAIN RamWrites = 1 .. r /\ DOMAIN Bases = 1 .. p
  BY <1>1, EraseFacts, RamWriteFacts, PageWriteFacts
<1>4. ASSUME NEW k \in DOMAIN Script
      PROVE  \/ \E m : IsErase(k, m)
             \/ \E s, c : IsChunk(k, s, c)
             \/ \E b : IsPage(k, b)
  <2>1. CASE k \in 1 .. e
    BY <2>1, <1>3 DEF IsErase
  <2>2. CASE k - e \in 1 .. r
    <3>1. PICK j \in 1 .. r : k = e + j
      <4>1. k = e + (k - e)
        BY <1>2, SMT
      <4> QED
        BY <2>2, <4>1
    <3>2. PICK s \in DOMAIN ChunkLists : \E c \in DOMAIN ChunkLists[s] :
            j = ChunkPlace[s] + c
      BY <1>3, RamWriteFacts DEF Placed
    <3>3. PICK c \in DOMAIN ChunkLists[s] : j = ChunkPlace[s] + c
      BY <3>2
    <3>4. IsChunk(k, s, c)
      BY <1>1, <3>1, <3>2, <3>3, RamWriteFacts DEF IsChunk
    <3> QED
      BY <3>4
  <2>3. CASE k - (e + r) \in 1 .. p
    <3>1. PICK j \in 1 .. p : k = (e + r) + j
      <4>1. k = (e + r) + (k - (e + r))
        BY <1>2, SMT
      <4> QED
        BY <2>3, <4>1
    <3>2. IsPage(k, Bases[j])
      BY <1>1, <1>3, <3>1 DEF IsPage
    <3> QED
      BY <3>2
  <2> QED
    BY <1>2, <2>1, <2>2, <2>3, SMT
<1>5. \A b \in DOMAIN flash_pages : \E k : IsPage(k, b)
  BY PageWriteFacts DEF IsPage
<1>6. \A s \in DOMAIN ram_segments : \A c \in DOMAIN Chunks(ram_segments[s]) :
        IsChunk(Len(Erases) + (ChunkPlace[s] + c), s, c)
  BY DEF IsChunk
<1> QED
  BY <1>4, <1>5, <1>6 DEF IsErase

\* Erases come before chunks and chunks before pages; chunks are in the order of
\* their segments, then of their bytes; a page is written once.
LEMMA ScriptOrder ==
  ASSUME PlanFacts
  PROVE  /\ \A k, m, l, s, c : IsErase(k, m) /\ IsChunk(l, s, c) => k < l
         /\ \A k, m, l, b : IsErase(k, m) /\ IsPage(l, b) => k < l
         /\ \A k, s, c, l, b : IsChunk(k, s, c) /\ IsPage(l, b) => k < l
         /\ \A k, s, c, l, t, d : IsChunk(k, s, c) /\ IsChunk(l, t, d) =>
              /\ s < t => k < l
              /\ s = t /\ c < d => k < l
              /\ s = t /\ c = d => k = l
         /\ \A k, l, b : IsPage(k, b) /\ IsPage(l, b) => k = l
<1>1. PICK e \in Nat, r \in Nat :
        /\ e = Len(Erases) /\ r = Len(RamWrites)
        /\ DOMAIN MergedRanges = 1 .. e /\ DOMAIN RamWrites = 1 .. r
  BY ScriptIsTyped, EraseFacts, RamWriteFacts
<1>2. ASSUME NEW k, NEW m, IsErase(k, m) PROVE k \in 1 .. e
  BY <1>1, <1>2 DEF IsErase
<1>3. ASSUME NEW k, NEW s, NEW c, IsChunk(k, s, c)
      PROVE  /\ k - e \in 1 .. r /\ k = e + (ChunkPlace[s] + c)
             /\ s \in Nat /\ c \in Nat \ {0} /\ ChunkPlace[s] \in Nat
             /\ s \in DOMAIN ChunkLists /\ c \in DOMAIN ChunkLists[s]
  <2>1. s \in DOMAIN ChunkLists /\ c \in DOMAIN ChunkLists[s]
    BY <1>3, RamWriteFacts DEF IsChunk
  <2>2. ChunkPlace[s] \in Nat /\ ChunkPlace[s] + c \in 1 .. r
    BY <1>1, <2>1, RamWriteFacts DEF Placed
  <2>3. s \in Nat
    BY <2>1, RamWriteFacts DEF PlanFacts, PlanInv, PlanTypeOK
  <2>4. c \in Nat \ {0}
    <3>1. ram_segments[s].addr \in Address /\ ram_segments[s].data \in Seq(Byte)
      BY <2>1, RamWriteFacts, RamSegmentType DEF PlanFacts
    <3>2. c \in DOMAIN Chunks(ram_segments[s])
      BY <1>3 DEF IsChunk
    <3> QED
      BY <3>1, <3>2, ChunkFacts
  <2>5. k = e + (ChunkPlace[s] + c)
    BY <1>1, <1>3 DEF IsChunk
  <2>6. k - e = ChunkPlace[s] + c
    BY <2>2, <2>4, <2>5, SMT
  <2> QED
    BY <2>1, <2>2, <2>3, <2>4, <2>5, <2>6
<1>4. ASSUME NEW k, NEW b, IsPage(k, b)
      PROVE  k \in Nat /\ e + r < k
  <2>1. PICK j \in DOMAIN Bases : k = (e + r) + j
    BY <1>1, <1>4 DEF IsPage
  <2>2. j \in Nat \ {0}
    BY PageWriteFacts
  <2> QED
    BY <2>1, <2>2, SMT
<1>5. ASSUME NEW k, NEW s, NEW c, NEW l, NEW t, NEW d,
             IsChunk(k, s, c), IsChunk(l, t, d)
      PROVE  /\ s < t => k < l
             /\ s = t /\ c < d => k < l
             /\ s = t /\ c = d => k = l
  <2>1. /\ k = e + (ChunkPlace[s] + c) /\ l = e + (ChunkPlace[t] + d)
        /\ c \in Nat \ {0} /\ d \in Nat \ {0}
        /\ ChunkPlace[s] \in Nat /\ ChunkPlace[t] \in Nat
        /\ s \in DOMAIN ChunkLists /\ c \in DOMAIN ChunkLists[s]
        /\ t \in DOMAIN ChunkLists
    BY <1>3, <1>5
  <2>2. s < t => ChunkPlace[s] + c <= ChunkPlace[t]
    BY <2>1, RamWriteFacts DEF Placed
  <2> QED
    BY <2>1, <2>2, SMT
<1>6. ASSUME NEW k, NEW l, NEW b, IsPage(k, b), IsPage(l, b) PROVE k = l
  <2>1. PICK i \in DOMAIN Bases : Bases[i] = b /\ k = (e + r) + i
    BY <1>1, <1>6 DEF IsPage
  <2>2. PICK j \in DOMAIN Bases : Bases[j] = b /\ l = (e + r) + j
    BY <1>1, <1>6 DEF IsPage
  <2>3. i = j
    BY <2>1, <2>2, PageWriteFacts
  <2> QED
    BY <2>1, <2>2, <2>3
<1>7. \A k, m, l, s, c : IsErase(k, m) /\ IsChunk(l, s, c) => k < l
  BY <1>2, <1>3, SMT
<1>8. \A k, m, l, b : IsErase(k, m) /\ IsPage(l, b) => k < l
  BY <1>2, <1>4, SMT
<1>9. \A k, s, c, l, b : IsChunk(k, s, c) /\ IsPage(l, b) => k < l
  BY <1>3, <1>4, SMT
<1> QED
  BY <1>5, <1>6, <1>7, <1>8, <1>9

=============================================================================
