------------------------------ MODULE LoadPlan ------------------------------
(***************************************************************************)
(* What dapico-load makes of an ELF image before it talks to the device:   *)
(* the loop over the program headers in main(), which sorts the segments   *)
(* into RAM writes, flash pages and erase ranges.                          *)
(*                                                                         *)
(* An image is abstracted to what the loop looks at.  Byte number j of     *)
(* segment number i is the pair <<i, j>>, so a byte that ends up at the    *)
(* wrong address, or is overwritten by another segment, can be told apart. *)
(* `parses' says that elf_file::read_file accepts the file and `readable'  *)
(* that elf_file::content accepts the segment.                             *)
(***************************************************************************)
EXTENDS MemoryMap, MergeRanges

CONSTANTS
  Images,      \* the images the runs load
  ChunkSize    \* the 1024 bytes of one RAM write

Segment == [load: BOOLEAN, readable: BOOLEAN,
            paddr: Address, vaddr: Address, filez: Nat]
Image   == [parses: BOOLEAN, entry: Address, segments: Seq(Segment)]

ASSUME ChunkIsPositive == ChunkSize \in Nat \ {0}
ASSUME ImagesAreImages == \A im \in Images : im \in Image

(***************************************************************************)
(* No segment is as long as the some 3.5 GiB at which the end of a flash   *)
(* segment, rounded up, or that of its mirror would wrap.  The code does   *)
(* not check this; elf_file::content bounds a segment by the size of the   *)
(* file, as long as offset + filez does not wrap either.                   *)
(***************************************************************************)
ASSUME SegmentsEndInTheWord ==
  \A im \in Images : \A i \in DOMAIN im.segments :
    /\ FlashEndRp2350 + im.segments[i].filez + SectorSize <= Word
    /\ SramStart + (FlashEndRp2350 - FlashStart) + im.segments[i].filez <= Word

VARIABLES
  image, product, allow_flash,   \* the inputs: file, device found, --flash
  plan,                          \* how far the planning has come
  next,                          \* the segment the loop looks at
  ram_segments, flash_pages, flash_erase_ranges,
  mirrored_flash_segments, skipped_flash_segments

input == <<image, product, allow_flash>>
segment_data == <<ram_segments, flash_pages, flash_erase_ranges>>
planVars == <<input, plan, next, segment_data,
              mirrored_flash_segments, skipped_flash_segments>>

layout == memory_layout_for_product(product)

Padding == <<0, 0>>    \* the 0 that page.assign fills a new page with

content(i) ==
  [j \in 1 .. image.segments[i].filez |-> <<i, j - 1>>]

-----------------------------------------------------------------------------
(* The loop over elf.segments(). *)

PlanInit ==
  /\ image \in Images
  /\ product \in Product
  /\ allow_flash \in BOOLEAN
  /\ plan = "parse"
  /\ next = 1
  /\ ram_segments = <<>>
  /\ flash_pages = [b \in {} |-> <<>>]
  /\ flash_erase_ranges = <<>>
  /\ mirrored_flash_segments = FALSE
  /\ skipped_flash_segments = FALSE

\* Mutant of Throw: the exception ends the loop, but not the load.
ThrowEndsLoop ==
  /\ plan' = "planned"
  /\ UNCHANGED <<input, next, segment_data,
                 mirrored_flash_segments, skipped_flash_segments>>

\* the runtime_error of read_file or content, or the one for a missing address
Throw ==
  /\ plan' = "rejected"
  /\ UNCHANGED <<input, next, segment_data,
                 mirrored_flash_segments, skipped_flash_segments>>

ReadElf ==
  /\ plan = "parse"
  /\ image.parses
  /\ plan' = "scan"
  /\ UNCHANGED <<input, next, segment_data,
                 mirrored_flash_segments, skipped_flash_segments>>

RejectElf == plan = "parse" /\ ~ image.parses /\ Throw

AtSegment(segment) ==
  /\ plan = "scan"
  /\ next <= Len(image.segments)
  /\ segment = image.segments[next]

Loadable(segment) == segment.load /\ segment.filez # 0

SkipSegment(segment) ==
  /\ AtSegment(segment)
  /\ ~ Loadable(segment)
  /\ next' = next + 1
  /\ UNCHANGED <<input, plan, segment_data,
                 mirrored_flash_segments, skipped_flash_segments>>

RejectSegment(segment) ==
  /\ AtSegment(segment)
  /\ Loadable(segment)
  /\ segment_address(segment) = 0 \/ ~ segment.readable
  /\ Throw

\* the loop has the address and the content of the segment
HasContent(segment) ==
  /\ AtSegment(segment)
  /\ Loadable(segment)
  /\ segment_address(segment) # 0
  /\ segment.readable
  /\ next' = next + 1
  /\ UNCHANGED <<input, plan>>

RamSegment(segment) ==
  LET addr == segment_address(segment)
  IN  /\ HasContent(segment)
      /\ ~ is_flash_address(addr, layout)
      /\ ram_segments' = Append(ram_segments,
                                [addr |-> addr, data |-> content(next)])
      /\ UNCHANGED <<flash_pages, flash_erase_ranges,
                     mirrored_flash_segments, skipped_flash_segments>>

MirrorSegment(segment) ==
  LET addr == segment_address(segment)
  IN  /\ HasContent(segment)
      /\ is_flash_address(addr, layout) /\ ~ allow_flash
      /\ maps_to_sram(addr, segment.filez, layout)
      /\ mirrored_flash_segments' = TRUE
      /\ ram_segments' = Append(ram_segments, [addr |-> sram_mirror(addr),
                                               data |-> content(next)])
      /\ UNCHANGED <<flash_pages, flash_erase_ranges, skipped_flash_segments>>

SkipFlashSegment(segment) ==
  LET addr == segment_address(segment)
  IN  /\ HasContent(segment)
      /\ is_flash_address(addr, layout) /\ ~ allow_flash
      /\ ~ maps_to_sram(addr, segment.filez, layout)
      /\ skipped_flash_segments' = TRUE
      /\ UNCHANGED <<segment_data, mirrored_flash_segments>>

\* Mutants of PagesWith: without page.assign, and starting shared pages over.
PagesWithUnassigned(addr, data) ==
  LET Base(j) == align_down(Plus(addr, j - 1), PageSize)
      Offset(j) == Plus(addr, j - 1) - Base(j)
      bases == {Base(j) : j \in DOMAIN data}
  IN  [b \in DOMAIN flash_pages \cup bases |->
         [offset \in {Offset(j) : j \in {k \in DOMAIN data : Base(k) = b}}
            |-> Padding]]

PagesWithRestarted(addr, data) ==
  LET Target(j) == Plus(addr, j - 1)
      bases == {align_down(Target(j), PageSize) : j \in DOMAIN data}
  IN  [b \in DOMAIN flash_pages \cup bases |->
         IF b \in bases
           THEN [offset \in 0 .. PageSize - 1 |->
                   IF \E j \in DOMAIN data : Target(j) = b + offset
                     THEN data[CHOOSE j \in DOMAIN data : Target(j) = b + offset]
                     ELSE Padding]
           ELSE flash_pages[b]]

\* the pages after the byte loop: pages met for the first time start as padding
PagesWith(addr, data) ==
  LET Target(j) == Plus(addr, j - 1)
      bases == {align_down(Target(j), PageSize) : j \in DOMAIN data}
      Hits(a) == {j \in DOMAIN data : Target(j) = a}
  IN  [b \in DOMAIN flash_pages \cup bases |->
         [offset \in 0 .. PageSize - 1 |->
            IF Hits(b + offset) # {}
              THEN data[CHOOSE j \in Hits(b + offset) : TRUE]
            ELSE IF b \in DOMAIN flash_pages
              THEN flash_pages[b][offset]
            ELSE Padding]]

\* Mutant of EraseRange: the end is not rounded up to a sector.
EraseRangeUnrounded(addr, size) ==
  [start |-> align_down(addr, SectorSize), end |-> Plus(addr, size)]

EraseRange(addr, size) ==
  [start |-> align_down(addr, SectorSize),
   end   |-> align_up(Plus(addr, size), SectorSize)]

FlashSegment(segment) ==
  LET addr == segment_address(segment)
  IN  /\ HasContent(segment)
      /\ is_flash_address(addr, layout) /\ allow_flash
      /\ flash_erase_ranges' = Append(flash_erase_ranges,
                                      EraseRange(addr, segment.filez))
      /\ flash_pages' = PagesWith(addr, content(next))
      /\ UNCHANGED <<ram_segments,
                     mirrored_flash_segments, skipped_flash_segments>>

\* after the loop: without --flash an image with nothing for the RAM is refused
FinishPlan ==
  /\ plan = "scan"
  /\ next > Len(image.segments)
  /\ plan' = IF ~ allow_flash /\ DOMAIN flash_pages = {} /\ ram_segments = <<>>
               THEN "rejected" ELSE "planned"
  /\ UNCHANGED <<input, next, segment_data,
                 mirrored_flash_segments, skipped_flash_segments>>

PlanSegment(segment) ==
  \/ SkipSegment(segment)
  \/ RejectSegment(segment)
  \/ RamSegment(segment)
  \/ MirrorSegment(segment)
  \/ SkipFlashSegment(segment)
  \/ FlashSegment(segment)

PlanNext ==
  \/ ReadElf
  \/ RejectElf
  \/ \E segment \in ToSet(image.segments) : PlanSegment(segment)
  \/ FinishPlan

PlanSpec == PlanInit /\ [][PlanNext]_planVars

-----------------------------------------------------------------------------
(* What the planned work is, as the commands main() will issue. *)

\* Mutant of Erases: the length of a range is taken the wrong way round.
ErasesBackwards ==
  LET merged == merge_ranges(flash_erase_ranges)
  IN  [k \in DOMAIN merged |->
         [id |-> "FLASH_ERASE", addr |-> merged[k].start, data |-> <<>>,
          size |-> merged[k].start - merged[k].end]]

Erases ==
  LET merged == merge_ranges(flash_erase_ranges)
  IN  [k \in DOMAIN merged |->
         [id |-> "FLASH_ERASE", addr |-> merged[k].start, data |-> <<>>,
          size |-> merged[k].end - merged[k].start]]

Write(addr, data) ==
  [id |-> "WRITE", addr |-> addr, data |-> data, size |-> Len(data)]

\* Mutant of Chunks: the remainder is forgotten.
ChunksWhole(segment) ==
  [k \in 1 .. Len(segment.data) \div ChunkSize |->
     Write(Plus(segment.addr, (k - 1) * ChunkSize),
           SubSeq(segment.data, (k - 1) * ChunkSize + 1, k * ChunkSize))]

\* one write per chunk: ChunkSize bytes, the last one what is left
Chunks(segment) ==
  LET size   == Len(segment.data)
      At(k)  == (k - 1) * ChunkSize
      Upto(k) == IF k * ChunkSize <= size THEN k * ChunkSize ELSE size
  IN  [k \in 1 .. (size + ChunkSize - 1) \div ChunkSize |->
         Write(Plus(segment.addr, At(k)),
               SubSeq(segment.data, At(k) + 1, Upto(k)))]

RamWrites ==
  FlattenSeq([k \in DOMAIN ram_segments |-> Chunks(ram_segments[k])])

\* std::map iterates its keys in ascending order
PageWrites ==
  LET bases == Ascending(DOMAIN flash_pages)
  IN  [k \in DOMAIN bases |->
         Write(bases[k], [o \in 1 .. PageSize |-> flash_pages[bases[k]][o - 1]])]

\* Mutant of Script: the sectors are erased after the pages are written.
ScriptErasesLast == RamWrites \o PageWrites \o Erases

Script == Erases \o RamWrites \o PageWrites

(***************************************************************************)
(* main() line 607: with flash writes off an entry point in flash is moved *)
(* to its mirror.  entry_error is the case where main() gives up.          *)
(***************************************************************************)
entry_in_flash == is_flash_address(image.entry, layout)

entry_error ==
  \/ image.entry = 0
  \/ /\ ~ allow_flash
     /\ IF entry_in_flash
          THEN ~ maps_to_sram(image.entry, 4, layout)
          ELSE ~ is_sram_address(image.entry, layout)

exec_addr ==
  IF ~ allow_flash /\ entry_in_flash THEN sram_mirror(image.entry)
                                     ELSE image.entry

-----------------------------------------------------------------------------
(* Properties of the plan. *)

Byte    == Nat \X Nat
Range32 == [start: Address, end: Address]
Page    == [0 .. PageSize - 1 -> Byte]

PlanTypeOK ==
  /\ image \in Image
  /\ product \in Product
  /\ allow_flash \in BOOLEAN
  /\ plan \in {"parse", "scan", "planned", "rejected"}
  /\ next \in Nat \ {0}
  /\ ram_segments \in Seq([addr: Address, data: Seq(Byte)])
  /\ DOMAIN flash_pages \subseteq Address
  /\ flash_pages \in [DOMAIN flash_pages -> Page]
  /\ flash_erase_ranges \in Seq(Range32)
  /\ mirrored_flash_segments \in BOOLEAN
  /\ skipped_flash_segments \in BOOLEAN

\* Every page that will be programmed lies in a range that will be erased: a
\* byte loop that outruns the erase range would program unerased flash.
PagesErased ==
  \A b \in DOMAIN flash_pages :
    \E k \in DOMAIN flash_erase_ranges :
      /\ flash_erase_ranges[k].start <= b
      /\ b + PageSize <= flash_erase_ranges[k].end

\* the segments sent to the flash so far, and the last of them to claim an address
FlashSeen ==
  {i \in 1 .. next - 1 :
     /\ allow_flash
     /\ Loadable(image.segments[i])
     /\ is_flash_address(segment_address(image.segments[i]), layout)}

Covers(i, a) ==
  LET s == image.segments[i]
  IN  segment_address(s) <= a /\ a < segment_address(s) + s.filez

LastByteAt(candidates, a) ==
  LET claim == {i \in candidates : Covers(i, a)}
      top   == CHOOSE i \in claim : \A k \in claim : k <= i
  IN  IF claim = {} THEN Padding
      ELSE <<top, a - segment_address(image.segments[top])>>

\* Every planned page holds exactly the bytes of the image that fall into it,
\* the last segment winning, and zeros where no segment has a byte: pages that
\* several segments share are completed, not started over.
PagesHoldImage ==
  \A b \in DOMAIN flash_pages : \A offset \in 0 .. PageSize - 1 :
    flash_pages[b][offset] = LastByteAt(FlashSeen, b + offset)

\* Nothing but the sectors the image has bytes in is erased, and the merged
\* ranges are in order and do not touch: neighbouring data in flash survives.
EraseIsTight ==
  LET merged == merge_ranges(flash_erase_ranges)
  IN  /\ \A k \in DOMAIN merged :
           \A sector \in {a \in merged[k].start .. merged[k].end - 1 :
                            a % SectorSize = 0} :
             \E a \in sector .. sector + SectorSize - 1, i \in FlashSeen :
               Covers(i, a)
      /\ \A k \in 2 .. Len(merged) : merged[k - 1].end < merged[k].start

\* Without --flash nothing is planned for the flash, and whatever was mirrored
\* lies inside the SRAM of the device that was found.
MirrorStaysInSram ==
  ~ allow_flash =>
    /\ DOMAIN flash_pages = {} /\ flash_erase_ranges = <<>>
    /\ \A k \in DOMAIN ram_segments :
         LET s == ram_segments[k]
             from == segment_address(image.segments[s.data[1][1]])
         IN  is_flash_address(from, layout) =>
               /\ SramStart <= s.addr
               /\ s.addr + Len(s.data) <= layout.sram_end
               /\ s.addr - SramStart = from - FlashStart

=============================================================================
