------------------------------- MODULE DryRun -------------------------------
(***************************************************************************)
(* dapico-load --dryrun: run_dryrun() goes through the same image without  *)
(* a device.  It has the ELF reader in common with main(): the helpers,    *)
(* the loop over the segments and the choice of the entry point are        *)
(* copies, written for the RP2040 only.  Here they are translated from     *)
(* dryrun.cpp, the helpers too, with the loop as a recursive function of   *)
(* the segments that are behind it, and held against the plan LoadPlan     *)
(* makes of the same image for the device it finds.  Of the other modules' *)
(* definitions it uses the sum of two uint32_t, the order of a std::map    *)
(* and the result of std::sort.                                            *)
(***************************************************************************)
EXTENDS LoadPlan

dry_align_down(value, align) == value - (value % align)
dry_align_up(value, align) == dry_align_down(Plus(value, align - 1), align)

DryInFlash(addr) == FlashStart <= addr /\ addr < FlashEndRp2040
DryInSram(addr)  == SramStart <= addr /\ addr < SramEndRp2040

dry_segment_address(segment) ==
  IF segment.paddr # 0 THEN segment.paddr ELSE segment.vaddr

dry_mapped(addr) == Plus(SramStart, addr - FlashStart)

\* Mutant of DryMapsToSram: only the start has to fit.
DryStartMapsToSram(addr, size) ==
  addr >= FlashStart /\ dry_mapped(addr) \in SramStart .. SramEndRp2040 - 1

DryMapsToSram(addr, size) ==
  /\ addr >= FlashStart
  /\ dry_mapped(addr) >= SramStart
  /\ Plus(dry_mapped(addr), size) <= SramEndRp2040

\* dryrun.cpp's merge_ranges, a second loop over ranges sorted by their starts
DryAbsorb(merged, range) ==
  IF range.start > Last(merged).end
    THEN Append(merged, range)
    ELSE [merged EXCEPT ![Len(merged)].end =
            IF @ < range.end THEN range.end ELSE @]

DryMerge(ranges) ==
  LET sorted == sort_by_start(ranges)
      merged[k \in DOMAIN ranges] ==
        IF k = 1 THEN <<sorted[1]>> ELSE DryAbsorb(merged[k - 1], sorted[k])
  IN  IF ranges = <<>> THEN <<>> ELSE merged[Len(ranges)]

-----------------------------------------------------------------------------
(* The loop over elf.segments(); pages are known by their base addresses.  *)

DryStart == [ram |-> <<>>, pages |-> {}, ranges |-> <<>>,
             mirrored |-> FALSE, skipped |-> FALSE]

DryRam(found, addr, size) ==
  [found EXCEPT !.ram = Append(@, [addr |-> addr, size |-> size])]

DryFlash(found, addr, size) ==
  [found EXCEPT
     !.ranges = Append(@, [start |-> dry_align_down(addr, SectorSize),
                           end   |-> dry_align_up(Plus(addr, size), SectorSize)]),
     !.pages  = @ \cup {dry_align_down(Plus(addr, j), PageSize) : j \in 0 .. size - 1}]

DryContent(found, addr, size, flash) ==
  IF ~ DryInFlash(addr) THEN DryRam(found, addr, size)
  ELSE IF flash         THEN DryFlash(found, addr, size)
  ELSE IF DryMapsToSram(addr, size)
    THEN [DryRam(found, dry_mapped(addr), size) EXCEPT !.mirrored = TRUE]
    ELSE [found EXCEPT !.skipped = TRUE]

\* what the loop does not pass over
DryLoadable(segment) == segment.load /\ segment.filez # 0

\* one turn of the loop
DrySegment(found, segment, flash) ==
  IF DryLoadable(segment)
    THEN DryContent(found, dry_segment_address(segment), segment.filez, flash)
    ELSE found

\* an exception ends the run, so it does not matter which segment throws
DryThrows(im) ==
  \/ ~ im.parses
  \/ \E n \in DOMAIN im.segments :
       /\ DryLoadable(im.segments[n])
       /\ dry_segment_address(im.segments[n]) = 0 \/ ~ im.segments[n].readable

\* what is found in the first n segments, and in all of them
DryFound(im, flash) ==
  LET found[n \in 0 .. Len(im.segments)] ==
        IF n = 0 THEN DryStart
        ELSE DrySegment(found[n - 1], im.segments[n], flash)
  IN  found[Len(im.segments)]

-----------------------------------------------------------------------------
(* What it prints: a line for a command, in the order of the lines.        *)

Line(id, addr, size) == [id |-> id, addr |-> addr, size |-> size]

DryLines(found) ==
  LET merged == DryMerge(found.ranges)
      bases  == Ascending(found.pages)
  IN  (IF found.pages = {} THEN <<>>
       ELSE <<Line("EXIT_XIP", 0, 0)>>
              \o [k \in DOMAIN merged |->
                    Line("FLASH_ERASE", merged[k].start,
                         merged[k].end - merged[k].start)])
      \o [k \in DOMAIN found.ram |->
            Line("WRITE", found.ram[k].addr, found.ram[k].size)]
      \o [k \in DOMAIN bases |-> Line("WRITE", bases[k], PageSize)]

DryEntryRefused(im, flash) ==
  \/ im.entry = 0
  \/ /\ ~ flash
     /\ IF DryInFlash(im.entry) THEN ~ DryMapsToSram(im.entry, 4)
                                ELSE ~ DryInSram(im.entry)

DryExec(im, flash) ==
  Line("EXEC",
       IF ~ flash /\ DryInFlash(im.entry) THEN dry_mapped(im.entry) ELSE im.entry,
       0)

Refused == [code |-> 1, lines |-> <<>>, mirrored |-> FALSE, skipped |-> FALSE]

\* the exit code and the lines of one dry run
run_dryrun(im, flash, exec_after) ==
  LET found == DryFound(im, flash)
      lines == DryLines(found)
      done  == [code |-> 0, lines |-> lines,
                mirrored |-> found.mirrored, skipped |-> found.skipped]
  IN  IF \/ DryThrows(im)
         \/ ~ flash /\ found.pages = {} /\ found.ram = <<>>
        THEN Refused
      ELSE IF ~ exec_after THEN done
      ELSE IF DryEntryRefused(im, flash) THEN [done EXCEPT !.code = 1]
      ELSE [done EXCEPT !.lines = Append(@, DryExec(im, flash))]

-----------------------------------------------------------------------------
(* The same, as main() would do it with the device.                        *)

\* a command byte by byte, so that it does not matter how a write is cut up
Bytes(command) ==
  IF command.size = 0 THEN << <<command.id, command.addr>> >>
  ELSE [j \in 1 .. command.size |->
          <<command.id, Plus(command.addr, j - 1)>>]

Effect(commands) == FlattenSeq([k \in DOMAIN commands |-> Bytes(commands[k])])

LoadEffect(exec_after) ==
  (IF DOMAIN flash_pages = {} THEN <<>> ELSE Effect(<<Line("EXIT_XIP", 0, 0)>>))
    \o Effect(Script)
    \o (IF exec_after /\ ~ entry_error
          THEN Effect(<<Line("EXEC", exec_addr, 0)>>) ELSE <<>>)

-----------------------------------------------------------------------------
(* Properties. *)

(***************************************************************************)
(* The two address maps treat a piece of the image alike.  On an RP2040    *)
(* they always do; on an RP2350 not where its flash or SRAM is larger.     *)
(***************************************************************************)
TreatedAlike(addr, size) ==
  LET dry == memory_layout_for_product("rp2040")
  IN  /\ is_flash_address(addr, dry) = is_flash_address(addr, layout)
      /\ is_sram_address(addr, dry) = is_sram_address(addr, layout)
      /\ is_flash_address(addr, dry) =>
           maps_to_sram(addr, size, dry) = maps_to_sram(addr, size, layout)

DryRunApplies ==
  /\ TreatedAlike(image.entry, 4)
  /\ \A n \in DOMAIN image.segments :
       Loadable(image.segments[n]) =>
         TreatedAlike(segment_address(image.segments[n]), image.segments[n].filez)

\* What --dryrun announces is what the load does: the same erases, RAM writes,
\* page writes and entry point, byte for byte and in the same order, and it
\* fails where main() gives up without a fault of the device.  The second copy
\* of the planner has not drifted from the first.
DryRunPredictsLoad ==
  DryRunApplies =>
    \A exec_after \in BOOLEAN :
      LET dry == run_dryrun(image, allow_flash, exec_after)
      IN  /\ plan = "rejected" => dry = Refused
          /\ plan = "planned" =>
               /\ dry.code = IF exec_after /\ entry_error THEN 1 ELSE 0
               /\ Effect(dry.lines) = LoadEffect(exec_after)
               /\ dry.mirrored = mirrored_flash_segments
               /\ dry.skipped = skipped_flash_segments

=============================================================================
