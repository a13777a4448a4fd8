# dapico-tools in TLA+

`dapico-load` puts an ELF image into the RAM or the flash of a Raspberry Pi
RP2040/RP2350 that is in BOOTSEL mode, over the PICOBOOT USB interface, and
starts it. `dapico-reboot` takes a running board into BOOTSEL mode or reboots a
board that is in it. This directory holds the TLA+ model of both programs, the
TLC configurations that check it on small instances, and TLAPS proofs of some
of its properties for every value of the constants. `PROJECT.json` maps every
definition to its source lines and lists the hazards, each with the properties
that would catch it.

    tlc -workers 2 -config MCLoader.cfg MCLoader      # one run
    tlapm LoaderProofs.tla                            # one proof module

## 1. The system

Both programs are single-threaded macOS command line tools of one source file
each (plus an ELF reader and a dry run). What makes them hard is the other side:
a device that acts on its own, a cable that breaks between any two transfers,
and calls that report failure for things that have happened or will happen
later. Nothing is persisted by the programs; what survives a run is the
device's memory, the state of its endpoints, and a command it is still at.

| component | source | state | operations |
|---|---|---|---|
| command lines | the top of both `main()`s | `filename`, the switches | one iteration per argument |
| device scan | `find_device` of both tools | open handles, matched interfaces | nested loops over devices and interfaces |
| address map | `dapico-load/src/main.cpp:19-46, 359-420` | none | `align_down`, `align_up`, `memory_layout_for_product`, `is_flash_address`, `map_flash_to_sram`, `segment_address` |
| ELF reader | `dapico-load/src/elf.cc` | file bytes, headers, segments | `read_file`, `content` |
| load planner | `main()` of dapico-load, the segment loop, and `merge_ranges` | `ram_segments`, `flash_pages`, `flash_erase_ranges`, two flags | one iteration per program header, the merge of the erases |
| dry run | `dapico-load/src/dryrun.cpp` | its own plan | prints what a load would do |
| command link | `send_picoboot_command` and the `picoboot_*` wrappers | the static token counter; on the device the endpoint states and the status of the last command | command, data and acknowledgement transfer; interface reset; status query |
| loader main program | `main()` of dapico-load | `ret`, position, open handles | find, reset, plan, exit XIP, erase, write RAM, write pages, execute, close |
| device | boot ROM, external; interface in `include/boot/picoboot.h` | flash, SRAM, started program | carries out or rejects commands |
| dapico-reboot | its `main()` | `ret`, what was matched and requested | reset request, `PC_REBOOT`/`PC_REBOOT2`, report, close |
| build, release | CMake, `.github`, `Formula`, `scripts` | - | - |

How they meet:

- `main()` reads its arguments in one loop and then scans, prints help, ends with
  an error, or (dapico-load) makes a dry run without a device.
- `main()` of dapico-load scans for a device, resets its interface, and only
  then reads the file. The planner fills three containers; `main()` turns them
  into commands in a fixed order: all erases, merged, all RAM writes in chunks of
  1024 bytes, all flash pages in address order, EXEC. One `ret` variable guards
  every later step.
- The dry run goes through the same image with copies of the planner's helpers
  and of its loop, written for the RP2040.
- A command is up to three USB transfers, each with its own timeout; the first
  that fails ends the call. The device executes the command in between, at its
  own pace. A failed EXEC is followed by a status query.
- The scan leaves open exactly what the rest of `main()` uses and closes at the
  end; every other path through its two loops must close what it opened.

What is hard:

- *late and lost effects*: a call may fail and its command be carried out
  anyway, before or after the failure is reported, while `main()` may already
  have sent the next one (it ignores a failed EXIT_XIP);
- *killed runs*: endpoints may be stalled or half-way through a transfer, and the
  device may still carry out a command of the run before;
- *partial failure*: each of three nested loops must stop the ones after it, and
  a bad segment must stop the good ones before it;
- *stale state*: the status of the last command may be another command's;
- *numeric edges*: sector, page and chunk boundaries, ends of the memories and of
  the file, strides, sums of `uint32_t`;
- *shared structure*: segments that share a page, erase ranges that touch and
  reach the merge in an order an unstable sort chose, a mirrored segment that
  meets a native one;
- *copies*: two planners, two scans, two command functions that must agree.

What makes each component correct:

- command lines: nothing starts on a word that was not understood, and no good
  command line is refused;
- scan: first usable device, no interface overlooked, no handle leaked or closed
  twice;
- ELF reader: exactly the complete files are accepted, and read whole;
- planner: every page is complete and will be erased first, nothing else is
  erased, mirrors stay inside the SRAM;
- dry run: it announces what the load would do;
- command link: at most once, in order, success only for what was carried out;
- loader: success means the image is in memory, nothing starts before it is,
  no foreign data is touched even on failure, a refused image leaves no trace,
  the run ends, and a good load into a healthy device succeeds;
- reboot: what is said of a boot ROM fits what that got, and a reboot it announces
  comes. Of a request to a reset interface nothing of the kind can be checked
  (section 5).

## 2. The modules

    CommandLine ----+
    DeviceScan -----+-- FrontEnd -- MCFrontEnd
        |
        +---------------+
    Picoboot -----------+-- Reboot -- MCReboot
        |
        +---------------+
    LoadPlan -----------+-- Loader -- MCLoader
        |
        +-- PlannedErases (with MergeLoop) --+
        +-- DryRun --------------------------+-- MCLoadPlan

    MemoryMap -- LoadPlan        MemoryMap -- ElfFile -- MCElfFile
    MergeRanges -- LoadPlan      MergeRanges -- MergeLoop
    CommandService <~ Picoboot

(`A -- B`: B extends A. `A <~ B`: B implements A.)

**MemoryMap** - the helpers at the top of `main.cpp`, on addresses modulo
`Word`. The source's numbers are constants; `LayoutAssumption` states what is
used of them: a sector is a whole number of pages, flash lies below SRAM, the
RP2040's memories are not larger than the RP2350's, and the mirror of the last
flash address is below `Word`. `map_flash_to_sram` answers through a `bool` and
an out-parameter and is split into `maps_to_sram` and `sram_mirror`.

**MergeRanges, MergeLoop** - `merge_ranges` twice. MergeRanges has the body of
its loop (`Absorb`) and the whole as an operator, a stable sort by start
(`sort_by_start`) and a recursive function over its result, which the planner's
`Script` uses. `Ascending` is the order in which a `std::map` iterates. MergeLoop is the loop with its state behind `std::sort`,
which orders by `start` alone and is not stable: the sort is a choice among all
orders it may leave.

**LoadPlan** - the segment loop, one action per branch: `ReadElf`/`RejectElf`,
`SkipSegment`, `RejectSegment` (the exceptions), `RamSegment`, `MirrorSegment`,
`SkipFlashSegment`, `FlashSegment`, then `FinishPlan` (the check for an empty
plan). The variables are the source's containers. Byte number *j* of segment *i*
is the pair `<<i, j>>`, so a byte that is misplaced or overwritten can be told
from the right one. `flash_pages` is a function from base addresses to pages, as
the `std::map` is. `Script` is the sequence of commands the three loops of
`main()` issue, `exec_addr` and `entry_error` the treatment of the entry point.

**PlannedErases** - LoadPlan followed by `main()`'s call of `merge_ranges` on the
ranges it has collected.

**DryRun** - `run_dryrun()` with its loop as a recursive function of the segments
(`DrySegment` is one turn), translated from `dryrun.cpp` with its own copies of
the helpers (`dry_align_down`, `dry_segment_address`, `DryMapsToSram`, ...). What
it shares with the load is what the two programs share: the image, as the ELF
reader finds it, and the results of `std::sort` and of iterating over a
`std::map`. Its result is an exit code and the lines it prints, a line being a
command with its address and size.
`LoadEffect` is the same for the load: EXIT_XIP, `Script` and EXEC. Both are
compared byte by byte, because the load cuts a RAM write into chunks and the dry
run prints one line for it.

**CommandLine** - both argument loops, with `program` for their differences. An
argument is an option of either program or one of `Others`, among them the empty
word, which `filename.empty()` does not tell from no file name at all. What a
program has no case for is `Unknown` to it, the other's switches included: the
loader takes `--bootsel` for a file name. `outcome` is what runs
next or the exit code.

**DeviceScan** - both `find_device` functions with one skeleton and the variable
`tool` for their differences (products accepted, interfaces visited, when the
inner loop breaks). `opened` counts the openings minus the closings of every
handle; `refused` is what could not be opened. `CloseAll` is the end of `main()`.

**FrontEnd** - CommandLine composed with DeviceScan: the scan runs when the
arguments ask for it.

**ElfFile** - `read_file` and the check of `content`. A file is its size, what
its header says, and the entry a program header would be at each of its bytes;
so a reader that uses another base or stride reads other entries. Positions are
`size_t` and do not wrap; `offset + filez` is a sum of `uint32_t` and does.
LoadPlan's inputs `parses` and `readable` are what this module decides.

**CommandService** - the abstract promise of `send_picoboot_command`: calls are
numbered, commands are carried out at most once and in the order of their calls,
"ok" is answered only for a command that was carried out, "failed" promises
nothing.

**Picoboot** - `send_picoboot_command` with the device's endpoints. The host is
at a `stage` (idle, command, data, ack, returned) and has a token counter; the
device is in a state `dpc` (ready, waiting for data, busy, acknowledgement
pending, stalled, gone). `TransferSucceeds`, `TransferFails` (the device cannot
serve the transfer: stalled, gone, or busy until the timeout) and
`TransferBreaks` (a bus error; the transfer may or may not have reached the
device) are the three outcomes of a transfer; `Execute`, `Reject` and `Unplug`
are the device's own steps and may come at any time, so a command can finish
after the call has timed out. A run that was killed may have left the device in
any endpoint state, also busy with one of its `Leftovers`, whose token is 0.
`LinkIsService` is the refinement of CommandService.

**Loader** - `main()` from `find_device` to its exit code, composed of LoadPlan
and Picoboot, with the device's memory. `pc` is the part of `main()`;
`CallNext`/`AfterNext` walk through `Script`, `CallExitXip`/`AfterExitXip` and
`CallExec`/`AfterExec` are the commands with their own error handling,
`QueryStatus` is `picoboot_get_cmd_status`. The device accepts aligned erases
inside the flash and writes inside the SRAM or, at a page boundary, the flash; a
flash byte programmed without an erase becomes `Mixed`, a byte changed by a
leftover command `Foreign`. `faults` counts what the environment does wrong, up
to `MaxFaults`.

**Reboot** - `main()` of dapico-reboot, composed of DeviceScan and Picoboot:
`Dispatch` between the two interfaces, the reset request, the PICOBOOT command
with its two transfers, the message, the exit. There is no interface reset. A
boot ROM refuses the commands of the other product (`Understands`), and reboots
at any time after it has taken a reboot command, so the acknowledgement may or may
not be read. The reset request is a call of `ControlRequest` with a result, and
that is all the model has of it: after either result the firmware may stay as it is
or be about to reboot. The properties about what is reported are therefore about
`AskedBootRom`, a device in BOOTSEL mode that was sent a PICOBOOT command.

**PlanLemmas, LoadPlanProofs, PlannerProofs, PicobootProofs, LoaderProofs,
DeviceScanProofs, RebootProofs, InputProofs** - section 4. PlannerProofs is about
what is made of a plan: MergeLoop, PlannedErases and DryRun. InputProofs is about
what the programs are given, the file and the command line, and so about ElfFile
and FrontEnd.

Actions and helpers whose names say what went wrong (`SortOmitted`,
`PlanEndsUnclosed`, ...) stand above the definition they alter and are used by no
specification: each shows, put in its place, that a property can be violated.

## 3. The runs

| run | states | question |
|---|---|---|
| `front_end` | 395,022 | does a tool start only as asked, find the right device and lose no handle? |
| `elf_file` | 4,813 | are exactly the complete files accepted, and read whole? |
| `load_plan` | 21,204 | is every image planned right, merged right, and announced right by the dry run? |
| `loader` | 171,498 | does what `main()` reports agree with the device, whatever fails? |
| `loader_prompt` | 3,033 | does a good load into a healthy device succeed? |
| `reboot` | 208,152 | does the message fit the boot ROM, and does the reboot come? |
| `elf_wrap` | violation | does `content` refuse every segment outside the file? |
| `loader_token` | violation | does "Executing" mean that the device took EXEC? |
| `loader_entry` | violation | is what is executed the loaded image? |
| `loader_mirror` | violation | are segments that are apart in the image both loaded? |
| `reboot_already` | violation | is "already in BOOTSEL" said only of such devices? |
| `reboot_stalled` | violation | is a device in BOOTSEL mode rebooted without a fault? |

**Bounds of the address map.** Word 64, pages of 2 bytes, sectors of 4, chunks of
2; flash 8..15 (RP2040) or 8..19 (RP2350), SRAM 32..37 or 32..41. A sector has
two pages and a flash two or three sectors, so a segment of five bytes crosses a
page and a sector boundary, has a whole and a partial chunk, and can share a
page, touch another range or overlap it. The SRAM of each product is smaller
than its flash, so some flash segments have a mirror and some have none, and the
two products disagree about some of them.

**`load_plan`** takes every pair of 24 segments (12 places by two lengths, with
empty, unreadable and not-loaded ones as the second), for each of the 24 a triple
whose outer two segments are three bytes at 12 and one at 10, and every single
segment with ten entry points: none, at both ends of the RP2040's flash and SRAM,
with and without a mirror of four bytes, in what only the RP2350 has, and outside.
Three erase ranges are enough for two equal starts in either order and for a range
that bridges two others.

**`loader`** takes eight images, one per way a load can go, with `--flash` and
`--no-exec` free, both products, all initial endpoint states, and an erase, a
page write, a RAM write and an EXEC as leftovers of a killed run. `MaxFaults = 2`:
two faults make the sequences that matter, such as a broken transfer of EXIT_XIP
followed by a broken acknowledgement of the first erase, or a failed reset of a
stalled interface followed by an unplug. A device that rejects what it should
reject, a timeout of a slow device and a stalled endpoint are not faults and are
not bounded. The safety properties of the run are all proved for any number of
faults.

**`front_end`, `reboot`**: buses of up to two devices: the second is needed for
"first usable" and for continuing after a device that was closed again; a third
meets the same code in the same state. Every device and interface may be refused.
Command lines have up to three words of either program, enough for a file, a
switch and a word that is neither, in every order.

**`elf_file`**: files of 0 to 14 bytes around a header of 5 and entries of 3:
the table missing, inside the header, ending with the file or one byte over it,
with strides of 0, below, at and above the size of an entry.

**Fairness.** `Spec` of Loader and of Reboot assumes weak fairness of the host's
steps: every pipe transfer is given a timeout (`kUsbTimeoutMs`, three times that
for data), a control request (interface reset, status query, reset request) has
IOKit's default one, and the other steps are ordinary code; in the model some
host step is enabled in every state before the exit. Loader's `Spec` assumes
nothing of the device: it may be busy for ever. Reboot's assumes of the device
only that a boot ROM that has taken a reboot command reboots (`BootRomReboots`),
because both commands carry `dDelayMS = 500`; the control request to a reset
interface carries no delay and its firmware may never reboot. `PromptSpec` of
`loader_prompt` is about a healthy device: no faults, no command left over, and
fair steps of the device that come before the timeout (`Prompt`). `FrontSpec`
assumes that a called program runs on. `CHECK_DEADLOCK FALSE` is in every cfg
because the programs end.

**What the properties say** (each is stated in full at its definition):

- `StartsOnlyAsAsked`, `GoodCommandLinesRun`, `DevicesAreOpenedWhenAsked` - a
  program that starts has understood its last word; what is understood runs;
  no handle is opened for help, a dry run or a bad command line.
- `HoldsWhatItMatched`, `FindsFirstUsable` - the scans.
- `ReadsTheWholeTable` - the ELF reader against a definition of a complete table
  that does not mention its loop.
- `PagesErased`, `PagesHoldImage`, `EraseIsTight`, `MirrorStaysInSram` - the plan
  is complete and touches nothing else.
- `MergedIsApart`, `MergedCoversTheSame`, `SortDoesNotMatter` - the merge, for
  every order the sort may leave.
- `DryRunPredictsLoad` - the dry run announces byte for byte what the load does,
  its two flags and its exit code, wherever the two address maps treat the image
  alike (`DryRunApplies`: always on an RP2040, on an RP2350 except where its
  memories are larger).
- `LoadCompleteMeansLoaded` - exit code 0 means that every byte of the image is
  where the image wants it. It is stated from the image, not from the plan.
- `StartsOnLoadedMemory` - a program is started only on a memory that holds the
  whole image, also when EXEC is carried out after its call has failed.
- `PrefixCarriedOut` - what the device has carried out is, at every time, a
  prefix of the script.
- `NothingMixed`, `ForeignDataSurvives` - no flash byte is programmed twice or
  unerased; no byte outside the image and its sectors changes, on any failure.
- `RefusedImagesLeaveNoTrace` - an image that is bad at any segment has not
  reached the device at all.
- `ProperLoadsSucceed` - an image whose bytes have a place is loaded and reported
  as loaded by a healthy device, whatever a killed run has left its endpoints in.
- `LinkIsService` - the link implements CommandService.
- `ReportMatchesDevice`, `ReportedRebootComes`, `FreshDeviceIsRebooted` - a boot
  ROM of which "Reboot request sent." is said has taken the command, its reboot
  comes, and a fresh one understands the command it gets. None is about a request
  to a reset interface.
- `Terminates`, `RebootEnds` - the programs end with their handles closed.

**What the violated ones show.**

- `ReportedExecWasTaken`: when the transfer of the EXEC command itself fails,
  `picoboot_exec` asks for the status of the last command and does not compare
  the token; the device answers "ok" for the last write, and `main()` prints
  "Executing at" and exits with 0 though no EXEC arrived.
- `ExecutesLoadedImage`: without `--flash`, a flash segment that does not fit
  into the SRAM is skipped, but its entry point still has a mirror of four bytes
  and is executed.
- `SegmentsStayApart`: the mirror of a flash segment is not checked against the
  segments the image itself has in SRAM.
- `ContentIsInFile`: `offset + filez` wraps at 2^32, and a segment outside the
  file passes the check.
- `AlreadyMeansBootsel`: `--bootsel` takes any vendor interface with two bulk
  pipes for PICOBOOT and reports an application as being in BOOTSEL mode.
- `BootselDeviceIsRebooted`: dapico-reboot does not reset the interface, so a
  device whose endpoints another run has left stalled stays in BOOTSEL mode;
  dapico-load, which resets it, has no such trouble (`ProperLoadsSucceed`).

**What no property constrains**, although the model has it:

- `picoboot_exec` takes a device that is no longer there for one whose program has
  taken over the bus. When the cable is pulled before the command is sent,
  "Executing at", "Load complete." and exit code 0 come all the same.
  `LoadCompleteMeansLoaded` still holds: it is about the memory as it was loaded.
- A boot ROM that reboots before its acknowledgement is read is gone when
  dapico-reboot reads it: the tool says "Reboot request failed" for a reboot that
  has happened. By `dDelayMS` the host must have been held up for half a second.
- Where the RP2350 has more flash or SRAM than the RP2040, the dry run announces
  another load than the one that is made, as its first line says it may.

## 4. The proofs

| theorem | module | says |
|---|---|---|
| `PlanIsTyped` | LoadPlanProofs | `PlanSpec => []PlanTypeOK` |
| `PlannedPagesAreErased` | LoadPlanProofs | `PlanSpec => []PagesErased` |
| `PlannedPagesHoldTheImage` | LoadPlanProofs | `PlanSpec => []PagesHoldImage` |
| `MirrorsStayInSram` | LoadPlanProofs | `PlanSpec => []MirrorStaysInSram` |
| `PlannedErasesAreTight` | LoadPlanProofs | `PlanSpec => []EraseIsTight` |
| `MergedRangesAreApart` | PlannerProofs | `MergeSpec => []MergedIsApart` |
| `MergingKeepsTheAddresses` | PlannerProofs | `MergeSpec => []MergedCoversTheSame` |
| `MergingIgnoresTheSort` | PlannerProofs | `MergeSpec => []SortDoesNotMatter` |
| `ErasesFollowThePlan` | PlannerProofs | `ErasesSpec => PlanSpec` |
| `PlannedErasesAreMerged` | PlannerProofs | the three about merging, of `ErasesSpec` |
| `DryRunIsRight` | PlannerProofs | `PlanSpec => []DryRunPredictsLoad` |
| `LinkImplementsService` | PicobootProofs | `LinkSpec => LinkIsService` |
| `LoaderUsesService` | LoaderProofs | `Spec => LinkIsService` |
| `LoaderErasesItsPages` | LoaderProofs | `Spec => []PagesErased` |
| `LoaderPlansTheImage` | LoaderProofs | `Spec => []PagesHoldImage` |
| `LoaderCarriesOutAPrefix` | LoaderProofs | `Spec => []PrefixCarriedOut` |
| `RefusedImagesAreNotSent` | LoaderProofs | `Spec => []RefusedImagesLeaveNoTrace` |
| `SuccessMeansLoaded` | LoaderProofs | `Spec => []LoadCompleteMeansLoaded` |
| `StartsFindTheImage` | LoaderProofs | `Spec => StartsOnLoadedMemory` |
| `ForeignDataIsLeftAlone` | LoaderProofs | `Spec => []ForeignDataSurvives` |
| `NoByteIsMixed` | LoaderProofs | `Spec => []NothingMixed` |
| `LoaderIsTyped` | LoaderProofs | `Spec => []LoaderTypeOK` |
| `ScanIsTyped` | DeviceScanProofs | `ScanSpec => []ScanTypeOK` |
| `ScanHoldsWhatItMatched` | DeviceScanProofs | `ScanSpec => []HoldsWhatItMatched` |
| `ScanFindsFirstUsable` | DeviceScanProofs | `ScanSpec => []FindsFirstUsable` |
| `RebootHoldsWhatItMatched` | RebootProofs | `Spec => []HoldsWhatItMatched` |
| `RebootReportIsTrue` | RebootProofs | `Spec => []ReportMatchesDevice` |
| `RebootReachesTheDevice` | RebootProofs | `Spec => FreshDeviceIsRebooted` |
| `RebootIsTyped` | RebootProofs | `Spec => []RebootTypeOK` |
| `ElfTableIsReadWhole` | InputProofs | `ElfSpec => []ReadsTheWholeTable` |
| `ElfReaderIsTyped` | InputProofs | `ElfSpec => []ElfTypeOK` |
| `ProgramsStartAsAsked` | InputProofs | `FrontSpec => []StartsOnlyAsAsked` |
| `OnlyTheAskedOpenDevices` | InputProofs | `FrontSpec => DevicesAreOpenedWhenAsked` |

They hold for every memory map that satisfies `LayoutIsSane`, every set of
images that satisfies `ImagesAreImages` and `SegmentsEndInTheWord`, every chunk
size, every set of leftovers that are commands, every list of devices that
satisfies `ResetInterfaceIsTheSdks`, every file, every command line, and any
number of faults.

- *Inductions over data* (PlanLemmas). The library's induction theorems take a
  predicate as a parameter, which no prover here can instantiate. `Induction` is
  about a set instead: one that holds 0 and with every number its successor holds
  all numbers, because `<` on the numbers is well-founded. From it come the
  existence of a function that is defined by iteration (`Iteration`, and for the
  loop of merge_ranges `MergeExists`), the ranks of a finite ordered set (`Ranks`,
  `InOrderLists`: `Ascending` and `sort_by_start` list everything once and in
  order), what the loop has after n ranges (`MergeSoFar`), and the place of every
  element in a flattened list of lists (`FlattenPlaces`).

- *Alignment* (PlanLemmas). `align_down` is the greatest multiple below,
  `align_up` the least multiple above a value when the sum does not wrap, and a
  sector is a whole number of pages, so what is aligned to sectors is aligned to
  pages. `SegmentsEndInTheWord` is what keeps the sum from wrapping: no segment
  is as long as the 3.5 GiB between the flash and 2^32.
- *Pages are erased.* `PagesErased` follows from itself once the plan is typed:
  `PlanInv` adds that the image is one of `Images` and `PlanTypeOK`, because the
  step that adds pages needs the address and the length of its segment in range.
  The page of a byte starts at or above the start of the erase range because a
  sector boundary is a page boundary, and ends at or below its end for the same
  reason.
- *Pages hold the image.* A page that is met for the first time starts as
  padding; that this loses nothing needs that every byte claimed so far is in a
  page that is there (`ClaimedIsPaged`), and that the bytes of a page have that
  page as theirs (`PagesAreAligned`). A byte of the segment just handled then has
  it as its last claim, any other byte keeps the claim it had.
- *Mirrors.* `RamHasOrigin` says of every planned RAM write which segment it is
  and where it was sent; the bounds of the mirror follow from `maps_to_sram`,
  whose sum does not wrap for segments of `Images`.
- *Merging.* `MergeInv` adds to "apart" and "covers what was handled so far" that
  the ranges to come start no earlier than the last merged one, which is what the
  sort is for. It needs of the sort only that it is a permutation in order of
  `start`. That the result is always the one of `merge_ranges` follows without
  comparing two runs of the loop: both results are apart and cover and touch the
  same addresses, and a list of ranges that are apart can be read off what it
  covers and touches (`SameRanges`). The erase ranges of a plan are such ranges
  (`EraseRangesAreSpans`), so the same holds of the call `main()` makes, and as that
  changes nothing of the plan, `ErasesSpec` has every theorem of `PlanSpec`.
- *The dry run.* The copies of the helpers do what the helpers do (`HelpersAgree`,
  `MapsAgree`). `DryRunAgrees` says that after each turn the copy's loop has found
  what the planner has planned; it is preserved because where the two address maps
  treat a segment alike, one turn of either does the same (`TurnsAgree`), and
  `RejectedRightly` says that the planner gives up for what makes the dry run fail.
  The two make different lists of commands from the same plan. `EffectJoins` and
  `EffectOfLists` say that the effect of a list is put together from the effects of
  its parts, `ChunksEffect` that the chunks of a RAM write do what the one line does,
  and `MergesAgree` that both copies of merge_ranges return the same.
- *Tight erases.* `RangesHaveSegments` says of each erase range which segment it
  is of. The merged ranges cover no other address than the ranges (the same loop
  again), the ranges start and end at sector boundaries, and a sector in the range
  of a segment has a byte of it.
- *The link is the service.* `LinkInv` says that the device has taken nothing
  unsent and carried out nothing it has not taken (`TokensInOrder`), that a
  command being written is newer than the one it took last, and taken once it is
  written (`TakenOnce`), that a command in progress was not carried out before
  (`WorkIsNew`), and that an acknowledgement of this run is pending only when the
  command taken last was carried out (`AckIsEarned`). The last is the point: a late
  acknowledgement of an earlier call would otherwise answer the current one; it
  cannot, because a device whose acknowledgement was not read takes no command.
- *The prefix.* `LoaderInv` says that a call is made only when all earlier calls,
  EXIT_XIP aside, were carried out: `main()` goes on only after "ok"
  (`EarlierDone`), an "ok" is true (`OkIsTrue`, from the link), and token numbers
  match positions (`NothingSent`, `FirstCall`, `NoCallPending`). With that, the
  only command that can be outstanding after a failure is the last one sent.
  The steps of Loader are steps of LoadPlan and of Picoboot (`StepsPlan`,
  `StepsLink`), so the theorems about those carry over.
- *The memory.* `SentInv` says for every token which command of the script it is
  (`Position`, `SentAsPlanned`) and, from the prefix, that the commands carried out
  are the first ones of the script (`Done`). `MemInv` then reads the memory off the
  script: a byte that none of the commands done so far touches is as it was before
  or as a killed run's command has left it, any other is what the last one to touch
  it leaves there (`MemoryFollowsScript`). The step that could break this is a page
  that is programmed: its bytes must be erased at that time. They were, because all
  erases come before it and hold the page (`PagesErased`), and no RAM write in
  between has strayed into flash, since the device has accepted each
  (`DoneIsAcceptable`). After the last command (`AllDone`) the last command to touch
  a byte of the image is the chunk or the page that holds it, since two pages are
  apart, and by `PagesHoldImage` and the order of the chunks it holds the byte of
  the last segment to claim it: `SuccessMeansLoaded`, and, because EXEC is carried
  out after everything before it, `StartsFindTheImage`. `ForeignDataIsLeftAlone` and
  `NoByteIsMixed` follow from the same invariant and `PlannedErasesAreTight`.
- *Refused images.* `RefusalInv` adds to these that the loop goes on only past
  segments that are not bad (`GoodSoFar`), so the plan of a bad image is never
  finished, and that nothing was sent without a finished plan
  (`UnplannedUnsent`).
- *The scans.* `ScanInv` says which handles may be matched at all: those of the
  device the inner loop is in, below the interface it looks at next
  (`MatchesAreBehind`), each of the kind it is kept as (`MatchesFit`), and none
  while the outer loop runs. `FirstInv` adds that what was refused lies behind
  the scan (`RefusedAreBehind`): a device is left only when it is of no use, and
  stays so when more is refused; an interface left behind was matched or refused
  (`NothingOverlooked`).
- *The report.* `RebootInv` follows the one command from `RebootCommand` to
  `mode`: what the device takes in this run is a reboot command, a boot ROM that
  carries it out has taken the reboot, and "ok" of the link means that it was carried
  out; so `RebootReportIsTrue` rests on the link's invariant, not on what a result is
  assumed to mean. A device that was asked through its reset interface is not an
  `AskedBootRom`, and the theorem says nothing of it. Reboot's steps are steps of
  DeviceScan and Picoboot (`StepsScan`, `StepsLink`).
- *The request arrives.* `FreshDevice` says of a device that was ready that, as long
  as there was no fault and no reboot was taken, it is ready for the one command,
  or busy with it, and that this is the command of its product; so the only ways on
  are to take it, or to be still at it.
- *The command line.* `ArgsInv` says of the words before `k` what
  `StartsOnlyAsAsked` says of all: the switches are those among them
  (`SwitchesSoFar`), at most one names a file and it is `filename` (`NameSoFar`),
  none was unknown (`AllUnderstood`). What the scan opens is opened after that loop.
- *The table.* `ElfInv` says that the entries read so far are those of the table
  and were whole; a file is refused only where one is not.

Only model-checked: liveness (`Terminates`, `RebootEnds`, `ProperLoadsSucceed`,
`ReportedRebootComes`, `GoodCommandLinesRun`) and ENABLED, which are out of the
prover's reach.

## 5. Assumptions about what is outside the repository

- The boot ROM takes a new command only when the acknowledgement of the last was
  read, stalls its endpoints on an error until the interface reset, keeps the
  status of the last command it took, and executes commands one at a time.
- Data that arrives is stored as a whole; a data stage that breaks leaves the
  device waiting for it and writes nothing.
- A killed run may have left the device stalled, in the middle of a transfer, or
  busy with a command; the interface reset may or may not abort the latter.
- A program started by EXEC may make the device disappear at once, or after the
  acknowledgement was given.
- A boot ROM refuses commands it does not know: PC_REBOOT2 is "RP2350 only"
  (`boot/picoboot.h`). Firmware with a vendor interface of its own may take or
  refuse a command, and does not reboot on it.
- Of firmware that is sent a request through its reset interface nothing is
  assumed: `ControlRequest` may succeed or fail, and after either the device may
  reboot or stay. `dapico-reboot/README.md:6` promises that reboot, and line 39 of
  the same file says that it "is currently not working and needs
  investigation/fixing". Nothing in the repository tells why, so no run or theorem
  claims that it works, and none is offered as an explanation. The tool itself
  reports the result of the control transfer only: "Requested reboot into BOOTSEL
  mode." is printed whenever that succeeded.
- A boot ROM that has taken PC_REBOOT or PC_REBOOT2 reboots, after `dDelayMS`.
- A reset interface is the one of `pico_stdio_usb`: it has no pipes
  and a firmware has it once (`ResetInterfaceIsTheSdks`). Without this
  assumption `HoldsWhatItMatched` fails: an interface that matches twice is
  closed twice, and of two reset interfaces the first is not closed.
- `size_t` has 64 bits, as on every Mac.

## 6. Not modelled

- Reference counts of IOKit registry objects (only openings and closings are).
- Exceptions other than `std::runtime_error`, which `main()` does not catch: an
  allocation that fails ends the process, and macOS closes its handles.
- The branches of `send_picoboot_command` for IN commands, which have no caller,
  `main()`'s branches for a match without interfaces, which `find_device`
  never returns, and the early return of `merge_ranges` for an empty argument as
  part of a load (`NothingToMerge` is in MergeLoop and its proofs).
- The mass storage drive of the boot ROM, which could write to the flash during
  a load: the repository says nothing about it, and the loader does not lock it
  out (it never sends PC_EXCLUSIVE_ACCESS).
- Image sizes near 2^32 (`SegmentsEndInTheWord`).
- Wording of messages, except for which message `dapico-reboot` ends with and
  which commands the dry run announces.
- The registry walk that reads interface properties, descriptors and pipe
  attributes: an interface is what the scan concludes of it.
- Build files, workflows, release script and formula: packaging.

## 7. Plan

Done: all components that have behaviour of their own, and proofs of every safety
and action property the passing runs check, and of the refinement. What is left to
TLC is liveness.
