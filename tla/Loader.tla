------------------------------- MODULE Loader -------------------------------
(***************************************************************************)
(* dapico-load: main() from find_device to its exit code, with the device  *)
(* at the other end of the cable.  LoadPlan decides what is to be done,    *)
(* Picoboot carries one command; this module issues the commands, looks at *)
(* their results and keeps the memory of the device, so that what main()   *)
(* reports can be compared with what the device holds.                     *)
(*                                                                         *)
(* Loads that main() ends before it opens a device (--help, wrong          *)
(* arguments, --dryrun) are not part of this module.                       *)
(***************************************************************************)
EXTENDS LoadPlan, Picoboot

CONSTANT MaxFaults   \* bounds the faults the environment injects

ASSUME FaultsAreBounded == MaxFaults \in Nat

VARIABLES
  exec_after,   \* FALSE with --no-exec
  pc,           \* the part of main() that is being executed
  op,           \* index in Script of the command to issue next
  result,       \* main's own ret
  open,         \* the device and its PICOBOOT interface are open
  mem,          \* what the device's flash and SRAM hold
  started,      \* the addresses at which this run has started a program
  faults        \* faults injected so far

mainVars == <<exec_after, pc, op, result, open>>
vars == <<planVars, linkVars, mainVars, mem, started, faults>>

ExitXip     == NoCommand
Exec(addr)  == [id |-> "EXEC", addr |-> addr, size |-> 0, data |-> <<>>]

\* the contents of a byte that is no byte of the image
Old    == <<0, 1>>   \* as it was before the run
Erased == <<0, 2>>
Mixed  == <<0, 3>>   \* programmed without an erase
Foreign == <<0, 4>>  \* changed by the command a killed run has left

FlashAddress == FlashStart .. layout.flash_end - 1
SramAddress  == SramStart .. layout.sram_end - 1

Init ==
  /\ PlanInit
  /\ LinkInit
  /\ exec_after \in BOOLEAN
  /\ pc = "find"
  /\ op = 1
  /\ result = "ok"
  /\ open = FALSE
  /\ mem = [a \in FlashAddress \cup SramAddress |-> Old]
  /\ started = {}
  /\ faults = 0

Fault == faults < MaxFaults /\ faults' = faults + 1
NoFault == UNCHANGED faults
Idle == stage = "idle"

Goto(place, value) ==
  /\ pc' = place
  /\ result' = value

-----------------------------------------------------------------------------
(* The steps of main(). *)

FindDevice ==
  /\ pc = "find"
  /\ IF dpc = "gone"
       THEN Goto("exited", "failed") /\ UNCHANGED open
       ELSE Goto("reset", result) /\ open' = TRUE
  /\ UNCHANGED <<planVars, linkVars, exec_after, op, mem, started, faults>>

\* Mutant of ResetInterface: the request is not made.
ResetInterfaceOmitted ==
  /\ pc = "reset"
  /\ Goto("plan", result)
  /\ UNCHANGED <<planVars, linkVars, exec_after, op, open, mem, started, faults>>

\* a failed reset is a warning; the device may or may not have acted on it
ResetInterface ==
  /\ pc = "reset"
  /\ \/ IfReset /\ NoFault
     \/ dpc = "gone" /\ UNCHANGED linkVars /\ NoFault
     \/ (IfReset \/ UNCHANGED linkVars) /\ Fault
  /\ Goto("plan", result)
  /\ UNCHANGED <<planVars, exec_after, op, open, mem, started>>

Plan ==
  /\ pc = "plan"
  /\ PlanNext
  /\ UNCHANGED <<linkVars, mainVars, mem, started, faults>>

\* Mutant of PlanEnds: a rejected image leaves main() without the closing calls.
PlanEndsUnclosed ==
  /\ pc = "plan"
  /\ \/ plan = "rejected" /\ Goto("exited", "failed")
     \/ /\ plan = "planned"
        /\ Goto(IF DOMAIN flash_pages = {} THEN "load" ELSE "xip", result)
  /\ UNCHANGED <<planVars, linkVars, exec_after, op, open, mem, started, faults>>

PlanEnds ==
  /\ pc = "plan"
  /\ \/ plan = "rejected" /\ Goto("close", "failed")
     \/ /\ plan = "planned"
        /\ Goto(IF DOMAIN flash_pages = {} THEN "load" ELSE "xip", result)
  /\ UNCHANGED <<planVars, linkVars, exec_after, op, open, mem, started, faults>>

CallExitXip ==
  /\ pc = "xip"
  /\ Call(ExitXip)
  /\ UNCHANGED <<planVars, mainVars, mem, started, faults>>

\* a failure is logged, then the first erase overwrites ret
AfterExitXip ==
  /\ pc = "xip"
  /\ Resume
  /\ Goto("load", result)
  /\ UNCHANGED <<planVars, exec_after, op, open, mem, started, faults>>

CallNext ==
  /\ pc = "load"
  /\ op <= Len(Script)
  /\ Call(Script[op])
  /\ UNCHANGED <<planVars, mainVars, mem, started, faults>>

\* Mutant of AfterNext: a command that failed is sent again.
AfterNextRetries ==
  /\ pc = "load"
  /\ Resume
  /\ op' = IF ret = "ok" THEN op + 1 ELSE op
  /\ UNCHANGED <<planVars, exec_after, pc, result, open, mem, started, faults>>

\* the loops break, and every later part of main() is guarded by ret
AfterNext ==
  /\ pc = "load"
  /\ Resume
  /\ IF ret = "ok"
       THEN op' = op + 1 /\ UNCHANGED <<pc, result>>
       ELSE Goto("close", "failed") /\ UNCHANGED op
  /\ UNCHANGED <<planVars, exec_after, open, mem, started, faults>>

\* Mutant of ScriptEnds: the program is started before the pages are written.
ScriptEndsBeforePages ==
  /\ pc = "load"
  /\ Idle
  /\ op > Len(Script) \/ (exec_after /\ op > Len(Erases \o RamWrites))
  /\ IF ~ exec_after    THEN Goto("close", "ok")
     ELSE IF entry_error THEN Goto("close", "failed")
     ELSE Goto("exec", result)
  /\ UNCHANGED <<planVars, linkVars, exec_after, op, open, mem, started, faults>>

ScriptEnds ==
  /\ pc = "load"
  /\ Idle
  /\ op > Len(Script)
  /\ IF ~ exec_after    THEN Goto("close", "ok")
     ELSE IF entry_error THEN Goto("close", "failed")
     ELSE Goto("exec", result)
  /\ UNCHANGED <<planVars, linkVars, exec_after, op, open, mem, started, faults>>

CallExec ==
  /\ pc = "exec"
  /\ Call(Exec(exec_addr))
  /\ UNCHANGED <<planVars, mainVars, mem, started, faults>>

\* picoboot_exec: a device that has gone is taken for one that is running
AfterExec ==
  /\ pc = "exec"
  /\ Resume
  /\ IF ret \in {"ok", "nodevice"} THEN Goto("close", "ok")
                                   ELSE Goto("status", result)
  /\ UNCHANGED <<planVars, exec_after, op, open, mem, started, faults>>

\* the status of the last command the device took, whichever that was
StatusSaysOk == dcode = "ok"

QueryStatus ==
  /\ pc = "status"
  /\ \/ /\ Goto("close", IF dpc = "gone" \/ StatusSaysOk THEN "ok" ELSE "failed")
        /\ NoFault
     \/ Goto("close", "failed") /\ Fault
  /\ UNCHANGED <<planVars, linkVars, exec_after, op, open, mem, started>>

Close ==
  /\ pc = "close"
  /\ pc' = "exited"
  /\ open' = FALSE
  /\ UNCHANGED <<planVars, linkVars, exec_after, op, result, mem, started, faults>>

\* the transfers inside send_picoboot_command
HostTransfer ==
  /\ \/ TransferSucceeds /\ NoFault
     \/ TransferFails /\ NoFault
     \/ TransferBreaks /\ Fault
  /\ UNCHANGED <<planVars, mainVars, mem, started>>

HostStep ==
  \/ FindDevice \/ ResetInterface \/ Plan \/ PlanEnds
  \/ CallExitXip \/ AfterExitXip \/ CallNext \/ AfterNext \/ ScriptEnds
  \/ CallExec \/ AfterExec \/ QueryStatus \/ Close \/ HostTransfer

-----------------------------------------------------------------------------
(* The device: boot ROM, flash and SRAM.  Not in the repository. *)

Bytes(c) == c.addr .. c.addr + c.size - 1

Acceptable(c) ==
  \/ c.id \in {"EXIT_XIP", "EXEC"}
  \/ /\ c.id = "FLASH_ERASE"
     /\ c.addr % SectorSize = 0 /\ c.size % SectorSize = 0
     /\ Bytes(c) \subseteq FlashAddress
  \/ /\ c.id = "WRITE"
     /\ \/ Bytes(c) \subseteq SramAddress
        \/ Bytes(c) \subseteq FlashAddress /\ c.addr % PageSize = 0

ContentAfter(c, a) ==
  IF a \notin Bytes(c)                                THEN mem[a]
  ELSE IF dtoken = 0                                  THEN Foreign
  ELSE IF c.id = "FLASH_ERASE"                        THEN Erased
  ELSE IF a \in FlashAddress /\ mem[a] # Erased       THEN Mixed
  ELSE c.data[a - c.addr + 1]

DeviceExecutes ==
  /\ Execute
  /\ Acceptable(dcmd)
  /\ mem' = IF dcmd.id \in {"FLASH_ERASE", "WRITE"}
              THEN [a \in DOMAIN mem |-> ContentAfter(dcmd, a)] ELSE mem
  /\ started' = IF dcmd.id = "EXEC" /\ dtoken # 0 THEN started \cup {dcmd.addr} ELSE started
  /\ UNCHANGED <<planVars, mainVars, faults>>

DeviceRejects ==
  /\ Reject
  /\ IF Acceptable(dcmd) THEN Fault ELSE NoFault
  /\ UNCHANGED <<planVars, mainVars, mem, started>>

DeviceUnplugged ==
  /\ Unplug
  /\ Fault
  /\ UNCHANGED <<planVars, mainVars, mem, started>>

DeviceStep == DeviceExecutes \/ DeviceRejects \/ DeviceUnplugged

Next == HostStep \/ DeviceStep

\* Every pipe transfer is given a timeout and a control request has IOKit's, so
\* the host never waits for ever; nothing is assumed of the device.
Spec == Init /\ [][Next]_vars /\ WF_vars(HostStep)

\* A device that was left idle, stalled or in the middle of a transfer, that is
\* never too slow, and a bus without faults.
Prompt == UNCHANGED faults /\ (dpc = "busy" => ~ TransferFails)

PromptSpec ==
  /\ Init /\ dpc # "busy"
  /\ [][Next /\ Prompt]_vars
  /\ WF_vars(HostStep /\ Prompt) /\ WF_vars(DeviceStep /\ Prompt)

-----------------------------------------------------------------------------
(* Properties. *)

LoaderTypeOK ==
  /\ PlanTypeOK
  /\ LinkTypeOK
  /\ exec_after \in BOOLEAN
  /\ pc \in {"find", "reset", "plan", "xip", "load", "exec", "status", "close",
             "exited"}
  /\ op \in Nat \ {0}
  /\ result \in {"ok", "failed"}
  /\ open \in BOOLEAN
  /\ mem \in [FlashAddress \cup SramAddress -> Byte]
  /\ started \subseteq Nat
  /\ faults \in 0 .. MaxFaults

(***************************************************************************)
(* Where the user's image says its bytes belong, told without the plan:    *)
(* the loaded segments, and for an address the last of them to claim it.   *)
(***************************************************************************)
Mirrored(i) ==
  ~ allow_flash /\ is_flash_address(segment_address(image.segments[i]), layout)

Target(i) ==
  LET addr == segment_address(image.segments[i])
  IN  IF Mirrored(i) THEN sram_mirror(addr) ELSE addr

LoadedSegments ==
  {i \in DOMAIN image.segments :
     LET s == image.segments[i]
     IN  /\ Loadable(s)
         /\ Mirrored(i) => maps_to_sram(segment_address(s), s.filez, layout)}

Claims(a) ==
  {i \in LoadedSegments :
     Target(i) <= a /\ a < Target(i) + image.segments[i].filez}

ImageByte(a) ==
  LET last == CHOOSE i \in Claims(a) : \A k \in Claims(a) : k <= i
  IN  <<last, a - Target(last)>>

ImageInMemory ==
  \A a \in DOMAIN mem : Claims(a) # {} => mem[a] = ImageByte(a)

Succeeded == pc = "exited" /\ result = "ok"

\* "Load complete." and exit code 0 mean that every byte of the image is where
\* the image wants it, whatever timed out, broke or was rejected on the way.
LoadCompleteMeansLoaded == Succeeded => ImageInMemory

\* No program is ever started on a memory that does not hold the whole image.
StartsOnLoadedMemory == [][started' # started => ImageInMemory]_vars

\* Whatever the device has carried out, late or not, is a prefix of the plan
\* (EXIT_XIP, whose failure main() ignores, aside): no page is written before
\* its erase was done, nothing is started before the last write.
PrefixCarriedOut ==
  LET first == IF DOMAIN flash_pages = {} THEN 1 ELSE 2
  IN  \A t \in executed : first .. t \subseteq executed

\* No flash byte is programmed twice or without an erase.
NothingMixed == \A a \in DOMAIN mem : mem[a] # Mixed

\* At no time, and on no failure, has a byte changed that is neither claimed by
\* the image nor, with --flash, in a sector of a byte that is.
ForeignDataSurvives ==
  \A a \in DOMAIN mem : mem[a] \notin {Old, Foreign} =>
    \/ Claims(a) # {}
    \/ /\ allow_flash /\ a \in FlashAddress
       /\ \E b \in align_down(a, SectorSize) ..
                   align_down(a, SectorSize) + SectorSize - 1 : Claims(b) # {}

\* An image that cannot be loaded whole, because the file, a segment's bytes or a
\* segment's address is missing, is refused before anything is sent: a bad last
\* segment does not leave the good first ones on the device.
Refusable ==
  \/ ~ image.parses
  \/ \E i \in DOMAIN image.segments :
       LET s == image.segments[i]
       IN  Loadable(s) /\ (segment_address(s) = 0 \/ ~ s.readable)

RefusedImagesLeaveNoTrace == Refusable => executed = {} /\ started = {}

\* An image whose bytes and entry point have a place in the device found.
Suits ==
  /\ ~ Refusable
  /\ allow_flash \/ LoadedSegments # {}
  /\ \A i \in LoadedSegments :
       LET bytes == Target(i) .. Target(i) + image.segments[i].filez - 1
       IN  bytes \subseteq SramAddress \/ (allow_flash /\ bytes \subseteq FlashAddress)
  /\ exec_after => image.entry \in SramAddress \cup FlashAddress /\ ~ entry_error

\* A device that does its part is loaded, whatever a killed run has left its
\* endpoints in: nothing in the plan, the chunks, the pages or the order of the
\* commands is refused by the boot ROM's rules.
ProperLoadsSucceed == Suits => <>Succeeded

\* The run ends, and with the device and its interface closed.
Terminates == <>(pc = "exited" /\ ~ open)

\* "Executing at ..." and exit code 0 mean that the device took the EXEC command
\* or has gone; "a token to correlate with a status response" is there for it.
ReportedExecWasTaken ==
  Succeeded /\ exec_after => dtoken = token - 1 \/ dpc = "gone"

\* What is executed is the loaded image: the program starts at a byte of it.
ExecutesLoadedImage == \A a \in started : Claims(a) # {}

\* When no flash segment was skipped, "Load complete." means that two segments
\* that are apart in the image are both in memory.
ApartInImage(i, k) ==
  LET s == image.segments[i] t == image.segments[k]
  IN  \/ segment_address(s) + s.filez <= segment_address(t)
      \/ segment_address(t) + t.filez <= segment_address(s)

SegmentsStayApart ==
  Succeeded => \A i, k \in LoadedSegments :
    i # k /\ ApartInImage(i, k) =>
      \A a \in DOMAIN mem : ~ {i, k} \subseteq Claims(a)

=============================================================================
