------------------------------- MODULE Reboot -------------------------------
(***************************************************************************)
(* dapico-reboot: main() after its arguments, composed of the scan of      *)
(* DeviceScan and the PICOBOOT link of Picoboot, with the device it finds. *)
(*                                                                         *)
(* The link is that of the device the scan finds; before, nothing happens  *)
(* on it.  A boot ROM that has taken a PICOBOOT reboot reboots some time    *)
(* later (dDelayMS is 500 ms, the timeout of a transfer longer), so it may *)
(* be gone before the acknowledgement is read.  What firmware does with a  *)
(* request to its reset interface is not in the repository, and nothing is *)
(* assumed of it: README.md says that this reboot "is currently not         *)
(* working".  The tool sends no PICOBOOT_IF_RESET: it finds the endpoints   *)
(* as another run has left them.                                           *)
(*                                                                         *)
(* find_device never returns a match without an interface, so main's       *)
(* branches for one are dead code.                                         *)
(***************************************************************************)
EXTENDS DeviceScan, Picoboot

CONSTANT MaxFaults   \* bounds the faults the environment injects

ASSUME RebootFaultsAreBounded == MaxFaults \in Nat

VARIABLES
  bootsel,   \* --bootsel
  pc,        \* the part of main() that is being executed
  result,    \* main's ret
  said,      \* the message printed at the end
  mode,      \* of the chosen device: "up", about to reboot ("taken"), or "rebooted"
  faults     \* faults injected so far

rebootVars == <<bootsel, pc, result, said>>
vars == <<scanVars, linkVars, rebootVars, mode, faults>>

Init ==
  /\ ScanInit
  /\ LinkInit
  /\ tool = "reboot"
  /\ bootsel \in BOOLEAN
  /\ pc = "scan"
  /\ result = "ok"
  /\ said = "nothing"
  /\ mode = "up"
  /\ faults = 0

Fault == faults < MaxFaults /\ faults' = faults + 1
NoFault == UNCHANGED faults

product_id == bus[device].product

InBootsel == product_id \in BootProduct

-----------------------------------------------------------------------------
(* The steps of main(). *)

find_device ==
  /\ pc = "scan"
  /\ ScanStep
  /\ UNCHANGED <<linkVars, rebootVars, mode, faults>>

NoDevice ==
  /\ pc = "scan" /\ phase = "none"
  /\ pc' = "exited"
  /\ result' = "failed"
  /\ UNCHANGED <<scanVars, linkVars, bootsel, said, mode, faults>>

\* each direction has its preferred interface and falls back to the other
UsesReset == IF bootsel THEN reset # 0 ELSE picoboot = 0

Dispatch ==
  /\ pc = "scan" /\ phase = "found"
  /\ pc' = IF UsesReset THEN "reset" ELSE "picoboot"
  /\ UNCHANGED <<scanVars, linkVars, bootsel, result, said, mode, faults>>

Returns(value) ==
  /\ result' = value
  /\ pc' = "report"

\* All the tool gets is the result of ControlRequest.  Firmware that has answered
\* may stay as it is, and firmware that is going to reboot may not have answered.
reboot_via_reset_interface ==
  /\ pc = "reset"
  /\ \/ dpc = "gone" /\ Returns("failed") /\ UNCHANGED mode
     \/ /\ dpc # "gone"
        /\ \E answer \in {"ok", "failed"} : Returns(answer)
        /\ mode' \in {mode, "taken"}
  /\ UNCHANGED <<scanVars, linkVars, bootsel, said, faults>>

\* with --bootsel a PICOBOOT interface is taken for the BOOTSEL mode
AlreadyInBootsel ==
  /\ pc = "picoboot"
  /\ bootsel
  /\ said' = "already"
  /\ Returns("ok")
  /\ UNCHANGED <<scanVars, linkVars, bootsel, mode, faults>>

\* Mutant of RebootCommand: one command for all.
RebootCommandForAll == [NoCommand EXCEPT !.id = "REBOOT2"]

RebootCommand ==
  [NoCommand EXCEPT !.id = IF product_id = "rp2350_boot" THEN "REBOOT2" ELSE "REBOOT"]

CallReboot ==
  /\ pc = "picoboot"
  /\ ~ bootsel
  /\ Call(RebootCommand)
  /\ pc' = "sending"
  /\ UNCHANGED <<scanVars, bootsel, result, said, mode, faults>>

\* the transfers inside send_picoboot_command
HostTransfer ==
  /\ \/ TransferSucceeds /\ NoFault
     \/ TransferFails /\ NoFault
     \/ TransferBreaks /\ Fault
  /\ UNCHANGED <<scanVars, rebootVars, mode>>

AfterReboot ==
  /\ pc = "sending"
  /\ Resume
  /\ Returns(IF ret = "ok" THEN "ok" ELSE "failed")
  /\ UNCHANGED <<scanVars, bootsel, said, mode, faults>>

\* Mutant of Report: the result is not looked at.
ReportUnchecked ==
  /\ pc = "report"
  /\ pc' = "close"
  /\ said' = IF ~ bootsel THEN "sent"
             ELSE IF reset # 0 THEN "requested"
             ELSE said
  /\ UNCHANGED <<scanVars, linkVars, bootsel, result, mode, faults>>

Report ==
  /\ pc = "report"
  /\ pc' = "close"
  /\ said' = IF result = "failed" THEN "failed"
             ELSE IF ~ bootsel THEN "sent"
             ELSE IF reset # 0 THEN "requested"
             ELSE said
  /\ UNCHANGED <<scanVars, linkVars, bootsel, result, mode, faults>>

Close ==
  /\ pc = "close"
  /\ pc' = "exited"
  /\ CloseAll
  /\ UNCHANGED <<linkVars, bootsel, result, said, mode, faults>>

HostStep ==
  \/ find_device \/ NoDevice \/ Dispatch
  \/ reboot_via_reset_interface \/ AlreadyInBootsel
  \/ CallReboot \/ HostTransfer \/ AfterReboot
  \/ Report \/ Close

-----------------------------------------------------------------------------
(* The device that was found.  Not in the repository. *)

RebootId == {"REBOOT", "REBOOT2"}

Chosen == phase \in {"found", "closed"}

\* a boot ROM knows the commands of its product, and "RP2350 only" are some; a
\* vendor interface of another firmware does with a command what it likes
Understands(c) == c.id = "REBOOT2" => product_id # "rp2040_boot"

\* a boot ROM reboots on any reboot command, a killed run's too
DeviceExecutes ==
  /\ Chosen
  /\ Execute
  /\ Understands(dcmd)
  /\ mode' = IF InBootsel /\ dcmd.id \in RebootId THEN "taken" ELSE mode
  /\ UNCHANGED <<scanVars, rebootVars, faults>>

DeviceRejects ==
  /\ Chosen
  /\ Reject
  /\ IF InBootsel /\ Understands(dcmd) THEN Fault ELSE NoFault
  /\ UNCHANGED <<scanVars, rebootVars, mode>>

DeviceReboots ==
  /\ mode = "taken"
  /\ mode' = "rebooted"
  /\ Unplug
  /\ UNCHANGED <<scanVars, rebootVars, faults>>

DeviceUnplugged ==
  /\ Chosen
  /\ Unplug
  /\ Fault
  /\ UNCHANGED <<scanVars, rebootVars, mode>>

DeviceStep == DeviceExecutes \/ DeviceRejects \/ DeviceReboots \/ DeviceUnplugged

Next == HostStep \/ DeviceStep

\* dDelayMS is a field of the two PICOBOOT commands; a control request has none,
\* and firmware other than the boot ROM may delay its reboot for ever
BootRomReboots == mode = "taken" /\ InBootsel /\ DeviceReboots

\* The scan is over a finite list, and every transfer has a timeout: its own, or
\* IOKit's for the control request.  A boot ROM that has taken a reboot command
\* reboots when dDelayMS is over.
Spec == Init /\ [][Next]_vars /\ WF_vars(HostStep) /\ WF_vars(BootRomReboots)

-----------------------------------------------------------------------------
(* Properties. *)

RebootTypeOK ==
  /\ ScanTypeOK
  /\ LinkTypeOK
  /\ bootsel \in BOOLEAN
  /\ pc \in {"scan", "reset", "picoboot", "sending", "report", "close", "exited"}
  /\ result \in {"ok", "failed"}
  /\ said \in {"nothing", "already", "sent", "requested", "failed"}
  /\ mode \in {"up", "taken", "rebooted"}
  /\ faults \in 0 .. MaxFaults

\* reboot_via_picoboot was called for a device in BOOTSEL mode
AskedBootRom == InBootsel /\ ~ UsesReset

\* The message fits the device: "Reboot request sent." is said of a boot ROM only
\* when it has taken the reboot command, and "already in BOOTSEL mode" is not
\* said of a device that has carried out anything for this run.
ReportMatchesDevice ==
  /\ said = "sent" /\ AskedBootRom => mode # "up"
  /\ said = "already" => executed = {}

\* A reboot whose request was sent to a boot ROM comes: the device is not left
\* waiting for anything the tool still owes it.
ReportedRebootComes == said = "sent" /\ AskedBootRom ~> dpc = "gone"

\* The tool ends, and holds no handle then.
RebootEnds ==
  <>[](pc = "exited" /\ \A h \in DOMAIN opened : opened[h] = 0)

\* "reboot a device in BOOTSEL MODE back into APP MODE": without a fault of the
\* cable or the device, a device in BOOTSEL mode that was found, and is not still
\* busy, has taken the command when the tool ends.
BootselDeviceIsRebooted ==
  pc = "exited" /\ phase = "closed" /\ AskedBootRom /\ ~ bootsel
    /\ faults = 0 /\ dpc # "busy" => mode # "up"

\* The same of a device that no earlier run has left in the middle of anything:
\* it understands the command it gets, takes it, and is not asked too late.
FreshDeviceIsRebooted == dpc = "ready" => []BootselDeviceIsRebooted

\* "Device is already in BOOTSEL mode." is said of devices in BOOTSEL mode.
AlreadyMeansBootsel == said = "already" => InBootsel

=============================================================================
