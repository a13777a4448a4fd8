---------------------------- MODULE RebootProofs ----------------------------
(***************************************************************************)
(* dapico-reboot with the device it finds, for every list of devices and   *)
(* any number of faults: its report about a boot ROM is true, its scan     *)
(* holds what it matched, and without a fault a device in BOOTSEL mode     *)
(* that was ready takes the command.  Nothing is said of a request to a    *)
(* reset interface: its answer tells nothing of what the firmware does.    *)
(*                                                                         *)
(* The invariant follows the one command from RebootCommand to mode: what  *)
(* the device takes in this run is a reboot command, a boot ROM that       *)
(* carries it out has taken the reboot, and "ok" means that it was carried *)
(* out.  For a device that was ready FreshDevice adds that, as long as     *)
(* nothing goes wrong, it is ready for the command or busy with it.        *)
(***************************************************************************)
EXTENDS Reboot, DeviceScanProofs, PicobootProofs

\* Every step of the tool is a step of the scan or leaves it alone.
LEMMA StepsScan == [Next]_vars => [ScanNext]_scanVars
  BY DEF Next, vars, HostStep, DeviceStep, find_device, NoDevice, Dispatch,
         reboot_via_reset_interface, AlreadyInBootsel, CallReboot, HostTransfer,
         AfterReboot, Report, Close, DeviceExecutes, DeviceRejects, DeviceReboots,
         DeviceUnplugged, ScanNext

\* Every step of the tool is a step of the link or leaves it alone.
LEMMA StepsLink == [Next]_vars => [LinkNext]_linkVars
<1> SUFFICES ASSUME [Next]_vars PROVE [LinkNext]_linkVars
  OBVIOUS
<1>1. CASE UNCHANGED vars
  BY <1>1 DEF vars
<1>2. CASE \/ find_device \/ NoDevice \/ Dispatch \/ reboot_via_reset_interface
           \/ AlreadyInBootsel \/ Report \/ Close
  BY <1>2 DEF find_device, NoDevice, Dispatch, reboot_via_reset_interface,
     AlreadyInBootsel, Report, Close
<1>3. CASE CallReboot \/ HostTransfer \/ AfterReboot
  BY <1>3 DEF CallReboot, HostTransfer, AfterReboot, LinkNext
<1>4. CASE DeviceStep
  BY <1>4 DEF DeviceStep, DeviceExecutes, DeviceRejects, DeviceReboots,
     DeviceUnplugged, LinkNext
<1> QED
  BY <1>1, <1>2, <1>3, <1>4 DEF Next, HostStep

\* Composed with the device, the scan still holds exactly what it matched.
THEOREM RebootHoldsWhatItMatched == Spec => []HoldsWhatItMatched
<1>1. Init => ScanInit
  BY DEF Init
<1> QED
  BY <1>1, StepsScan, ScanHoldsWhatItMatched, PTL DEF Spec, ScanSpec

-----------------------------------------------------------------------------
(* ReportMatchesDevice. *)

InMain == {"reset", "picoboot", "sending", "report", "close"}

\* the device is chosen, and by which interface it is asked
AsksChosen ==
  /\ pc \in {"scan", "exited"} \cup InMain
  /\ pc \in InMain => phase = "found"
  /\ pc = "reset" => UsesReset
  /\ pc \in {"picoboot", "sending"} => ~ UsesReset
  /\ token = 2 => ~ bootsel

\* one command at most, sent by CallReboot
OneCommand ==
  /\ pc \in {"scan", "reset", "picoboot"} => token = 1 /\ stage = "idle"
  /\ pc = "sending" => token = 2
  /\ token \in {1, 2}

\* what the device takes in this run is a reboot command
OursIsReboot ==
  /\ token = 2 => cmd.id \in RebootId
  /\ dtoken = 1 => dcmd.id \in RebootId

CarriedMeansTaken == 1 \in executed /\ InBootsel /\ Chosen => mode # "up"

OkIsTrue == stage = "returned" /\ ret = "ok" => token - 1 \in executed

\* what is said is true, and what will be said
Said ==
  /\ result \in {"ok", "failed"}
  /\ pc \in {"scan", "reset", "picoboot", "sending"} => said = "nothing"
  /\ pc = "report" =>
       /\ said = "nothing" \/ (said = "already" /\ bootsel /\ reset = 0)
       /\ said = "nothing" /\ result = "ok" /\ AskedBootRom => mode # "up"
  /\ said = "already" => token = 1
  /\ said \in {"sent", "requested"} => Chosen

RebootInv ==
  /\ LinkInv
  /\ AsksChosen
  /\ OneCommand
  /\ OursIsReboot
  /\ CarriedMeansTaken
  /\ OkIsTrue
  /\ Said
  /\ ReportMatchesDevice

LEMMA RebootInitInv == Init => RebootInv
<1> SUFFICES ASSUME Init PROVE RebootInv
  OBVIOUS
<1>1. LinkInv
  BY LinkInitInv DEF Init
<1> QED
  BY <1>1 DEF Init, LinkInit, RebootInv, AsksChosen, InMain, OneCommand,
     OursIsReboot, CarriedMeansTaken, OkIsTrue, Said, ReportMatchesDevice

\* With nothing sent, nothing was carried out and nothing of this run taken.
LEMMA NothingTaken ==
  ASSUME LinkInv, token = 1 PROVE executed = {} /\ dtoken = 0
  BY SMT DEF LinkInv, LinkTypes, TokensInOrder

\* The scan comes before everything else.
LEMMA ScanningInv ==
  ASSUME RebootInv, LinkInv', find_device \/ NoDevice
  PROVE  RebootInv'
<1>1. /\ pc = "scan" /\ pc' \in {"scan", "exited"} /\ result' \in {result, "failed"}
      /\ UNCHANGED <<stage, cmd, token, ret, dtoken, dcmd, executed, bootsel, said>>
  BY DEF find_device, NoDevice, linkVars, hostVars, deviceVars, rebootVars
<1>2. token = 1 /\ stage = "idle" /\ said = "nothing" /\ executed = {} /\ dtoken = 0
  BY <1>1, NothingTaken DEF RebootInv, OneCommand, Said
<1> QED
  BY <1>1, <1>2 DEF RebootInv, AsksChosen, InMain, OneCommand, OursIsReboot,
     CarriedMeansTaken, OkIsTrue, Said, ReportMatchesDevice

\* What a step that leaves the scan alone leaves alone with it.
LEMMA ScanKept ==
  ASSUME UNCHANGED scanVars
  PROVE  UNCHANGED <<phase, reset, picoboot, InBootsel, Chosen>>
  BY DEF scanVars, matchVars, InBootsel, product_id, Chosen

\* The choice of the interface.
LEMMA DispatchInv ==
  ASSUME RebootInv, LinkInv', Dispatch
  PROVE  RebootInv'
<1>1. /\ pc = "scan" /\ phase = "found"
      /\ pc' = IF UsesReset THEN "reset" ELSE "picoboot"
      /\ UNCHANGED <<stage, cmd, token, ret, dtoken, dcmd, executed, bootsel, said,
                     result, phase, reset, picoboot, mode>>
  BY ScanKept DEF Dispatch, linkVars, hostVars, deviceVars
<1>2. token = 1 /\ stage = "idle" /\ said = "nothing" /\ executed = {} /\ dtoken = 0
  BY <1>1, NothingTaken DEF RebootInv, OneCommand, Said
<1> QED
  BY <1>1, <1>2 DEF RebootInv, AsksChosen, InMain, OneCommand, OursIsReboot,
     CarriedMeansTaken, OkIsTrue, Said, ReportMatchesDevice, UsesReset, AskedBootRom

\* The reset request, and the device that is left alone.
LEMMA RequestInv ==
  ASSUME RebootInv, LinkInv', reboot_via_reset_interface \/ AlreadyInBootsel
  PROVE  RebootInv'
<1>1. /\ pc \in {"reset", "picoboot"} /\ pc' = "report"
      /\ result' \in {"ok", "failed"}
      /\ UNCHANGED <<stage, cmd, token, ret, dtoken, dcmd, executed, bootsel,
                     phase, reset, picoboot>>
      /\ InBootsel' = InBootsel /\ Chosen' = Chosen
  BY ScanKept DEF reboot_via_reset_interface, AlreadyInBootsel, Returns, linkVars,
     hostVars, deviceVars
<1>2. token = 1 /\ stage = "idle" /\ said = "nothing" /\ executed = {} /\ dtoken = 0
  BY <1>1, NothingTaken DEF RebootInv, OneCommand, Said
<1>3. \/ said' = "nothing" /\ ~ AskedBootRom'
      \/ said' = "already" /\ bootsel /\ reset = 0
  <2>1. CASE reboot_via_reset_interface
    <3>1. UsesReset /\ said' = said
      BY <2>1 DEF reboot_via_reset_interface, RebootInv, AsksChosen
    <3>2. UsesReset'
      BY <1>1, <3>1 DEF UsesReset
    <3> QED
      BY <1>2, <3>1, <3>2 DEF AskedBootRom
  <2>2. CASE AlreadyInBootsel
    BY <2>2 DEF AlreadyInBootsel, RebootInv, AsksChosen, UsesReset
  <2> QED
    BY <2>1, <2>2
<1> QED
  BY <1>1, <1>2, <1>3 DEF RebootInv, AsksChosen, InMain, OneCommand, OursIsReboot,
     CarriedMeansTaken, OkIsTrue, Said, ReportMatchesDevice

\* The one command is sent.
LEMMA CallInv ==
  ASSUME RebootInv, LinkInv', CallReboot
  PROVE  RebootInv'
<1>1. /\ pc = "picoboot" /\ pc' = "sending" /\ ~ bootsel
      /\ stage' = "command" /\ cmd' = RebootCommand /\ token' = token + 1
      /\ UNCHANGED <<dtoken, dcmd, executed, bootsel, result, said,
                     phase, reset, picoboot>>
  BY ScanKept DEF CallReboot, Call, deviceVars
<1>2. token = 1 /\ said = "nothing" /\ executed = {} /\ dtoken = 0 /\ ~ UsesReset
      /\ phase = "found"
  BY <1>1, NothingTaken DEF RebootInv, OneCommand, Said, AsksChosen, InMain
<1>3. token' = 2 /\ cmd'.id \in RebootId
  BY <1>1, <1>2 DEF RebootCommand, NoCommand, RebootId
<1> QED
  BY <1>1, <1>2, <1>3 DEF RebootInv, AsksChosen, InMain, OneCommand, OursIsReboot,
     CarriedMeansTaken, OkIsTrue, Said, ReportMatchesDevice, UsesReset, AskedBootRom

\* A transfer: what the device takes is what was sent, and success is told of
\* what was carried out.
LEMMA TransferStepInv ==
  ASSUME RebootInv, LinkInv', HostTransfer
  PROVE  RebootInv'
<1>1. /\ stage \in {"command", "data", "ack"} /\ stage' # "idle"
      /\ UNCHANGED <<cmd, token, pc, bootsel, result, said, mode,
                     phase, reset, picoboot>>
      /\ InBootsel' = InBootsel /\ Chosen' = Chosen
  BY ScanKept DEF HostTransfer, TransferSucceeds, TransferFails, TransferBreaks,
     Transfer, Fails, Transferring, rebootVars
<1>2. executed' = executed
  BY <1>1, TransferInv DEF HostTransfer, TransferSucceeds, TransferFails,
     TransferBreaks, deviceVars, RebootInv
<1>3. \/ UNCHANGED <<dtoken, dcmd>>
      \/ dtoken' = token - 1 /\ dcmd' = cmd
  BY DEF HostTransfer, TransferSucceeds, TransferFails, TransferBreaks, Transfer,
     TakesCommand, TakesData, GivesAck, deviceVars
<1>4. OursIsReboot'
  BY <1>1, <1>3 DEF RebootInv, OursIsReboot, OneCommand
<1>5. OkIsTrue'
  <2>1. CASE TransferSucceeds
    <3>1. Transfer /\ (stage' = "returned" => stage = "ack")
      BY <1>1, <2>1 DEF TransferSucceeds
    <3> QED
      BY <1>1, <3>1, TransferInv DEF RebootInv, OkIsTrue
  <2>2. CASE TransferFails \/ TransferBreaks
    BY <2>2 DEF TransferFails, TransferBreaks, Fails, OkIsTrue
  <2> QED
    BY <2>1, <2>2 DEF HostTransfer
<1>6. pc \notin {"scan", "reset", "picoboot"}
  BY <1>1 DEF RebootInv, OneCommand
<1> QED
  BY <1>1, <1>2, <1>4, <1>5, <1>6 DEF RebootInv, AsksChosen, OneCommand,
     CarriedMeansTaken, Said, ReportMatchesDevice, UsesReset, AskedBootRom

\* main() takes "ok" for a reboot that was taken.
LEMMA ReturnInv ==
  ASSUME RebootInv, LinkInv', AfterReboot
  PROVE  RebootInv'
<1>1. /\ pc = "sending" /\ pc' = "report"
      /\ stage = "returned" /\ stage' = "idle"
      /\ result' = IF ret = "ok" THEN "ok" ELSE "failed"
      /\ UNCHANGED <<cmd, token, ret, dtoken, dcmd, executed, bootsel, said, mode,
                     phase, reset, picoboot>>
      /\ InBootsel' = InBootsel /\ Chosen' = Chosen
  BY ScanKept DEF AfterReboot, Resume, Returns, deviceVars
<1>2. token = 2 /\ said = "nothing" /\ ~ UsesReset /\ phase = "found" /\ ~ bootsel
  BY <1>1 DEF RebootInv, OneCommand, Said, AsksChosen, InMain
<1>3. ret = "ok" => 1 \in executed
  BY <1>1, <1>2 DEF RebootInv, OkIsTrue
<1>4. result' = "ok" /\ AskedBootRom => mode # "up"
  BY <1>1, <1>2, <1>3 DEF RebootInv, CarriedMeansTaken, Chosen, AskedBootRom
<1> QED
  BY <1>1, <1>2, <1>4 DEF RebootInv, AsksChosen, InMain, OneCommand, OursIsReboot,
     CarriedMeansTaken, OkIsTrue, Said, ReportMatchesDevice, UsesReset, AskedBootRom

\* The message, and the end.
LEMMA ReportInv ==
  ASSUME RebootInv, LinkInv', Report \/ Close
  PROVE  RebootInv'
<1>1. /\ UNCHANGED <<stage, cmd, token, ret, dtoken, dcmd, executed, bootsel, result,
                     mode>>
  BY DEF Report, Close, linkVars, hostVars, deviceVars
<1>2. CASE Report
  <2>1. /\ pc = "report" /\ pc' = "close"
        /\ UNCHANGED <<phase, reset, picoboot>>
        /\ InBootsel' = InBootsel /\ Chosen' = Chosen
        /\ said' = IF result = "failed" THEN "failed"
                   ELSE IF ~ bootsel THEN "sent"
                   ELSE IF reset # 0 THEN "requested"
                   ELSE said
    BY <1>2, ScanKept DEF Report
  <2>2. phase = "found" /\ Chosen
    BY <2>1 DEF RebootInv, AsksChosen, InMain, Chosen
  <2>3. ReportMatchesDevice'
    BY <1>1, <2>1 DEF RebootInv, Said, ReportMatchesDevice, UsesReset, AskedBootRom
  <2> QED
    BY <1>1, <2>1, <2>2, <2>3 DEF RebootInv, AsksChosen, InMain, OneCommand,
       OursIsReboot, CarriedMeansTaken, OkIsTrue, Said
<1>3. CASE Close
  <2>1. /\ pc = "close" /\ pc' = "exited" /\ phase = "found" /\ phase' = "closed"
        /\ UNCHANGED <<said, reset, picoboot>>
        /\ InBootsel' = InBootsel
    BY <1>3 DEF Close, CloseAll, matchVars, InBootsel, product_id
  <2> QED
    BY <1>1, <2>1 DEF RebootInv, AsksChosen, InMain, OneCommand, OursIsReboot,
       CarriedMeansTaken, OkIsTrue, Said, ReportMatchesDevice, UsesReset, AskedBootRom, Chosen
<1> QED
  BY <1>2, <1>3

\* The device: a command of this run that a boot ROM carries out is a reboot.
LEMMA DeviceInv ==
  ASSUME RebootInv, LinkInv', DeviceStep
  PROVE  RebootInv'
<1>1. /\ UNCHANGED <<stage, cmd, token, ret, pc, bootsel, result, said, dtoken, dcmd,
                     phase, reset, picoboot>>
      /\ InBootsel' = InBootsel /\ Chosen' = Chosen
      /\ mode # "up" => mode' # "up"
  BY ScanKept DEF DeviceStep, DeviceExecutes, DeviceRejects, DeviceReboots,
     DeviceUnplugged, Execute, Reject, Unplug, hostVars, rebootVars
<1>2. CarriedMeansTaken' /\ executed \subseteq executed'
  <2>1. CASE DeviceExecutes
    <3>1. /\ executed' = executed \cup ({dtoken} \ {0})
          /\ InBootsel /\ dcmd.id \in RebootId => mode' = "taken"
      BY <2>1 DEF DeviceExecutes, Execute
    <3>2. 1 \in executed' => 1 \in executed \/ dtoken = 1
      BY <3>1
    <3> QED
      BY <1>1, <3>1, <3>2 DEF RebootInv, OursIsReboot, CarriedMeansTaken
  <2>2. CASE DeviceRejects \/ DeviceReboots \/ DeviceUnplugged
    BY <1>1, <2>2 DEF DeviceRejects, DeviceReboots, DeviceUnplugged, Reject, Unplug,
       RebootInv, CarriedMeansTaken
  <2> QED
    BY <2>1, <2>2 DEF DeviceStep
<1>3. token = 1 => executed' = {}
  BY <1>1, NothingTaken DEF DeviceStep, LinkInv, LinkTypes, TokensInOrder
<1> QED
  BY <1>1, <1>2, <1>3 DEF RebootInv, AsksChosen, OneCommand, OursIsReboot, OkIsTrue,
     Said, ReportMatchesDevice, UsesReset, AskedBootRom

LEMMA RebootNextInv == RebootInv /\ [Next]_vars => RebootInv'
<1> SUFFICES ASSUME RebootInv, [Next]_vars PROVE RebootInv'
  OBVIOUS
<1>1. LinkInv'
  BY StepsLink, LinkNextInv DEF RebootInv
<1>2. CASE UNCHANGED vars
  <2>1. UNCHANGED <<phase, reset, picoboot, InBootsel, Chosen>>
    BY <1>2, ScanKept DEF vars
  <2> QED
    BY <1>1, <1>2, <2>1 DEF vars, linkVars, hostVars, deviceVars, rebootVars,
       RebootInv, AsksChosen, OneCommand, OursIsReboot, CarriedMeansTaken, OkIsTrue,
       Said, ReportMatchesDevice, UsesReset, AskedBootRom
<1> QED
  BY <1>1, <1>2, ScanningInv, DispatchInv, RequestInv, CallInv, TransferStepInv,
     ReturnInv, ReportInv, DeviceInv DEF Next, HostStep

\* "Reboot request sent." is printed of a boot ROM only when it has carried out
\* the PICOBOOT reboot command, and "already in BOOTSEL mode" only when the device
\* was asked for nothing, for any number of faults.  "Requested reboot into BOOTSEL
\* mode." is not part of it: main() prints it for any answer to a control request.
THEOREM RebootReportIsTrue == Spec => []ReportMatchesDevice
<1>1. RebootInv => ReportMatchesDevice
  BY DEF RebootInv
<1> QED
  BY <1>1, RebootInitInv, RebootNextInv, PTL DEF Spec

-----------------------------------------------------------------------------
(* RebootTypeOK: what RebootInv and the scan do not say of the types. *)

RestTyped ==
  /\ cmd \in Command /\ dcmd \in Command
  /\ dcode \in {"ok", "error"}
  /\ bootsel \in BOOLEAN
  /\ said \in {"nothing", "already", "sent", "requested", "failed"}
  /\ mode \in {"up", "taken", "rebooted"}
  /\ faults \in 0 .. MaxFaults

\* What is sent and what a device is found with are commands.
LEMMA RebootIsACommand == NoCommand \in Command /\ RebootCommand \in Command
<1>1. <<>> \in Seq(Nat \X Nat)
  OBVIOUS
<1>2. \A id \in CommandId : [NoCommand EXCEPT !.id = id] \in Command
  BY <1>1 DEF NoCommand, Command
<1>3. "EXIT_XIP" \in CommandId /\ "REBOOT" \in CommandId /\ "REBOOT2" \in CommandId
  BY DEF CommandId
<1>4. NoCommand \in Command
  BY <1>1, <1>3 DEF NoCommand, Command
<1> QED
  BY <1>2, <1>3, <1>4 DEF RebootCommand

\* The link carries nothing but commands.
LEMMA CommandsStayTyped ==
  ASSUME RestTyped, [Next]_vars
  PROVE  cmd' \in Command /\ dcmd' \in Command /\ dcode' \in {"ok", "error"}
<1> USE DEF RestTyped
<1>1. CASE CallReboot
  BY <1>1, RebootIsACommand DEF CallReboot, Call, deviceVars
<1>2. CASE HostTransfer
  <2>1. cmd' = cmd
    BY <1>2 DEF HostTransfer, TransferSucceeds, TransferFails, TransferBreaks, Fails
  <2>2. dcmd' \in {dcmd, cmd} /\ dcode' \in {dcode, "ok", "error"}
    BY <1>2 DEF HostTransfer, TransferSucceeds, TransferFails, TransferBreaks,
       Transfer, TakesCommand, TakesData, GivesAck, deviceVars
  <2> QED
    BY <2>1, <2>2
<1>3. CASE DeviceStep
  BY <1>3 DEF DeviceStep, DeviceExecutes, DeviceRejects, DeviceReboots,
     DeviceUnplugged, Execute, Reject, Unplug, hostVars
<1>4. CASE AfterReboot
  BY <1>4 DEF AfterReboot, Resume, deviceVars
<1>5. CASE \/ UNCHANGED vars \/ find_device \/ NoDevice \/ Dispatch
           \/ reboot_via_reset_interface \/ AlreadyInBootsel \/ Report \/ Close
  BY <1>5 DEF vars, find_device, NoDevice, Dispatch, reboot_via_reset_interface,
     AlreadyInBootsel, Report, Close, linkVars, hostVars, deviceVars
<1> QED
  BY <1>1, <1>2, <1>3, <1>4, <1>5 DEF Next, HostStep

LEMMA RestStaysTyped ==
  ASSUME RestTyped, [Next]_vars
  PROVE  RestTyped'
<1> USE DEF RestTyped
<1>1. cmd' \in Command /\ dcmd' \in Command /\ dcode' \in {"ok", "error"}
  BY CommandsStayTyped
<1>2. /\ bootsel' = bootsel
      /\ said' \in {said, "already", "failed", "sent", "requested"}
      /\ mode' \in {mode, "taken", "rebooted"}
      /\ faults' = faults \/ Fault
  BY DEF Next, HostStep, DeviceStep, vars, rebootVars, find_device, NoDevice,
     Dispatch, reboot_via_reset_interface, AlreadyInBootsel, CallReboot,
     HostTransfer, AfterReboot, Report, Close, DeviceExecutes, DeviceRejects,
     DeviceReboots, DeviceUnplugged, NoFault
<1>3. bootsel' \in BOOLEAN
  BY <1>2, Zenon
<1>4. faults' \in 0 .. MaxFaults
  BY <1>2, RebootFaultsAreBounded, SMT DEF Fault
<1>5. /\ said' \in {"nothing", "already", "sent", "requested", "failed"}
      /\ mode' \in {"up", "taken", "rebooted"}
  BY <1>2
<1> QED
  BY <1>1, <1>3, <1>4, <1>5, Zenon

LEMMA RestInit == Init => RestTyped
<1> SUFFICES ASSUME Init PROVE RestTyped
  OBVIOUS
<1>1. cmd \in Command /\ dcmd \in Command /\ dcode \in {"ok", "error"}
  BY RebootIsACommand, LeftoversAreCommands, Zenon DEF Init, LinkInit
<1>2. said = "nothing" /\ mode = "up" /\ faults = 0 /\ bootsel \in BOOLEAN
  BY Zenon DEF Init
<1>3. faults \in 0 .. MaxFaults
  BY <1>2, RebootFaultsAreBounded, SMT
<1> QED
  BY <1>1, <1>2, <1>3, Zenon DEF RestTyped

\* dapico-reboot stays in its types whatever the registry lists, an earlier run
\* has left behind and the environment breaks: its report and its exit code are
\* of the few main() knows, and no more faults happen than are counted.
THEOREM RebootIsTyped == Spec => []RebootTypeOK
<1>1. RebootInv /\ ScanTypeOK /\ RestTyped => RebootTypeOK
  BY DEF RebootInv, AsksChosen, InMain, Said, LinkInv, LinkTypes, RestTyped,
     RebootTypeOK, LinkTypeOK
<1>2. Init => ScanInit
  BY DEF Init
<1> QED
  BY <1>1, <1>2, RestInit, RestStaysTyped, StepsScan, ScanIsTyped, RebootInitInv,
     RebootNextInv, PTL DEF Spec, ScanSpec

-----------------------------------------------------------------------------
(* FreshDeviceIsRebooted: as long as nothing went wrong and no request was *)
(* taken, the device is ready for the one command, or busy with it.        *)

NoCallOutside == pc # "sending" => stage = "idle"

FreshDevice ==
  faults = 0 /\ mode = "up" =>
    /\ pc \in {"scan", "reset", "picoboot"} => dpc = "ready"
    /\ Chosen /\ InBootsel /\ picoboot # 0 =>
         /\ pc = "sending" =>
              /\ cmd = RebootCommand
              /\ \/ stage = "command" /\ dpc = "ready"
                 \/ stage \in {"ack", "returned"} /\ dpc = "busy" /\ dcmd = cmd
         /\ pc \in {"report", "close", "exited"} /\ ~ bootsel =>
              dpc = "busy" /\ dcmd = RebootCommand

\* Transfers happen while main() waits for its call.
LEMMA NoCallOutsideNext == NoCallOutside /\ [Next]_vars => NoCallOutside'
  BY DEF NoCallOutside, Next, HostStep, DeviceStep, vars, linkVars, hostVars,
     rebootVars, find_device, NoDevice, Dispatch, reboot_via_reset_interface,
     AlreadyInBootsel, CallReboot, Returns, HostTransfer, AfterReboot, Report, Close,
     DeviceExecutes, DeviceRejects, DeviceReboots, DeviceUnplugged, Call, Resume,
     TransferSucceeds, TransferFails, TransferBreaks, Transfer, Fails, Transferring,
     Execute, Reject, Unplug

\* A request that was taken stays taken, and a fault that happened happened.
LEMMA StillFresh ==
  ASSUME RestTyped, [Next]_vars, faults' = 0, mode' = "up"
  PROVE  faults = 0 /\ mode = "up" /\ ~ Fault
<1>1. mode = "up"
  BY DEF RestTyped, Next, HostStep, DeviceStep, vars, rebootVars, find_device, NoDevice,
     Dispatch, reboot_via_reset_interface, AlreadyInBootsel, CallReboot, Returns,
     HostTransfer, AfterReboot, Report, Close, DeviceExecutes, DeviceRejects,
     DeviceReboots, DeviceUnplugged
<1>2. faults \in Nat
  BY RebootFaultsAreBounded, SMT DEF RestTyped
<1>3. faults' = faults \/ faults' = faults + 1
  BY DEF Next, HostStep, DeviceStep, vars, rebootVars, find_device, NoDevice,
     Dispatch, reboot_via_reset_interface, AlreadyInBootsel, CallReboot,
     HostTransfer, AfterReboot, Report, Close, DeviceExecutes, DeviceRejects,
     DeviceReboots, DeviceUnplugged, NoFault, Fault
<1>4. ~ Fault
  BY <1>2, SMT DEF Fault
<1> QED
  BY <1>1, <1>2, <1>3, <1>4, SMT

\* The reboot command is one the device understands, and has no data.
LEMMA RebootCommandFits ==
  /\ RebootCommand.id \in RebootId
  /\ Understands(RebootCommand)
  /\ ~ HasData(RebootCommand)
<1>1. /\ RebootCommand.data = <<>>
      /\ RebootCommand.id = IF product_id = "rp2350_boot" THEN "REBOOT2" ELSE "REBOOT"
  BY DEF RebootCommand, NoCommand
<1> QED
  BY <1>1 DEF RebootId, Understands, HasData

\* The scan and the choice of the interface leave the device alone.
LEMMA FreshWhileScanning ==
  ASSUME FreshDevice, faults = 0, mode = "up", ~ Fault,
         find_device \/ NoDevice \/ Dispatch, RebootInv
  PROVE  FreshDevice'
<1>1. pc = "scan" /\ pc' \in {"scan", "reset", "picoboot", "exited"} /\ dpc' = dpc
  BY DEF find_device, NoDevice, Dispatch, linkVars, deviceVars, rebootVars
<1>2. dpc' = "ready"
  BY <1>1 DEF FreshDevice
<1>3. pc' = "exited" => ~ Chosen'
  BY <1>1 DEF find_device, NoDevice, Dispatch, rebootVars, scanVars, Chosen
<1> QED
  BY <1>1, <1>2, <1>3 DEF FreshDevice

\* The other steps of main() call at most once, and end no call too early.
LEMMA FreshInMain ==
  ASSUME FreshDevice, faults = 0, mode = "up", mode' = "up", ~ Fault, RebootInv,
         \/ reboot_via_reset_interface \/ AlreadyInBootsel \/ CallReboot
         \/ AfterReboot \/ Report \/ Close
  PROVE  FreshDevice'
<1>1. /\ InBootsel' = InBootsel /\ RebootCommand' = RebootCommand
      /\ bootsel' = bootsel /\ dpc' = dpc /\ dcmd' = dcmd
      /\ picoboot' = picoboot /\ (Chosen' => Chosen)
  <2>1. UNCHANGED <<device, bus, picoboot>> /\ (Chosen' => Chosen)
    BY DEF reboot_via_reset_interface, AlreadyInBootsel, CallReboot, AfterReboot,
       Report, Close, CloseAll, scanVars, matchVars, Chosen
  <2>2. bootsel' = bootsel /\ dpc' = dpc /\ dcmd' = dcmd
    BY DEF reboot_via_reset_interface, AlreadyInBootsel, CallReboot, AfterReboot,
       Report, Close, Call, Resume, linkVars, deviceVars
  <2> QED
    BY <2>1, <2>2 DEF InBootsel, RebootCommand, product_id
<1>2. CASE reboot_via_reset_interface
  <2>1. UsesReset /\ pc' = "report"
    BY <1>2 DEF reboot_via_reset_interface, Returns, RebootInv, AsksChosen
  <2>2. bootsel \/ picoboot = 0
    BY <2>1 DEF UsesReset
  <2> QED
    BY <1>1, <2>1, <2>2 DEF FreshDevice
<1>3. CASE AlreadyInBootsel
  <2>1. bootsel /\ pc' = "report"
    BY <1>3 DEF AlreadyInBootsel, Returns
  <2> QED
    BY <1>1, <2>1 DEF FreshDevice
<1>4. CASE CallReboot
  <2>1. pc = "picoboot" /\ pc' = "sending" /\ cmd' = RebootCommand /\ stage' = "command"
    BY <1>4 DEF CallReboot, Call
  <2>2. dpc = "ready"
    BY <2>1 DEF FreshDevice
  <2> QED
    BY <1>1, <2>1, <2>2 DEF FreshDevice
<1>5. CASE AfterReboot
  <2>1. pc = "sending" /\ pc' = "report" /\ stage = "returned"
    BY <1>5 DEF AfterReboot, Resume, Returns
  <2> QED
    BY <1>1, <2>1 DEF FreshDevice
<1>6. CASE Report \/ Close
  <2>1. pc \in {"report", "close"} /\ pc' \in {"close", "exited"}
    BY <1>6 DEF Report, Close
  <2> QED
    BY <1>1, <2>1 DEF FreshDevice
<1> QED
  BY <1>2, <1>3, <1>4, <1>5, <1>6

\* A transfer without a fault ends with the device busy with the command.
LEMMA FreshTransfer ==
  ASSUME FreshDevice, faults = 0, mode = "up", ~ Fault, NoCallOutside, HostTransfer
  PROVE  FreshDevice'
<1>1. /\ pc' = pc /\ bootsel' = bootsel /\ cmd' = cmd /\ Chosen' = Chosen
      /\ InBootsel' = InBootsel /\ RebootCommand' = RebootCommand
      /\ picoboot' = picoboot
  BY DEF HostTransfer, TransferSucceeds, TransferFails, TransferBreaks, Fails,
     rebootVars, scanVars, matchVars, Chosen, InBootsel, RebootCommand, product_id
<1>2. pc = "sending"
  <2>1. stage \in {"command", "data", "ack"}
    BY DEF HostTransfer, TransferSucceeds, TransferFails, TransferBreaks, Transfer,
       Fails, Transferring
  <2> QED
    BY <2>1 DEF NoCallOutside
<1>3. CASE Chosen /\ InBootsel /\ picoboot # 0
  <2>1. /\ cmd = RebootCommand
        /\ \/ stage = "command" /\ dpc = "ready"
           \/ stage = "ack" /\ dpc = "busy" /\ dcmd = cmd
    BY <1>2, <1>3 DEF FreshDevice, HostTransfer, TransferSucceeds, TransferFails,
       TransferBreaks, Transfer, Fails, Transferring
  <2>2. ~ HasData(cmd)
    BY <2>1, RebootCommandFits
  <2>3. CASE TransferSucceeds
    <3>1. stage = "command" /\ dpc = "ready"
      BY <2>1, <2>3 DEF TransferSucceeds, Transfer, GivesAck
    <3>2. dpc' = "busy" /\ dcmd' = cmd
      BY <2>2, <2>3, <3>1 DEF TransferSucceeds, Transfer, TakesCommand
    <3>3. stage' = "ack"
      BY <2>2, <2>3, <3>1 DEF TransferSucceeds
    <3> QED
      BY <1>1, <1>2, <2>1, <3>2, <3>3 DEF FreshDevice
  <2>4. CASE TransferFails
    <3>1. stage = "ack" /\ dpc = "busy" /\ dcmd = cmd
      BY <2>1, <2>4 DEF TransferFails
    <3>2. stage' = "returned" /\ dpc' = dpc /\ dcmd' = dcmd
      BY <2>4 DEF TransferFails, Fails, deviceVars
    <3> QED
      BY <1>1, <1>2, <2>1, <3>1, <3>2 DEF FreshDevice
  <2> QED
    BY <2>3, <2>4 DEF HostTransfer
<1>4. CASE ~ (Chosen /\ InBootsel /\ picoboot # 0)
  BY <1>1, <1>2, <1>4 DEF FreshDevice
<1> QED
  BY <1>3, <1>4

\* The device on its own: it has nothing to do, or the one command, which it
\* understands and so carries out.
LEMMA FreshOnItsOwn ==
  ASSUME FreshDevice, faults = 0, mode = "up", mode' = "up", ~ Fault, RebootInv,
         DeviceStep
  PROVE  FreshDevice'
<1>1. /\ pc' = pc /\ bootsel' = bootsel /\ cmd' = cmd /\ dcmd' = dcmd
      /\ stage' = stage /\ Chosen' = Chosen /\ picoboot' = picoboot
      /\ InBootsel' = InBootsel /\ RebootCommand' = RebootCommand
  BY DEF DeviceStep, DeviceExecutes, DeviceRejects, DeviceReboots, DeviceUnplugged,
     Execute, Reject, Unplug, hostVars, rebootVars, scanVars, matchVars, Chosen, InBootsel,
     RebootCommand, product_id
<1>2. dpc = "busy" /\ Chosen /\ (DeviceExecutes \/ DeviceRejects)
  BY DEF DeviceStep, DeviceExecutes, DeviceRejects, DeviceReboots, DeviceUnplugged,
     Execute, Reject
<1>3. pc \notin {"scan", "reset", "picoboot"}
  BY <1>2 DEF FreshDevice
<1>4. CASE InBootsel /\ picoboot # 0 /\ (pc = "sending" \/ ~ bootsel)
  <2>1. dcmd = RebootCommand
    BY <1>2, <1>3, <1>4 DEF FreshDevice, RebootInv, AsksChosen, InMain
  <2>2. CASE DeviceExecutes
    BY <1>4, <2>1, <2>2, RebootCommandFits DEF DeviceExecutes
  <2>3. CASE DeviceRejects
    BY <1>4, <2>1, <2>3, RebootCommandFits DEF DeviceRejects
  <2> QED
    BY <1>2, <2>2, <2>3
<1>5. CASE ~ (InBootsel /\ picoboot # 0 /\ (pc = "sending" \/ ~ bootsel))
  BY <1>1, <1>3, <1>5 DEF FreshDevice
<1> QED
  BY <1>4, <1>5

LEMMA FreshNext ==
  ASSUME RebootInv, RestTyped, NoCallOutside, FreshDevice, [Next]_vars
  PROVE  FreshDevice'
<1> SUFFICES ASSUME faults' = 0, mode' = "up" PROVE FreshDevice'
  BY DEF FreshDevice
<1>1. faults = 0 /\ mode = "up" /\ ~ Fault
  BY StillFresh
<1>2. CASE UNCHANGED vars
  <2>1. /\ InBootsel' = InBootsel /\ RebootCommand' = RebootCommand
        /\ Chosen' = Chosen /\ picoboot' = picoboot
    BY <1>2 DEF vars, scanVars, matchVars, InBootsel, RebootCommand, product_id, Chosen
  <2> QED
    BY <1>1, <1>2, <2>1 DEF vars, linkVars, hostVars, deviceVars, rebootVars, FreshDevice
<1> QED
  BY <1>1, <1>2, FreshWhileScanning, FreshInMain, FreshTransfer, FreshOnItsOwn
     DEF Next, HostStep

\* Without a fault, a BOOTSEL device that was ready when the tool started has
\* taken the reboot request when the tool ends, or is still at it, whatever else
\* is on the bus: reboot_via_picoboot picks the command of the product that was
\* found, and an acknowledgement that comes too late does not undo it.
THEOREM RebootReachesTheDevice == Spec => FreshDeviceIsRebooted
<1>1. Init /\ dpc = "ready" => FreshDevice
  BY DEF Init, FreshDevice, ScanInit, Chosen
<1>2. Init => NoCallOutside
  BY DEF Init, LinkInit, NoCallOutside
<1>3. RebootInv /\ RestTyped /\ NoCallOutside /\ FreshDevice /\ [Next]_vars
        => FreshDevice'
  BY FreshNext
<1>4. FreshDevice => BootselDeviceIsRebooted
  BY DEF FreshDevice, BootselDeviceIsRebooted, AskedBootRom, UsesReset, Chosen
<1> QED
  BY <1>1, <1>2, <1>3, <1>4, NoCallOutsideNext, RestInit, RestStaysTyped,
     RebootInitInv, RebootNextInv, PTL DEF Spec, FreshDeviceIsRebooted

=============================================================================
