------------------------------ MODULE Picoboot ------------------------------
(***************************************************************************)
(* The PICOBOOT link between one of the tools and a device in BOOTSEL mode.*)
(*                                                                         *)
(* The host side is send_picoboot_command: write the 32-byte command, then *)
(* its data if it has any, then read the acknowledgement; every transfer   *)
(* has a timeout and the first one that fails ends the call.  All commands *)
(* the tools issue are OUT commands, so the branches for IN commands (bit  *)
(* 0x80) are dead code and left out.  dapico-reboot has a copy of the      *)
(* function without the data.                                              *)
(*                                                                         *)
(* The device side is the boot ROM, which is not in the repository.  It is *)
(* modelled from include/boot/picoboot.h: a command, its transfer and a    *)
(* zero-length acknowledgement; an endpoint is stalled on error until      *)
(* PICOBOOT_IF_RESET; the status of the last command, with its token, can  *)
(* be asked for.  It takes the next command only when the acknowledgement  *)
(* of the last one has been read.  A run that was killed may have left it  *)
(* in the middle of anything, also of carrying out a command.              *)
(***************************************************************************)
EXTENDS Naturals, Sequences

CONSTANT Leftovers   \* commands of a killed run the device may still be at

VARIABLES
  stage,     \* where send_picoboot_command stands
  cmd,       \* the picoboot_cmd of the call
  token,     \* the static counter: the token of the next call
  ret,       \* what the last call returned
  dpc,       \* the state of the device's PICOBOOT interface
  dtoken,    \* token of the command the device took last, 0 for a killed run's
  dcmd,      \* that command
  dcode,     \* its dStatusCode, "ok" or "error"
  executed   \* tokens of the commands the device has carried out

hostVars   == <<stage, cmd, token, ret>>
deviceVars == <<dpc, dtoken, dcmd, dcode, executed>>
linkVars   == <<hostVars, deviceVars>>

CommandId == {"EXIT_XIP", "FLASH_ERASE", "WRITE", "EXEC", "REBOOT", "REBOOT2"}
Command == [id: CommandId, addr: Nat, size: Nat, data: Seq(Nat \X Nat)]
NoCommand == [id |-> "EXIT_XIP", addr |-> 0, size |-> 0, data |-> <<>>]

ASSUME LeftoversAreCommands == Leftovers \subseteq Command

HasData(c) == c.data # <<>>      \* dTransferLength != 0

LinkInit ==
  /\ stage = "idle"
  /\ cmd = NoCommand
  /\ token = 1
  /\ ret = "none"
  \* a run that was killed may have left any of these behind
  /\ \/ dpc \in {"ready", "data", "ack", "stalled"} /\ dcmd = NoCommand
     \/ dpc = "busy" /\ dcmd \in Leftovers
  /\ dtoken = 0
  /\ dcode \in {"ok", "error"}
  /\ executed = {}

-----------------------------------------------------------------------------
(* What the device's endpoints do with a transfer that reaches it. *)

\* The OUT endpoint takes the 32 bytes of a command.  A device that still
\* waits for data takes them for that data, which has the wrong length.
TakesCommand ==
  \/ /\ dpc = "ready"
     /\ dpc' = IF HasData(cmd) THEN "data" ELSE "busy"
     /\ dtoken' = token - 1
     /\ dcmd' = cmd
     /\ dcode' = "ok"
     /\ UNCHANGED executed
  \/ /\ dpc = "data"
     /\ dpc' = "stalled"
     /\ dcode' = "error"
     /\ UNCHANGED <<dtoken, dcmd, executed>>

TakesData ==
  /\ dpc = "data"
  /\ dpc' = "busy"
  /\ UNCHANGED <<dtoken, dcmd, dcode, executed>>

GivesAck ==
  /\ dpc = "ack"
  /\ dpc' = "ready"
  /\ UNCHANGED <<dtoken, dcmd, dcode, executed>>

\* the transfer the host waits for
Transfer ==
  \/ stage = "command" /\ TakesCommand
  \/ stage = "data"    /\ TakesData
  \/ stage = "ack"     /\ GivesAck

Transferring == stage \in {"command", "data", "ack"}

-----------------------------------------------------------------------------
(* send_picoboot_command. *)

Call(c) ==
  /\ stage = "idle"
  /\ stage' = "command"
  /\ cmd' = c
  /\ token' = token + 1
  /\ ret' = "none"
  /\ UNCHANGED deviceVars

\* Mutant of TransferSucceeds: the acknowledgement is not waited for.
TransferSucceedsUnacked ==
  /\ Transfer
  /\ stage' = IF stage = "command" /\ HasData(cmd) THEN "data" ELSE "returned"
  /\ ret' = IF stage' = "returned" THEN "ok" ELSE ret
  /\ UNCHANGED <<cmd, token>>

\* the transfer succeeds and the function goes on, or returns after the last one
TransferSucceeds ==
  /\ Transfer
  /\ stage' = CASE stage = "command" -> IF HasData(cmd) THEN "data" ELSE "ack"
                [] stage = "data"    -> "ack"
                [] stage = "ack"     -> "returned"
  /\ ret' = IF stage = "ack" THEN "ok" ELSE ret
  /\ UNCHANGED <<cmd, token>>

Fails(result) ==
  /\ Transferring
  /\ stage' = "returned"
  /\ ret' = result
  /\ UNCHANGED <<cmd, token>>

\* the device does not serve the transfer: gone, stalled, or too slow
TransferFails ==
  /\ \/ dpc = "gone" /\ Fails("nodevice")
     \/ dpc = "stalled" /\ Fails("error")
     \/ stage = "command" /\ dpc \in {"busy", "ack"} /\ Fails("error")
     \/ stage = "data" /\ dpc \in {"ready", "busy", "ack"} /\ Fails("error")
     \/ stage = "ack" /\ dpc \in {"ready", "data", "busy"} /\ Fails("error")
  /\ UNCHANGED deviceVars

\* a bus error or an abort: the call fails although the device could have
\* served the transfer, and it may even have done so
TransferBreaks ==
  /\ dpc \notin {"gone", "stalled"}
  /\ Fails("error")
  /\ Transfer \/ UNCHANGED deviceVars

\* the caller looks at the result
Resume ==
  /\ stage = "returned"
  /\ stage' = "idle"
  /\ UNCHANGED <<cmd, token, ret, deviceVars>>

-----------------------------------------------------------------------------
(* The device on its own. *)

\* it carries the command out; a program it started may take over the bus
Execute ==
  /\ dpc = "busy"
  /\ dpc' \in IF dcmd.id = "EXEC" THEN {"ack", "gone"} ELSE {"ack"}
  /\ executed' = executed \cup ({dtoken} \ {0})
  /\ UNCHANGED <<dtoken, dcmd, dcode, hostVars>>

Reject ==
  /\ dpc = "busy"
  /\ dpc' = "stalled"
  /\ dcode' = "error"
  /\ UNCHANGED <<dtoken, dcmd, executed, hostVars>>

Unplug ==
  /\ dpc # "gone"
  /\ dpc' = "gone"
  /\ UNCHANGED <<dtoken, dcmd, dcode, executed, hostVars>>

\* PICOBOOT_IF_RESET: "un-stall EPs and reset"; main() has no call in progress.
\* A command that is being carried out may or may not be abandoned.
IfReset ==
  /\ stage = "idle"
  /\ dpc # "gone"
  /\ dpc' \in IF dpc = "busy" THEN {"busy", "ready"} ELSE {"ready"}
  /\ UNCHANGED <<dtoken, dcmd, dcode, executed, hostVars>>

LinkNext ==
  \/ \E c : Call(c)
  \/ TransferSucceeds \/ TransferFails \/ TransferBreaks \/ Resume
  \/ Execute \/ Reject \/ Unplug
  \/ IfReset

LinkSpec == LinkInit /\ [][LinkNext]_linkVars

-----------------------------------------------------------------------------
LinkTypeOK ==
  /\ stage \in {"idle", "command", "data", "ack", "returned"}
  /\ cmd \in Command
  /\ token \in Nat \ {0}
  /\ ret \in {"none", "ok", "error", "nodevice"}
  /\ dpc \in {"ready", "data", "busy", "ack", "stalled", "gone"}
  /\ dtoken \in Nat
  /\ dcmd \in Command
  /\ dcode \in {"ok", "error"}
  /\ executed \subseteq Nat

\* The abstract service, seen through the link's state.
Service == INSTANCE CommandService WITH
  calling <- Transferring,
  serial  <- token - 1,
  answer  <- IF ret \in {"none", "ok"} THEN ret ELSE "failed",
  carried <- executed

\* The link is the service: commands reach the device at most once and in order,
\* and success is reported for nothing the device has not carried out, although
\* calls time out, answers come late and the caller may go on after a failure.
LinkIsService == Service!Spec

=============================================================================
