------------------------------ MODULE FrontEnd ------------------------------
(***************************************************************************)
(* Both programs from their arguments to the end of find_device and the    *)
(* closing calls: CommandLine composed with DeviceScan.  The scan starts   *)
(* when the arguments ask for it, and for the program that was called.     *)
(***************************************************************************)
EXTENDS CommandLine, DeviceScan

frontVars == <<argsVars, scanVars>>

FrontInit ==
  /\ ArgsInit
  /\ ScanInit
  /\ tool = program

ParseArguments == ArgsNext /\ UNCHANGED scanVars

find_device ==
  /\ outcome = "find_device"
  /\ ScanNext
  /\ UNCHANGED argsVars

FrontNext == ParseArguments \/ find_device

\* a program that is called runs on
FrontSpec == FrontInit /\ [][FrontNext]_frontVars /\ WF_frontVars(FrontNext)

\* Only a program that was asked for a device opens one: a dry run, a question
\* for help and a command line that is not understood do so "without using a
\* connected device".
DevicesAreOpenedWhenAsked ==
  [][\A h \in DOMAIN opened : opened'[h] > opened[h] =>
       /\ {"--dryrun", "--help"} \cap Given = {}
       /\ program = "load" => Names # {}]_frontVars

=============================================================================
