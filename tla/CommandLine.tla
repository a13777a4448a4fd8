---------------------------- MODULE CommandLine ----------------------------
(***************************************************************************)
(* The arguments of the two programs: the loops at the top of both mains,  *)
(* up to the point where a device is looked for or a dry run starts.       *)
(*                                                                         *)
(* An argument is an option, the word it stands for, or one of Others: the *)
(* empty string, or any other text, a file name and a misspelt option      *)
(* alike.  A switch of one program is unknown to the other.  The loader's  *)
(* switches are the Loader's allow_flash and exec_after, the rebooter's is *)
(* Reboot's bootsel.                                                       *)
(***************************************************************************)
EXTENDS Naturals, Sequences, SequencesExt

CONSTANTS
  Others,     \* the arguments that are no option of either program
  Empty,      \* the empty string among them
  MaxArgs     \* bounds the number of arguments

ASSUME EmptyIsOther == Empty \in Others
ASSUME ArgsAreBounded == MaxArgs \in Nat

\* -u, -v and -h are the same words as --bootsel, --verbose and --help
Switches(tool) ==
  IF tool = "load" THEN {"--flash", "--no-exec", "--dryrun"}
                   ELSE {"--bootsel", "--verbose"}

Arguments == Switches("load") \cup Switches("reboot") \cup {"--help"} \cup Others

\* what the loops have no case for
Unknown(tool) == Arguments \ (Switches(tool) \cup {"--help"})

VARIABLES
  program,
  argv,       \* without the program's own name
  k,          \* the argument the loop looks at
  switches,   \* the switches met so far
  filename,   \* the loader's, Empty at first
  outcome     \* "parsing", what runs now, or the exit code

argsVars == <<program, argv, k, switches, filename, outcome>>

ArgsInit ==
  /\ program \in {"load", "reboot"}
  /\ argv \in UNION {[1 .. n -> Arguments] : n \in 0 .. MaxArgs}
  /\ k = 1
  /\ switches = {}
  /\ filename = Empty
  /\ outcome = "parsing"

AtArgument(arg) ==
  /\ outcome = "parsing"
  /\ k <= Len(argv)
  /\ arg = argv[k]

Continue == k' = k + 1 /\ UNCHANGED <<program, argv, outcome>>

Exit(code) == outcome' = code /\ UNCHANGED <<program, argv, k, switches, filename>>

Switch(arg) ==
  /\ AtArgument(arg)
  /\ arg \in Switches(program)
  /\ switches' = switches \cup {arg}
  /\ Continue
  /\ UNCHANGED filename

Help == AtArgument("--help") /\ Exit("exit 0")

\* Mutant of FileName: the file has to come before the switches.
FileNameFirst(arg) ==
  /\ AtArgument(arg)
  /\ program = "load" /\ arg \in Unknown(program)
  /\ filename = Empty /\ switches = {}
  /\ filename' = arg
  /\ Continue
  /\ UNCHANGED switches

\* filename.empty() is also true after an empty argument
FileName(arg) ==
  /\ AtArgument(arg)
  /\ program = "load" /\ arg \in Unknown(program)
  /\ filename = Empty
  /\ filename' = arg
  /\ Continue
  /\ UNCHANGED switches

\* Mutant of UnknownArgument: the rebooter ignores what it does not know.
UnknownArgumentIgnored(arg) ==
  /\ AtArgument(arg)
  /\ arg \in Unknown(program)
  /\ IF program = "load" THEN filename # Empty /\ Exit("exit 2")
                      ELSE Continue /\ UNCHANGED <<switches, filename>>

UnknownArgument(arg) ==
  /\ AtArgument(arg)
  /\ arg \in Unknown(program)
  /\ program = "load" => filename # Empty
  /\ Exit("exit 2")

\* Mutant of StartLoader: --dryrun is read but not acted on.
StartLoaderWet ==
  /\ outcome = "parsing" /\ k > Len(argv)
  /\ program = "load"
  /\ Exit(IF filename = Empty THEN "exit 2" ELSE "find_device")

StartLoader ==
  /\ outcome = "parsing" /\ k > Len(argv)
  /\ program = "load"
  /\ Exit(IF filename = Empty THEN "exit 2"
          ELSE IF "--dryrun" \in switches THEN "run_dryrun" ELSE "find_device")

StartRebooter ==
  /\ outcome = "parsing" /\ k > Len(argv)
  /\ program = "reboot"
  /\ Exit("find_device")

ArgsNext ==
  \/ \E arg \in Arguments :
       Switch(arg) \/ FileName(arg) \/ UnknownArgument(arg)
  \/ Help
  \/ StartLoader \/ StartRebooter

-----------------------------------------------------------------------------
(* Properties. *)

Given     == ToSet(argv)
Names     == {j \in DOMAIN argv : argv[j] \in Unknown(program) \ {Empty}}
Runs      == outcome \in {"run_dryrun", "find_device"}

\* A program only starts on a command line it has understood to the last word:
\* a misspelt --bootsel never reboots a device into its application, a misspelt
\* --dryrun next to a file never loads it, and no switch is lost or made up
\* whatever the order of the words.
StartsOnlyAsAsked ==
  Runs =>
    /\ switches = Given \cap Switches(program)
    /\ "--help" \notin Given
    /\ outcome = "run_dryrun" <=> "--dryrun" \in Given
    /\ IF program = "load"
         THEN \E j \in Names : Names = {j} /\ filename = argv[j]
         ELSE Given \cap Unknown(program) = {}

\* Every command line is answered, and one that names a file and otherwise
\* only switches runs: no combination of switches is refused.
GoodCommandLinesRun ==
  LET Good ==
        /\ "--help" \notin Given
        /\ IF program = "load" THEN \E j \in Names : \A l \in DOMAIN argv :
                                   l # j => argv[l] \in Switches(program)
                            ELSE Given \cap Unknown(program) = {}
  IN  /\ <>(outcome # "parsing")
      /\ Good ~> Runs

=============================================================================
