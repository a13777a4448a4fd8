---------------------------- MODULE InputProofs ----------------------------
(***************************************************************************)
(* What the programs are given, proved for every input: the command line   *)
(* and, on every bus, the devices it has them look at; and the ELF file,   *)
(* of which the reader accepts what it has read completely, refusing no    *)
(* complete file.                                                          *)
(***************************************************************************)
EXTENDS ElfFile, FrontEnd, DeviceScanProofs

-----------------------------------------------------------------------------
(* The ELF reader. *)


LEMMA ProductIsNat == \A a, b \in Nat : a * b \in Nat
  BY SMT

LEMMA BaseIsNat ==
  ASSUME IsFile(file), NEW e \in Nat
  PROVE  base(e) \in Nat
<1>1. file.phoff \in Nat /\ file.phentsize \in Nat
  BY LayoutIsSane, SizesArePositive DEF IsFile, Address, LayoutAssumption
<1>2. file.phentsize * e \in Nat
  BY <1>1, ProductIsNat
<1> QED
  BY <1>1, <1>2, SMT DEF base

(***************************************************************************)
(* The loop's invariant: segments_ holds the entries before the i-th, each *)
(* of them whole.                                                          *)
(***************************************************************************)
EntriesRead ==
  /\ segments = [e \in 1 .. i |-> file.at[base(e - 1)]]
  /\ \A e \in 0 .. i - 1 : base(e) + EntrySize <= file.size

ElfInv ==
  /\ ElfTypeOK
  /\ read = "header" => i = 0 /\ segments = <<>>
  /\ read = "refused" => ~ TableIsWhole(file)
  /\ read \in {"table", "done"} => HeaderOk /\ EntriesRead
  /\ read = "done" => i = file.phnum

LEMMA FileIsTyped ==
  ASSUME ElfTypeOK
  PROVE  /\ IsFile(file)
         /\ file.phnum \in Nat /\ file.size \in Nat /\ i \in Nat
  BY FilesAreFiles, SizesArePositive, SMT DEF ElfTypeOK, IsFile

LEMMA HeaderKeepsElfInv == ElfInv /\ ReadHeader => ElfInv'
<1> SUFFICES ASSUME ElfInv, ReadHeader PROVE ElfInv'
  OBVIOUS
<1> USE DEF ElfInv, ReadHeader
<1>1. i = 0 /\ segments = <<>> /\ read' \in {"table", "refused"}
      /\ UNCHANGED <<file, i, segments>>
  OBVIOUS
<1>2. ElfTypeOK'
  BY <1>1, SMT DEF ElfTypeOK
<1>3. CASE HeaderOk
  <2>1. HeaderOk'
    BY <1>1, <1>3 DEF HeaderOk, TableFits
  <2>2. EntriesRead'
    <3>1. 1 .. i = {} /\ 0 .. i - 1 = {}
      BY <1>1, SMT
    <3>2. [e \in 1 .. i |-> file.at[base(e - 1)]] = <<>>
      BY <1>1, SMT
    <3> QED
      BY <1>1, <3>1, <3>2 DEF EntriesRead, base
  <2> QED
    BY <1>2, <1>3, <2>1, <2>2
<1>4. CASE ~ HeaderOk
  <2>1. ~ TableIsWhole(file)
    <3>1. file.phentsize \in Nat
      BY FileIsTyped, SizesArePositive, SMT DEF IsFile
    <3> QED
      BY <1>4, <3>1, SMT DEF HeaderOk, TableFits, TableIsWhole
  <2> QED
    BY <1>1, <1>2, <1>4, <2>1 DEF TableIsWhole
<1> QED
  BY <1>3, <1>4

LEMMA EntryKeepsElfInv == ElfInv /\ ReadEntry => ElfInv'
<1> SUFFICES ASSUME ElfInv, ReadEntry PROVE ElfInv'
  OBVIOUS
<1>1. /\ ElfTypeOK /\ HeaderOk /\ EntriesRead
      /\ read = "table" /\ i < file.phnum /\ file' = file
  BY DEF ElfInv, ReadEntry
<1>2. i \in Nat /\ file.phnum \in Nat /\ file.size \in Nat
      /\ base(i) \in Nat /\ IsFile(file)
  BY <1>1, FileIsTyped, BaseIsNat
<1>3. CASE base(i) + EntrySize > file.size
  <2>1. read' = "refused" /\ UNCHANGED <<i, segments>>
    BY <1>3 DEF ReadEntry
  <2>2. ~ TableIsWhole(file)
    <3>1. i \in 0 .. file.phnum - 1
      BY <1>1, <1>2, SMT
    <3>2. ~ (base(i) + EntrySize <= file.size)
      BY <1>2, <1>3, SizesArePositive, SMT
    <3> QED
      BY <3>1, <3>2 DEF TableIsWhole, base
  <2> QED
    BY <1>1, <2>1, <2>2 DEF ElfInv, ElfTypeOK, TableIsWhole
<1>4. CASE ~ (base(i) + EntrySize > file.size)
  <2>1. segments' = Append(segments, file.at[base(i)]) /\ i' = i + 1
        /\ read' = "table"
    BY <1>1, <1>4 DEF ReadEntry
  <2>2. base(i) + EntrySize <= file.size /\ base(i) \in 0 .. file.size - 1
    BY <1>2, <1>4, SizesArePositive, SMT
  <2>3. file.at[base(i)] \in Entry
    BY <1>2, <2>2 DEF IsFile
  <2>4. ElfTypeOK'
    BY <1>1, <1>2, <2>1, <2>3, SMT DEF ElfTypeOK
  <2>5. HeaderOk'
    BY <1>1 DEF HeaderOk, TableFits
  <2>6. segments' = [e \in 1 .. i' |-> file.at[base(e - 1)]]
    <3> DEFINE f(e) == file.at[base(e - 1)]
    <3>1. segments = [e \in 1 .. i |-> f(e)] /\ f(i + 1) = file.at[base(i)]
      BY <1>1, <1>2, SMT DEF EntriesRead
    <3> HIDE DEF f
    <3>2. Append(segments, f(i + 1)) = [e \in 1 .. i + 1 |-> f(e)]
      BY <1>2, <3>1, SMT
    <3>3. segments' = [e \in 1 .. i' |-> f(e)]
      BY <2>1, <3>1, <3>2
    <3> QED
      BY <3>3 DEF f
  <2>7. \A e \in 0 .. i' - 1 : base(e) + EntrySize <= file.size
    <3>1. 0 .. i' - 1 = (0 .. i - 1) \cup {i}
      BY <1>2, <2>1, SMT
    <3> QED
      BY <1>1, <2>2, <3>1 DEF EntriesRead
  <2>8. EntriesRead'
    BY <1>1, <2>6, <2>7 DEF EntriesRead, base
  <2> QED
    BY <2>1, <2>4, <2>5, <2>8 DEF ElfInv
<1> QED
  BY <1>3, <1>4

LEMMA ElfInvHolds == ElfSpec => []ElfInv
<1>1. ElfInit => ElfInv
  <2> SUFFICES ASSUME ElfInit PROVE ElfInv
    OBVIOUS
  <2>1. IsFile(file) /\ file.phnum \in Nat
    BY FilesAreFiles, SizesArePositive, SMT DEF ElfInit, IsFile
  <2>2. ElfTypeOK
    BY <2>1, SMT DEF ElfInit, ElfTypeOK
  <2> QED
    BY <2>2 DEF ElfInit, ElfInv
<1>2. ElfInv /\ [ElfNext]_elfVars => ElfInv'
  <2> SUFFICES ASSUME ElfInv, [ElfNext]_elfVars PROVE ElfInv'
    OBVIOUS
  <2>1. CASE ReadHeader
    BY <2>1, HeaderKeepsElfInv
  <2>2. CASE ReadEntry
    BY <2>2, EntryKeepsElfInv
  <2>3. CASE TableEnds
    BY <2>3 DEF TableEnds, ElfInv, ElfTypeOK, HeaderOk, TableFits, EntriesRead,
                base
  <2>4. CASE UNCHANGED elfVars
    BY <2>4 DEF elfVars, ElfInv, ElfTypeOK, HeaderOk, TableFits, EntriesRead,
                base, TableIsWhole
  <2> QED
    BY <2>1, <2>2, <2>3, <2>4 DEF ElfNext
<1> QED
  BY <1>1, <1>2, PTL DEF ElfSpec

(***************************************************************************)
(* read_file (elf.cc:35-99), for every file and every stride: it accepts   *)
(* exactly the files with a complete table of program headers, and then    *)
(* segments_ is that table.                                                *)
(***************************************************************************)
THEOREM ElfTableIsReadWhole == ElfSpec => []ReadsTheWholeTable
<1>1. ElfInv => ReadsTheWholeTable
  <2> SUFFICES ASSUME ElfInv PROVE ReadsTheWholeTable
    OBVIOUS
  <2>1. CASE read = "done"
    <3>1. HeaderOk /\ EntriesRead /\ i = file.phnum
      BY <2>1 DEF ElfInv
    <3>2. TableIsWhole(file)
      <4>1. file.phentsize \in Nat
        BY FileIsTyped, SizesArePositive, SMT DEF IsFile, ElfInv
      <4> QED
        BY <3>1, <4>1, SMT DEF TableIsWhole, HeaderOk, TableFits, EntriesRead, base
    <3> QED
      BY <2>1, <3>1, <3>2 DEF ReadsTheWholeTable, EntriesRead, base
  <2>2. CASE read # "done"
    BY <2>2 DEF ReadsTheWholeTable, ElfInv
  <2> QED
    BY <2>1, <2>2
<1> QED
  BY <1>1, ElfInvHolds, PTL

\* The reader stays inside the table, and what it collects are entries, for
\* every file and every stride.
THEOREM ElfReaderIsTyped == ElfSpec => []ElfTypeOK
<1>1. ElfInv => ElfTypeOK
  BY DEF ElfInv
<1> QED
  BY <1>1, ElfInvHolds, PTL

-----------------------------------------------------------------------------
(* The command line.  The invariant says of the words before the k-th what *)
(* StartsOnlyAsAsked says of all: the loop has forgotten none.             *)

IsName(j) == argv[j] \in Unknown(program) \ {Empty}

SwitchesSoFar ==
  \A w : w \in switches <=> w \in Switches(program) /\ \E j \in 1 .. k - 1 : argv[j] = w

NameSoFar ==
  IF filename = Empty
    THEN \A j \in 1 .. k - 1 : ~ IsName(j)
    ELSE \E j \in 1 .. k - 1 :
           /\ IsName(j) /\ filename = argv[j]
           /\ \A l \in 1 .. k - 1 : IsName(l) => l = j

\* the rebooter has no file, and so no word without a case
AllUnderstood == \A j \in 1 .. k - 1 : argv[j] \notin Unknown(program)

ArgsInv ==
  /\ program \in {"load", "reboot"}
  /\ argv \in Seq(Arguments)
  /\ k \in 1 .. Len(argv) + 1
  /\ SwitchesSoFar
  /\ \A j \in 1 .. k - 1 : argv[j] # "--help"
  /\ IF program = "load" THEN NameSoFar ELSE AllUnderstood
  /\ Runs =>
       /\ k = Len(argv) + 1
       /\ program = "load" => filename # Empty
       /\ outcome = "run_dryrun" <=> program = "load" /\ "--dryrun" \in switches

LEMMA ArgsInitInv == ArgsInit => ArgsInv
<1> SUFFICES ASSUME ArgsInit PROVE ArgsInv
  OBVIOUS
<1>1. argv \in Seq(Arguments)
  <2>1. PICK n \in 0 .. MaxArgs : argv \in [1 .. n -> Arguments]
    BY DEF ArgsInit
  <2> QED
    BY <2>1, ArgsAreBounded
<1>2. Len(argv) \in Nat
  BY <1>1
<1>3. k = 1 /\ switches = {} /\ filename = Empty /\ outcome = "parsing"
  BY DEF ArgsInit
<1>4. k \in 1 .. Len(argv) + 1 /\ 1 .. k - 1 = {}
  BY <1>2, <1>3
<1> QED
  BY <1>1, <1>3, <1>4 DEF ArgsInit, ArgsInv, SwitchesSoFar, NameSoFar, AllUnderstood,
     Runs

\* One more word: what was said of the words before the k-th is said of it too.
LEMMA WordKeepsArgsInv ==
  ASSUME ArgsInv, NEW arg, Switch(arg) \/ FileName(arg)
  PROVE  ArgsInv'
<1>1. /\ outcome = "parsing" /\ outcome' = "parsing"
      /\ k <= Len(argv) /\ arg = argv[k] /\ k' = k + 1
      /\ program' = program /\ argv' = argv
  BY DEF Switch, FileName, AtArgument, Continue
<1>2. /\ k \in 1 .. Len(argv) /\ k' \in 1 .. Len(argv') + 1
      /\ \A j : j \in 1 .. k' - 1 <=> j \in 1 .. k - 1 \/ j = k
      /\ k \notin 1 .. k - 1
  <2>1. Len(argv) \in Nat /\ k \in 1 .. Len(argv) + 1
    BY DEF ArgsInv
  <2> QED
    BY <1>1, <2>1
<1>3. arg \in Switches(program) \/ (program = "load" /\ arg \in Unknown(program))
  BY DEF Switch, FileName
<1>4. arg # "--help"
  BY <1>3 DEF Switches, Unknown
<1>5. SwitchesSoFar'
  <2>1. CASE Switch(arg)
    <3>1. switches' = switches \cup {arg} /\ arg \in Switches(program)
      BY <2>1 DEF Switch
    <3> QED
      BY <1>1, <1>2, <3>1 DEF ArgsInv, SwitchesSoFar
  <2>2. CASE FileName(arg)
    <3>1. switches' = switches /\ arg \notin Switches(program)
      BY <2>2 DEF FileName, Unknown
    <3> QED
      BY <1>1, <1>2, <3>1 DEF ArgsInv, SwitchesSoFar
  <2> QED
    BY <2>1, <2>2
<1>6. program = "load" => NameSoFar'
  <2> SUFFICES ASSUME program = "load" PROVE NameSoFar'
    OBVIOUS
  <2>1. NameSoFar
    BY DEF ArgsInv
  <2>2. CASE Switch(arg)
    <3>1. filename' = filename /\ ~ IsName(k)
      BY <1>1, <2>2 DEF Switch, IsName, Unknown
    <3> QED
      BY <1>1, <1>2, <2>1, <3>1 DEF NameSoFar, IsName
  <2>3. CASE FileName(arg)
    <3>1. filename = Empty /\ filename' = arg /\ arg \in Unknown(program)
      BY <2>3 DEF FileName
    <3>2. \A j \in 1 .. k - 1 : ~ IsName(j)
      BY <2>1, <3>1 DEF NameSoFar
    <3> QED
      BY <1>1, <1>2, <3>1, <3>2 DEF NameSoFar, IsName
  <2> QED
    BY <2>2, <2>3
<1>7. program # "load" => AllUnderstood'
  <2> SUFFICES ASSUME program # "load" PROVE AllUnderstood'
    OBVIOUS
  <2>1. AllUnderstood /\ arg \notin Unknown(program)
    BY <1>3 DEF ArgsInv, Unknown
  <2> QED
    BY <1>1, <1>2, <2>1 DEF AllUnderstood
<1>8. \A j \in 1 .. k' - 1 : argv'[j] # "--help"
  BY <1>1, <1>2, <1>4 DEF ArgsInv
<1>9. ~ Runs'
  BY <1>1 DEF Runs
<1>10. program \in {"load", "reboot"} /\ argv \in Seq(Arguments)
  BY DEF ArgsInv
<1> QED
  BY <1>1, <1>2, <1>5, <1>6, <1>7, <1>8, <1>9, <1>10 DEF ArgsInv

\* The end: the words are all read when a program starts.
LEMMA ExitKeepsArgsInv ==
  ASSUME ArgsInv,
         \/ \E arg : UnknownArgument(arg)
         \/ Help \/ StartLoader \/ StartRebooter
  PROVE  ArgsInv'
<1>1. UNCHANGED <<program, argv, k, switches, filename>>
  BY DEF UnknownArgument, Help, StartLoader, StartRebooter, Exit
<1>2. \/ outcome' \in {"exit 0", "exit 2"}
      \/ /\ k > Len(argv)
         /\ outcome' = IF program = "load" /\ "--dryrun" \in switches
                         THEN "run_dryrun" ELSE "find_device"
         /\ program = "load" => filename # Empty
  BY DEF UnknownArgument, Help, StartLoader, StartRebooter, Exit
<1>3. k > Len(argv) => k = Len(argv) + 1
  <2>1. Len(argv) \in Nat /\ k \in 1 .. Len(argv) + 1
    BY DEF ArgsInv
  <2> QED
    BY <2>1
<1>4. Runs' =>
        /\ k' = Len(argv') + 1
        /\ program' = "load" => filename' # Empty
        /\ outcome' = "run_dryrun" <=> program' = "load" /\ "--dryrun" \in switches'
  BY <1>1, <1>2, <1>3 DEF Runs
<1> QED
  BY <1>1, <1>4 DEF ArgsInv, SwitchesSoFar, NameSoFar, AllUnderstood, IsName

LEMMA ArgsNextInv == ArgsInv /\ [ArgsNext]_argsVars => ArgsInv'
<1> SUFFICES ASSUME ArgsInv, [ArgsNext]_argsVars PROVE ArgsInv'
  OBVIOUS
<1>1. CASE UNCHANGED argsVars
  BY <1>1 DEF argsVars, ArgsInv, SwitchesSoFar, NameSoFar, AllUnderstood, IsName, Runs
<1> QED
  BY <1>1, WordKeepsArgsInv, ExitKeepsArgsInv DEF ArgsNext

LEMMA AllWordsRead ==
  ASSUME ArgsInv PROVE StartsOnlyAsAsked
<1> SUFFICES ASSUME Runs PROVE StartsOnlyAsAsked
  BY DEF StartsOnlyAsAsked
<1>1. 1 .. k - 1 = DOMAIN argv
  <2>1. Len(argv) \in Nat /\ DOMAIN argv = 1 .. Len(argv) /\ k = Len(argv) + 1
    BY DEF ArgsInv
  <2> QED
    BY <2>1
<1>2. \A w : w \in Given <=> \E j \in 1 .. k - 1 : argv[j] = w
  BY <1>1 DEF Given, ToSet
<1>3. switches = Given \cap Switches(program)
  BY <1>2 DEF ArgsInv, SwitchesSoFar
<1>4. "--help" \notin Given
  BY <1>2 DEF ArgsInv
<1>5. program = "load" => \E j \in Names : Names = {j} /\ filename = argv[j]
  <2> SUFFICES ASSUME program = "load"
               PROVE  \E j \in Names : Names = {j} /\ filename = argv[j]
    OBVIOUS
  <2>1. NameSoFar /\ filename # Empty
    BY DEF ArgsInv
  <2>2. PICK j \in 1 .. k - 1 : /\ IsName(j) /\ filename = argv[j]
                                /\ \A l \in 1 .. k - 1 : IsName(l) => l = j
    BY <2>1 DEF NameSoFar
  <2>3. Names = {j}
    BY <1>1, <2>2 DEF Names, IsName
  <2> QED
    BY <2>2, <2>3
<1>6. program # "load" => Given \cap Unknown(program) = {}
  BY <1>2 DEF ArgsInv, AllUnderstood
<1>7. outcome = "run_dryrun" <=> "--dryrun" \in Given
  <2>1. CASE program = "load"
    BY <1>3, <2>1 DEF ArgsInv, Switches
  <2>2. CASE program # "load"
    <3>1. program = "reboot" /\ outcome # "run_dryrun"
      BY <2>2 DEF ArgsInv
    <3>2. "--dryrun" \in Unknown(program)
      BY <3>1 DEF Unknown, Arguments, Switches
    <3> QED
      BY <1>6, <2>2, <3>1, <3>2
  <2> QED
    BY <2>1, <2>2
<1> QED
  BY <1>3, <1>4, <1>5, <1>6, <1>7 DEF StartsOnlyAsAsked

\* Every step of the front end is one of the argument loop or of the scan.
LEMMA FrontSteps == [FrontNext]_frontVars => [ArgsNext]_argsVars /\ [ScanNext]_scanVars
  BY DEF FrontNext, frontVars, ParseArguments, find_device

\* Neither program starts on a command line it has not understood to the last
\* word (both mains' argument loops), for every command line of any length: the
\* switches it starts with are those that were given, and a load is of the one
\* file that was named.
THEOREM ProgramsStartAsAsked == FrontSpec => []StartsOnlyAsAsked
<1>1. FrontInit => ArgsInv
  BY ArgsInitInv DEF FrontInit
<1>2. ArgsInv /\ [FrontNext]_frontVars => ArgsInv'
  BY FrontSteps, ArgsNextInv
<1> QED
  BY <1>1, <1>2, AllWordsRead, PTL DEF FrontSpec

\* Behind the argument loop the scan is the one of DeviceScan.
LEMMA FrontScans == FrontSpec => ScanSpec
<1>1. FrontInit => ScanInit
  BY DEF FrontInit
<1> QED
  BY <1>1, FrontSteps, PTL DEF FrontSpec, ScanSpec

\* Neither a dry run nor a question for help opens a device, and the loader opens
\* none without the name of a file, on every bus and for every command line.
THEOREM OnlyTheAskedOpenDevices == FrontSpec => DevicesAreOpenedWhenAsked
<1> DEFINE Opens == \A h \in DOMAIN opened : opened'[h] > opened[h] =>
                      /\ {"--dryrun", "--help"} \cap Given = {}
                      /\ program = "load" => Names # {}
<1>1. FrontInit => ArgsInv
  BY ArgsInitInv DEF FrontInit
<1>2. ArgsInv /\ [FrontNext]_frontVars => ArgsInv'
  BY FrontSteps, ArgsNextInv
<1>3. ArgsInv /\ ScanTypeOK /\ [FrontNext]_frontVars => [Opens]_frontVars
  <2> SUFFICES ASSUME ArgsInv, ScanTypeOK, FrontNext,
                      NEW h \in DOMAIN opened, opened'[h] > opened[h]
               PROVE  /\ {"--dryrun", "--help"} \cap Given = {}
                      /\ program = "load" => Names # {}
    OBVIOUS
  <2>1. opened[h] \in Int
    BY DEF ScanTypeOK
  <2>2. opened' # opened
    BY <2>1
  <2>3. outcome = "find_device"
    BY <2>2 DEF FrontNext, ParseArguments, find_device, scanVars
  <2>4. StartsOnlyAsAsked
    BY AllWordsRead
  <2> QED
    BY <2>3, <2>4 DEF StartsOnlyAsAsked, Runs
<1> HIDE DEF Opens
<1>4. FrontSpec => [][Opens]_frontVars
  BY <1>1, <1>2, <1>3, FrontScans, ScanIsTyped, PTL DEF FrontSpec
<1> QED
  BY <1>4 DEF Opens, DevicesAreOpenedWhenAsked

=============================================================================
