------------------------------ MODULE ElfFile ------------------------------
(***************************************************************************)
(* The ELF reader of dapico-load: elf_file::read_file and content.         *)
(*                                                                         *)
(* A file is abstracted to what the reader looks at: its size, whether it  *)
(* can be read, whether its first bytes are those of a little-endian ELF   *)
(* of class 32, the header fields, and the program header an entry at each *)
(* of its bytes would be.  So a reader that uses another stride or another *)
(* base than the header says gets other entries.                           *)
(*                                                                         *)
(* Positions in the file are size_t, which has 64 bits on every Mac, so    *)
(* the sums of read_file do not wrap; offset + filez in content is a sum   *)
(* of uint32_t and does.                                                   *)
(***************************************************************************)
EXTENDS MemoryMap, Sequences

CONSTANTS
  Files,        \* the files the runs read
  HeaderSize,   \* kElfHeaderSize, 52
  IdentSize,    \* kIdentSize, 16
  EntrySize,    \* the 32 bytes read of a program header
  HalfWord      \* number of uint16_t values

Entry == [load: BOOLEAN, offset: Address, vaddr: Address, paddr: Address,
          filez: Address]

IsFile(f) ==
  /\ f.reads \in BOOLEAN /\ f.elf32le \in BOOLEAN
  /\ f.size \in Nat
  /\ f.entry \in Address /\ f.phoff \in Address
  /\ f.phentsize \in 0 .. HalfWord - 1 /\ f.phnum \in 0 .. HalfWord - 1
  /\ f.at \in [0 .. f.size - 1 -> Entry]

ASSUME SizesArePositive ==
  /\ HeaderSize \in Nat \ {0} /\ IdentSize \in Nat /\ EntrySize \in Nat \ {0}
  /\ HalfWord \in Nat \ {0}
ASSUME FilesAreFiles == \A f \in Files : IsFile(f)

VARIABLES
  file,       \* the file and its data_
  read,       \* how far read_file has come
  i,          \* the program header the loop reads next
  segments    \* segments_

elfVars == <<file, read, i, segments>>

ElfInit ==
  /\ file \in Files
  /\ read = "header"
  /\ i = 0
  /\ segments = <<>>

\* "missing" and "truncated"
TableFits ==
  /\ file.phoff >= IdentSize /\ file.phentsize # 0
  /\ file.phoff + file.phentsize * file.phnum <= file.size

HeaderOk ==
  /\ file.reads
  /\ file.size >= HeaderSize
  /\ file.elf32le
  /\ TableFits

ReadHeader ==
  /\ read = "header"
  /\ read' = IF HeaderOk THEN "table" ELSE "refused"
  /\ UNCHANGED <<file, i, segments>>

\* Mutant of base: the entries are taken to lie side by side.
baseUnstrided(k) == file.phoff + EntrySize * k

base(k) == file.phoff + file.phentsize * k

\* Mutant of ReadEntry: the loop runs once too often.
ReadEntryTooMany ==
  /\ read = "table"
  /\ i <= file.phnum
  /\ base(i) + EntrySize <= file.size
  /\ segments' = Append(segments, file.at[base(i)])
  /\ i' = i + 1
  /\ UNCHANGED <<file, read>>

\* an entry may be longer than phentsize says, so each is checked again
ReadEntry ==
  /\ read = "table"
  /\ i < file.phnum
  /\ IF base(i) + EntrySize > file.size
       THEN read' = "refused" /\ UNCHANGED <<i, segments>>
       ELSE /\ segments' = Append(segments, file.at[base(i)])
            /\ i' = i + 1
            /\ UNCHANGED read
  /\ UNCHANGED file

TableEnds ==
  /\ read = "table"
  /\ i = file.phnum
  /\ read' = "done"
  /\ UNCHANGED <<file, i, segments>>

ElfNext == ReadHeader \/ ReadEntry \/ TableEnds

ElfSpec == ElfInit /\ [][ElfNext]_elfVars

\* content: the check that throws "ELF segment out of range"
ContentAccepted(s) == Plus(s.offset, s.filez) <= file.size

-----------------------------------------------------------------------------
(* Properties. *)

ElfTypeOK ==
  /\ IsFile(file)
  /\ read \in {"header", "table", "refused", "done"}
  /\ i \in 0 .. file.phnum
  /\ segments \in Seq(Entry)

(***************************************************************************)
(* What an ELF file with a complete table is, told without the reader: the *)
(* k-th entry is phentsize bytes after the one before, and whole.          *)
(***************************************************************************)
TableIsWhole(f) ==
  /\ f.reads /\ f.elf32le /\ f.size >= HeaderSize
  /\ f.phoff >= IdentSize /\ f.phentsize > 0
  /\ f.phoff + f.phentsize * f.phnum <= f.size
  /\ \A k \in 0 .. f.phnum - 1 : f.phoff + f.phentsize * k + EntrySize <= f.size

\* read_file accepts the complete files and no other, and hands main() every
\* program header of the table, in order, whatever stride the header gives.
ReadsTheWholeTable ==
  /\ read = "refused" => ~ TableIsWhole(file)
  /\ read = "done" =>
       /\ TableIsWhole(file)
       /\ segments = [k \in 1 .. file.phnum |->
                        file.at[file.phoff + file.phentsize * (k - 1)]]

\* "ELF segment out of range" is thrown for every segment that is: no vector is
\* ever filled from beyond the end of data_.
ContentIsInFile ==
  \A k \in DOMAIN segments :
    LET s == segments[k]
    IN  ContentAccepted(s) => s.offset + s.filez <= file.size

=============================================================================
