----------------------------- MODULE MCElfFile -----------------------------
(***************************************************************************)
(* Files of up to 14 bytes with a header of 5 bytes and entries of 3: the  *)
(* table missing, before the header's end, touching the end of the file,   *)
(* one byte over it, with strides below, at and above the entry size.      *)
(***************************************************************************)
EXTENDS ElfFile

\* entries that differ with their place; some offsets are near the end of the word
At(b) == [load |-> b % 2 = 0, offset |-> (b * 9) % Word, vaddr |-> b, paddr |-> b,
          filez |-> (b * 5) % Word]

MCFiles ==
  {[reads |-> r, elf32le |-> e, size |-> n, entry |-> 8, phoff |-> o,
    phentsize |-> z, phnum |-> c, at |-> [b \in 0 .. n - 1 |-> At(b)]] :
      r \in BOOLEAN, e \in BOOLEAN, n \in {0, 4, 5, 11, 12, 14},
      o \in {0, 1, 2, 5, 8, 63}, z \in {0, 1, 3, 4}, c \in 0 .. 3}

=============================================================================
