------------------------------ MODULE MCLoader ------------------------------
(***************************************************************************)
(* Small instances of Loader: the address map of MCLoadPlan and a handful  *)
(* of images, one for each way a load can go.                              *)
(***************************************************************************)
EXTENDS Loader

Seg(at, n) ==
  [load |-> TRUE, readable |-> TRUE, paddr |-> at, vaddr |-> at, filez |-> n]
Im(start, segs) == [parses |-> TRUE, entry |-> start, segments |-> segs]

MCImages == {
  Im(33, <<Seg(33, 3)>>),                      \* RAM only, two chunks
  Im(8,  <<Seg(13, 2), Seg(8, 4)>>),           \* two sectors, one has no mirror
  Im(12, <<Seg(12, 1), Seg(34, 3)>>),          \* flash, and SRAM out of the way
  Im(9,  <<Seg(9, 3), Seg(8, 1), Seg(9, 1)>>), \* a page in three parts
  Im(14, <<Seg(14, 3)>>),                      \* runs over the RP2040's flash
  Im(0,  <<Seg(8, 2), Seg(36, 3)>>),           \* no entry, the RP2040's SRAM
  Im(50, <<Seg(50, 1)>>),                      \* neither flash nor SRAM
  Im(33, <<Seg(33, 2), [Seg(35, 2) EXCEPT !.readable = FALSE]>>)
}

\* a sector erase, a page and a RAM write, an EXEC of a run that was killed
MCLeftovers == {
  [id |-> "FLASH_ERASE", addr |-> 8, data |-> <<>>, size |-> 4],
  [id |-> "WRITE", addr |-> 33, data |-> << <<9, 9>>, <<9, 9>> >>, size |-> 2],
  [id |-> "WRITE", addr |-> 10, data |-> << <<9, 9>>, <<9, 9>> >>, size |-> 2],
  Exec(33)
}
NoLeftovers == {}

\* the images of the runs that show a disagreement
PlainImages   == {Im(33, <<Seg(33, 1)>>)}
SkippedImages == {Im(9, <<Seg(32, 1), Seg(9, 6)>>)}
OverlapImages == {Im(8, <<Seg(8, 2), Seg(33, 1)>>)}

=============================================================================
