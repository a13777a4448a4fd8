----------------------------- MODULE MCLoadPlan -----------------------------
(***************************************************************************)
(* Small instance of the planner, its merged erase ranges and the dry run: *)
(* pages of 2 bytes, sectors of 4, a flash of two (RP2040) or three        *)
(* (RP2350) sectors and an SRAM that is smaller than the flash, so that    *)
(* some segments have no mirror.  Every entry point goes with every        *)
(* segment: no entry, one with and without a mirror, at both ends of the   *)
(* RP2040's flash and SRAM, in what only the RP2350 has, and outside.      *)
(***************************************************************************)
EXTENDS PlannedErases, DryRun

MCPlaces == 0 .. Word - 1

Seg(p, v, n) ==
  [load |-> TRUE, readable |-> TRUE, paddr |-> p, vaddr |-> v, filez |-> n]

\* in flash, across a page and a sector, at the ends, in SRAM, and outside
Starts == {<<8, 8>>, <<9, 32>>, <<11, 11>>, <<12, 0>>, <<15, 15>>, <<17, 17>>,
           <<0, 14>>, <<7, 7>>, <<32, 32>>, <<36, 36>>, <<50, 50>>, <<0, 0>>}
Loads == {Seg(p[1], p[2], n) : p \in Starts, n \in {1, 5}}
Odd   == {Seg(8, 8, 0),
          [Seg(8, 8, 3) EXCEPT !.load = FALSE],
          [Seg(8, 8, 3) EXCEPT !.readable = FALSE]}

Im(start, segs) == [parses |-> TRUE, entry |-> start, segments |-> segs]

MCImages ==
  {Im(start, <<s>>) :
     start \in {0, 8, 10, 11, 15, 17, 32, 37, 40, 50}, s \in Loads \cup Odd}
    \cup {Im(8, <<s, t>>) : s \in Loads, t \in Loads \cup Odd}
    \cup {Im(8, <<Seg(12, 12, 3), s, Seg(10, 10, 1)>>) : s \in Loads}
    \cup {[Im(33, <<>>) EXCEPT !.parses = p] : p \in BOOLEAN}

=============================================================================
