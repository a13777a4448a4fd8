---------------------------- MODULE MergeRanges ----------------------------
(***************************************************************************)
(* merge_ranges as an operator: sort by start, then take each range into   *)
(* the last one when they touch.  MergeLoop has the loop itself, with the  *)
(* freedom the unstable sort leaves it.                                    *)
(***************************************************************************)
EXTENDS Integers, SequencesExt

\* Mutant of Absorb: ranges that touch are kept apart.
AbsorbOverlapping(merged, range) ==
  IF range.start < Last(merged).end
    THEN [merged EXCEPT ![Len(merged)].end =
            IF @ >= range.end THEN @ ELSE range.end]
    ELSE Append(merged, range)

\* Mutant of Absorb: the later range decides where the merged one ends.
AbsorbLastEnd(merged, range) ==
  IF range.start <= Last(merged).end
    THEN [merged EXCEPT ![Len(merged)].end = range.end]
    ELSE Append(merged, range)

Absorb(merged, range) ==
  IF range.start <= Last(merged).end
    THEN [merged EXCEPT ![Len(merged)].end =
            IF @ >= range.end THEN @ ELSE range.end]
    ELSE Append(merged, range)

(***************************************************************************)
(* The elements of a finite set in the order of a strict total order on    *)
(* it, given as a set of pairs: the k-th has k - 1 others before it.       *)
(***************************************************************************)
InOrder(set, before) ==
  LET Place(a) == Cardinality({b \in set : b = a \/ <<b, a>> \in before})
  IN  [k \in 1 .. Cardinality(set) |-> CHOOSE a \in set : Place(a) = k]

Ascending(numbers) ==
  InOrder(numbers, {p \in numbers \X numbers : p[1] < p[2]})

\* a sort by start that leaves equal starts in the order they came in
sort_by_start(ranges) ==
  LET before == {p \in (DOMAIN ranges) \X (DOMAIN ranges) :
                   \/ ranges[p[1]].start < ranges[p[2]].start
                   \/ ranges[p[1]].start = ranges[p[2]].start /\ p[1] < p[2]}
      order == InOrder(DOMAIN ranges, before)
  IN  [k \in DOMAIN ranges |-> ranges[order[k]]]

merge_ranges(ranges) ==
  LET sorted == sort_by_start(ranges)
      merged[k \in DOMAIN ranges] ==
        IF k = 1 THEN <<sorted[1]>> ELSE Absorb(merged[k - 1], sorted[k])
  IN  IF ranges = <<>> THEN <<>> ELSE merged[Len(ranges)]

-----------------------------------------------------------------------------
(* What ranges are about: In for the addresses to be erased.               *)

In(a, range) == range.start <= a /\ a < range.end

=============================================================================
