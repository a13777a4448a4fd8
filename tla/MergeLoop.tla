----------------------------- MODULE MergeLoop -----------------------------
(***************************************************************************)
(* The loop of merge_ranges.  std::sort is not stable and orders by start  *)
(* alone, so ranges with the same start reach the loop in any order: here  *)
(* the sort is a choice, and the results must not depend on it.            *)
(***************************************************************************)
EXTENDS MergeRanges

CONSTANTS
  Places,    \* the addresses ranges start and end at
  MaxRanges  \* bounds the number of ranges

ASSUME PlacesAreNumbers == Places \subseteq Int
ASSUME RangesAreBounded == MaxRanges \in Nat

\* EraseRange makes no other, as long as no address wraps
Ranges == {r \in [start: Places, end: Places] : r.start <= r.end}

VARIABLES
  ranges,   \* the argument
  sorted,   \* the argument after std::sort
  i,        \* the range the loop looks at
  merged,
  at        \* "sort", "loop" or "done"

mergeVars == <<ranges, sorted, i, merged, at>>

MergeInit ==
  /\ ranges \in UNION {[1 .. n -> Ranges] : n \in 0 .. MaxRanges}
  /\ sorted = <<>>
  /\ i = 1
  /\ merged = <<>>
  /\ at = "sort"

NothingToMerge ==
  /\ at = "sort"
  /\ ranges = <<>>
  /\ at' = "done"
  /\ UNCHANGED <<ranges, sorted, i, merged>>

\* the results std::sort may leave, q[k] being where the k-th range was
Sortings ==
  {q \in [DOMAIN ranges -> DOMAIN ranges] :
     /\ \A k \in DOMAIN ranges : \E l \in DOMAIN ranges : q[l] = k
     /\ \A k, l \in DOMAIN ranges :
          k <= l => ranges[q[k]].start <= ranges[q[l]].start}

\* Mutant of Sort: the ranges are merged in the order of the segments.
SortOmitted ==
  /\ at = "sort"
  /\ ranges # <<>>
  /\ sorted' = ranges
  /\ merged' = <<sorted'[1]>>
  /\ i' = 2
  /\ at' = "loop"
  /\ UNCHANGED ranges

Sort ==
  /\ at = "sort"
  /\ ranges # <<>>
  /\ \E q \in Sortings : sorted' = [k \in DOMAIN ranges |-> ranges[q[k]]]
  /\ merged' = <<sorted'[1]>>
  /\ i' = 2
  /\ at' = "loop"
  /\ UNCHANGED ranges

MergeOne ==
  /\ at = "loop"
  /\ i <= Len(sorted)
  /\ merged' = Absorb(merged, sorted[i])
  /\ i' = i + 1
  /\ UNCHANGED <<ranges, sorted, at>>

MergeEnds ==
  /\ at = "loop"
  /\ i > Len(sorted)
  /\ at' = "done"
  /\ UNCHANGED <<ranges, sorted, i, merged>>

MergeNext == NothingToMerge \/ Sort \/ MergeOne \/ MergeEnds

MergeSpec == MergeInit /\ [][MergeNext]_mergeVars

-----------------------------------------------------------------------------
(* Properties. *)

\* The merged ranges are in order and do not touch: no sector is erased twice
\* and neighbouring ranges go out as one FLASH_ERASE.
MergedIsApart ==
  \A k, l \in DOMAIN merged : k < l => merged[k].end < merged[l].start

\* Merging neither adds an address to what will be erased nor drops one.
MergedCoversTheSame ==
  at = "done" =>
    \A a \in Places :
      (\E k \in DOMAIN merged : In(a, merged[k]))
        <=> (\E k \in DOMAIN ranges : In(a, ranges[k]))

\* Whatever order the sort leaves, the result is that of the operator the
\* planner's model uses: the erases do not depend on the sort being unstable.
SortDoesNotMatter == at = "done" => merged = merge_ranges(ranges)

=============================================================================
