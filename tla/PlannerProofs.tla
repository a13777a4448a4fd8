---------------------------- MODULE PlannerProofs ----------------------------
(***************************************************************************)
(* What main.cpp and dryrun.cpp do with a plan besides making it: the      *)
(* erase ranges are merged, and the dry run, a second copy of the planner, *)
(* announces what the load will do.                                        *)
(*                                                                         *)
(* merge_ranges: the invariant of the loop needs that the ranges still to  *)
(* come start no earlier than the last merged one, which is what the sort  *)
(* is for.  What a list of ranges covers, and what it meets, then          *)
(* determine it, so the order the sort leaves does not matter.             *)
(*                                                                         *)
(* The dry run: after each segment its loop has found what the planner has *)
(* planned (DryRunAgrees); what is left is that the two lists of commands  *)
(* made from that have the same effect, byte by byte.                      *)
(***************************************************************************)
EXTENDS PlannedErases, DryRun, LoadPlanProofs

-----------------------------------------------------------------------------
(* merge_ranges. *)

(***************************************************************************)
(* The invariant.                                                          *)
(***************************************************************************)
MergeTyped ==
  /\ ranges \in Seq(Span) /\ sorted \in Seq(Span) /\ merged \in Seq(Span)
  /\ i \in Nat

SortedIsThe == \* the same ranges, by start
  /\ \A r : (\E k \in DOMAIN ranges : ranges[k] = r)
              <=> (\E k \in DOMAIN sorted : sorted[k] = r)
  /\ \A k, l \in DOMAIN sorted : k <= l => sorted[k].start <= sorted[l].start

MergedSoFar ==
  /\ merged # <<>>
  /\ i \in 1 .. Len(sorted) + 1
  /\ \A k \in DOMAIN sorted :
       k >= i => merged[Len(merged)].start <= sorted[k].start
  /\ \A a \in Int :
       Covered(merged, a) <=> \E k \in 1 .. i - 1 : In(a, sorted[k])
  /\ \A a \in Int :
       Touched(merged, a) <=> \E k \in 1 .. i - 1 : Meets(a, sorted[k])

MergeInv ==
  /\ MergeTyped
  /\ Apart(merged)
  /\ ranges = <<>> \/ at = "sort" => merged = <<>>
  /\ ranges # <<>> /\ at # "sort" => SortedIsThe /\ MergedSoFar
  /\ ranges # <<>> /\ at = "done" => i > Len(sorted)
  /\ at = "loop" => ranges # <<>>

\* The ranges of the model are ranges.
LEMMA RangesAreSpans == Ranges \subseteq Span
  BY PlacesAreNumbers DEF Ranges, Span

LEMMA MergeInitInv == MergeInit => MergeInv
<1> SUFFICES ASSUME MergeInit PROVE MergeInv
  OBVIOUS
<1>1. PICK n \in Nat : ranges \in [1 .. n -> Ranges]
  BY RangesAreBounded, SMT DEF MergeInit
<1>2. ranges \in Seq(Span)
  BY <1>1, RangesAreSpans
<1> QED
  BY <1>2 DEF MergeInit, MergeInv, MergeTyped, Apart

LEMMA SortKeepsMergeInv == MergeInv /\ Sort => MergeInv'
<1> SUFFICES ASSUME MergeInv, Sort PROVE MergeInv'
  OBVIOUS
<1> DEFINE n == Len(ranges)
<1>1. /\ ranges' = ranges /\ ranges \in Seq(Span) /\ ranges # <<>>
      /\ n \in Nat \ {0} /\ DOMAIN ranges = 1 .. n
      /\ merged' = <<sorted'[1]>> /\ i' = 2 /\ at' = "loop"
  BY DEF MergeInv, MergeTyped, Sort
<1>2. PICK q \in Sortings : sorted' = [k \in 1 .. n |-> ranges[q[k]]]
  BY <1>1 DEF Sort
<1>3. /\ q \in [1 .. n -> 1 .. n]
      /\ \A k \in 1 .. n : \E l \in 1 .. n : q[l] = k
      /\ \A k, l \in 1 .. n : k <= l => ranges[q[k]].start <= ranges[q[l]].start
  BY <1>1 DEF Sortings
<1>4. /\ sorted' \in Seq(Span) /\ Len(sorted') = n /\ DOMAIN sorted' = 1 .. n
      /\ \A k \in 1 .. n : sorted'[k] = ranges[q[k]]
      /\ 1 \in 1 .. n
  <2> DEFINE res == [k \in 1 .. n |-> ranges[q[k]]]
  <2>1. \A k \in 1 .. n : ranges[q[k]] \in Span
    <3> SUFFICES ASSUME NEW k \in 1 .. n PROVE ranges[q[k]] \in Span
      OBVIOUS
    <3>1. q[k] \in DOMAIN ranges
      BY <1>1, <1>3
    <3> HIDE DEF n
    <3> QED
      BY <1>1, <3>1
  <2> HIDE DEF n
  <2>2. res \in Seq(Span) /\ Len(res) = n /\ DOMAIN res = 1 .. n
        /\ 1 \in 1 .. n
    BY <1>1, <2>1
  <2>3. \A k \in 1 .. n : res[k] = ranges[q[k]]
    OBVIOUS
  <2> QED
    BY <1>2, <2>2, <2>3
<1>5. SortedIsThe'
  <2>1. \A r : (\E k \in 1 .. n : ranges[k] = r)
                  <=> (\E k \in 1 .. n : sorted'[k] = r)
    <3> HIDE DEF n
    <3>1. ASSUME NEW k \in 1 .. n
          PROVE  \E l \in 1 .. n : sorted'[l] = ranges[k]
      <4>1. PICK l \in 1 .. n : q[l] = k
        BY <1>3
      <4> QED
        BY <1>4, <4>1
    <3>2. ASSUME NEW k \in 1 .. n
          PROVE  \E l \in 1 .. n : ranges[l] = sorted'[k]
      <4>1. q[k] \in 1 .. n /\ sorted'[k] = ranges[q[k]]
        BY <1>3, <1>4
      <4> QED
        BY <4>1
    <3> QED
      BY <3>1, <3>2, Zenon
  <2>2. \A k, l \in 1 .. n : k <= l => sorted'[k].start <= sorted'[l].start
    BY <1>3, <1>4
  <2> QED
    BY <1>1, <1>4, <2>1, <2>2 DEF SortedIsThe
<1>6. /\ merged' \in Seq(Span) /\ Len(merged') = 1 /\ DOMAIN merged' = {1}
      /\ merged'[1] = sorted'[1]
  BY <1>1, <1>4
<1>7. MergedSoFar'
  <2>1. 1 .. i' - 1 = {1}
    BY <1>1, SMT
  <2>2. \A a \in Int :
          Covered(merged', a) <=> \E k \in 1 .. i' - 1 : In(a, sorted'[k])
    BY <1>6, <2>1 DEF Covered
  <2>5. \A a \in Int :
          Touched(merged', a) <=> \E k \in 1 .. i' - 1 : Meets(a, sorted'[k])
    BY <1>6, <2>1 DEF Touched
  <2>3. \A k \in DOMAIN sorted' : k >= i' => sorted'[1].start <= sorted'[k].start
    <3>1. \A k \in 1 .. n : sorted'[1].start <= sorted'[k].start
      <4>1. \A k \in 1 .. n : 1 <= k
        BY SMT
      <4> QED
        BY <1>3, <1>4, <4>1
    <3> QED
      BY <1>4, <3>1
  <2>4. i' \in 1 .. Len(sorted') + 1 /\ merged' # <<>>
    BY <1>1, <1>4, <1>6, SMT
  <2> QED
    BY <1>6, <2>2, <2>3, <2>4, <2>5 DEF MergedSoFar, Covered, In, Touched, Meets
<1>8. Apart(merged)'
  BY <1>6, SMT DEF Apart
<1>9. MergeTyped'
  BY <1>1, <1>4, <1>6 DEF MergeTyped
<1> QED
  BY <1>1, <1>5, <1>7, <1>8, <1>9 DEF MergeInv

LEMMA MergeOneKeepsMergeInv == MergeInv /\ MergeOne => MergeInv'
<1> SUFFICES ASSUME MergeInv, MergeOne PROVE MergeInv'
  OBVIOUS
<1>1. /\ at = "loop" /\ i <= Len(sorted) /\ ranges # <<>>
      /\ merged' = Absorb(merged, sorted[i]) /\ i' = i + 1
      /\ UNCHANGED <<ranges, sorted, at>>
      /\ MergeTyped /\ Apart(merged) /\ SortedIsThe /\ MergedSoFar
  BY DEF MergeInv, MergeOne
<1>2. /\ i \in DOMAIN sorted /\ sorted[i] \in Span
      /\ DOMAIN sorted = 1 .. Len(sorted) /\ Len(sorted) \in Nat
      /\ i \in Nat \ {0}
  BY <1>1, SMT DEF MergeTyped, MergedSoFar
<1>3. merged[Len(merged)].start <= sorted[i].start
  BY <1>1, <1>2 DEF MergedSoFar
<1>4. /\ merged' \in Seq(Span) /\ merged' # <<>>
      /\ merged'[Len(merged')].start <= sorted[i].start
      /\ Apart(merged')
      /\ \A a \in Int : Covered(merged', a)
                          <=> Covered(merged, a) \/ In(a, sorted[i])
      /\ \A a \in Int : Touched(merged', a)
                          <=> Touched(merged, a) \/ Meets(a, sorted[i])
  BY <1>1, <1>2, <1>3, AbsorbTakesIn DEF MergeTyped, MergedSoFar
<1>5. MergedSoFar'
  <2>1. ASSUME NEW k \in DOMAIN sorted, k >= i'
        PROVE  merged'[Len(merged')].start <= sorted[k].start
    <3> DEFINE m == merged'[Len(merged')]
    <3>1. sorted[i].start <= sorted[k].start
      BY <1>1, <1>2, <2>1, SMT DEF SortedIsThe
    <3>2. m \in Span /\ sorted[k] \in Span
      BY <1>2, <1>4, <1>1 DEF MergeTyped
    <3>3. m.start \in Int /\ sorted[k].start \in Int /\ sorted[i].start \in Int
      BY <1>2, <3>2, SpanFields
    <3> HIDE DEF m
    <3>4. m.start <= sorted[i].start
      BY <1>4 DEF m
    <3>5. m.start <= sorted[k].start
      BY <3>1, <3>3, <3>4, SMT
    <3> QED
      BY <3>5 DEF m
  <2>2. 1 .. i' - 1 = (1 .. i - 1) \cup {i}
    BY <1>1, <1>2, SMT
  <2>3. \A a \in Int :
          Covered(merged', a) <=> \E k \in 1 .. i' - 1 : In(a, sorted[k])
    BY <1>1, <1>4, <2>2, Zenon DEF MergedSoFar
  <2>5. \A a \in Int :
          Touched(merged', a) <=> \E k \in 1 .. i' - 1 : Meets(a, sorted[k])
    BY <1>1, <1>4, <2>2, Zenon DEF MergedSoFar
  <2>4. i' \in 1 .. Len(sorted) + 1
    BY <1>1, <1>2, SMT
  <2> QED
    BY <1>1, <1>4, <2>1, <2>3, <2>4, <2>5
    DEF MergedSoFar, Covered, In, Touched, Meets
<1>6. MergeTyped'
  BY <1>1, <1>2, <1>4 DEF MergeTyped
<1>7. SortedIsThe' /\ Apart(merged)'
  BY <1>1, <1>4 DEF SortedIsThe, Apart
<1> QED
  BY <1>1, <1>5, <1>6, <1>7 DEF MergeInv

LEMMA MergeNextInv == MergeInv /\ [MergeNext]_mergeVars => MergeInv'
<1> SUFFICES ASSUME MergeInv, [MergeNext]_mergeVars PROVE MergeInv'
  OBVIOUS
<1>1. CASE Sort
  BY <1>1, SortKeepsMergeInv
<1>2. CASE MergeOne
  BY <1>2, MergeOneKeepsMergeInv
<1>3. CASE NothingToMerge
  BY <1>3 DEF NothingToMerge, MergeInv, MergeTyped, Apart
<1>4. CASE MergeEnds
  BY <1>4 DEF MergeEnds, MergeInv, MergeTyped, Apart, SortedIsThe,
              MergedSoFar, Covered, In, Touched, Meets
<1>5. CASE UNCHANGED mergeVars
  BY <1>5 DEF mergeVars, MergeInv, MergeTyped, Apart, SortedIsThe,
              MergedSoFar, Covered, In, Touched, Meets
<1> QED
  BY <1>1, <1>2, <1>3, <1>4, <1>5 DEF MergeNext

LEMMA MergeInvHolds == MergeSpec => []MergeInv
  BY MergeInitInv, MergeNextInv, PTL DEF MergeSpec

\* When the loop has ended, the list covers and meets what the ranges do.
LEMMA MergedHasTheRanges ==
  ASSUME MergeInv, at = "done"
  PROVE  /\ \A a \in Int : Covered(merged, a) <=> Covered(ranges, a)
         /\ \A a \in Int : Touched(merged, a) <=> Touched(ranges, a)
<1>1. CASE ranges = <<>>
  BY <1>1 DEF MergeInv
<1>2. CASE ranges # <<>>
  <2>1. SortedIsThe /\ MergedSoFar /\ i > Len(sorted) /\ MergeTyped
    BY <1>2 DEF MergeInv
  <2>2. 1 .. i - 1 = DOMAIN sorted
    BY <2>1, SMT DEF MergeTyped, MergedSoFar
  <2>3. /\ \A a \in Int : Covered(merged, a) <=> \E k \in DOMAIN sorted : In(a, sorted[k])
        /\ \A a \in Int :
             Touched(merged, a) <=> \E k \in DOMAIN sorted : Meets(a, sorted[k])
    BY <2>1, <2>2 DEF MergedSoFar
  <2>4. \A a : (\E k \in DOMAIN sorted : In(a, sorted[k])) <=> Covered(ranges, a)
    BY <2>1, Zenon DEF SortedIsThe, Covered
  <2>5. \A a : (\E k \in DOMAIN sorted : Meets(a, sorted[k])) <=> Touched(ranges, a)
    BY <2>1, Zenon DEF SortedIsThe, Touched
  <2> QED
    BY <2>3, <2>4, <2>5
<1> QED
  BY <1>1, <1>2

LEMMA InvIsApart == MergeInv => MergedIsApart
  BY DEF MergeInv, MergedIsApart, Apart

LEMMA InvCoversTheSame == MergeInv => MergedCoversTheSame
<1>1. MergeInv /\ at = "done"
        => \A a \in Places : Covered(merged, a) <=> Covered(ranges, a)
  BY MergedHasTheRanges, PlacesAreNumbers
<1> QED
  BY <1>1 DEF MergedCoversTheSame, Covered

LEMMA InvIgnoresTheSort == MergeInv => SortDoesNotMatter
<1> SUFFICES ASSUME MergeInv, at = "done" PROVE merged = merge_ranges(ranges)
  BY DEF SortDoesNotMatter
<1>1. /\ ranges \in Seq(Span) /\ merged \in Seq(Span) /\ Apart(merged)
  BY DEF MergeInv, MergeTyped
<1>2. /\ merge_ranges(ranges) \in Seq(Span)
      /\ Apart(merge_ranges(ranges))
      /\ \A a \in Int : Covered(merge_ranges(ranges), a) <=> Covered(ranges, a)
      /\ \A a \in Int : Touched(merge_ranges(ranges), a) <=> Touched(ranges, a)
  BY <1>1, MergeRangesResult
<1> QED
  BY <1>1, <1>2, MergedHasTheRanges, SameRanges

(***************************************************************************)
(* merge_ranges (main.cpp:385), for any number of ranges and whatever      *)
(* order the sort leaves ranges with equal starts in: the result is in     *)
(* order, with a gap between any two ranges.                               *)
(***************************************************************************)
THEOREM MergedRangesAreApart == MergeSpec => []MergedIsApart
  BY InvIsApart, MergeInvHolds, PTL

(***************************************************************************)
(* Merging neither adds an address to the erased ones nor drops one, for   *)
(* any number of ranges and whatever order the sort leaves.                *)
(***************************************************************************)
THEOREM MergingKeepsTheAddresses == MergeSpec => []MergedCoversTheSame
  BY InvCoversTheSame, MergeInvHolds, PTL

(***************************************************************************)
(* std::sort is not stable and compares starts alone; whatever order it    *)
(* leaves ranges with equal starts in, merge_ranges returns the same list, *)
(* the one the planner's model computes.  What the list covers, and what   *)
(* it meets when the ends are counted, determine a list that is apart.     *)
(***************************************************************************)
THEOREM MergingIgnoresTheSort == MergeSpec => []SortDoesNotMatter
  BY InvIgnoresTheSort, MergeInvHolds, PTL

(***************************************************************************)
(* The loop inside main() (PlannedErases): it starts with nothing merged   *)
(* and is given the erase ranges of the plan, which are ranges because no  *)
(* segment reaches past the end of the flash.                              *)
(***************************************************************************)
ErasesInv ==
  /\ PlanFacts
  /\ MergeInv
  /\ at = "idle" => ranges = <<>> /\ merged = <<>>

LEMMA ErasesInitInv == ErasesInit => ErasesInv
<1> SUFFICES ASSUME ErasesInit PROVE ErasesInv
  OBVIOUS
<1>1. PlanFacts
  BY PlanFactsInit DEF ErasesInit
<1>2. /\ ranges = <<>> /\ sorted = <<>> /\ merged = <<>> /\ i = 1
      /\ at = "idle"
  BY DEF ErasesInit
<1> QED
  BY <1>1, <1>2 DEF ErasesInv, MergeInv, MergeTyped, Apart

LEMMA ErasesNextInv == ErasesInv /\ [ErasesNext]_erasesVars => ErasesInv'
<1> SUFFICES ASSUME ErasesInv, [ErasesNext]_erasesVars PROVE ErasesInv'
  OBVIOUS
<1>1. ASSUME [PlanNext]_planVars PROVE PlanFacts'
  BY <1>1, PlanFactsNext DEF ErasesInv
<1>2. CASE PlanStep \/ UNCHANGED erasesVars
  <2>1. [PlanNext]_planVars /\ UNCHANGED mergeVars
    BY <1>2 DEF PlanStep, erasesVars
  <2>2. MergeInv'
    BY <2>1, MergeNextInv DEF ErasesInv
  <2> QED
    BY <1>1, <2>1, <2>2 DEF ErasesInv, mergeVars
<1>3. CASE CallMerge
  <2>1. /\ UNCHANGED planVars /\ at = "idle" /\ at' = "sort"
        /\ ranges' = flash_erase_ranges /\ sorted' = sorted /\ i' = i
        /\ merged' = <<>>
    BY <1>3 DEF CallMerge, ErasesInv
  <2>2. flash_erase_ranges \in Seq(Span)
    BY EraseRangesAreSpans DEF ErasesInv, PlanFacts, PageInv
  <2>3. MergeInv'
    BY <2>1, <2>2 DEF ErasesInv, MergeInv, MergeTyped, Apart
  <2> QED
    BY <1>1, <2>1, <2>3 DEF ErasesInv
<1>4. CASE MergeStep
  <2>1. UNCHANGED planVars /\ MergeNext
    BY <1>4 DEF MergeStep, MergeNext
  <2>2. MergeInv'
    BY <2>1, MergeNextInv DEF ErasesInv
  <2>3. at' # "idle"
    BY <1>4 DEF MergeStep, Sort, MergeOne, MergeEnds
  <2> QED
    BY <1>1, <2>1, <2>2, <2>3 DEF ErasesInv
<1> QED
  BY <1>2, <1>3, <1>4 DEF ErasesNext

(***************************************************************************)
(* Calling merge_ranges changes nothing of the plan, so that every theorem *)
(* about the planner holds of main() as far as the list of its erases.     *)
(***************************************************************************)
THEOREM ErasesFollowThePlan == ErasesSpec => PlanSpec
<1>1. ErasesInit => PlanInit
  BY DEF ErasesInit
<1>2. [ErasesNext]_erasesVars => [PlanNext]_planVars
  BY DEF ErasesNext, PlanStep, CallMerge, MergeStep, erasesVars
<1> QED
  BY <1>1, <1>2, PTL DEF ErasesSpec, PlanSpec

(***************************************************************************)
(* What main() erases, whatever the image, is the merged erase ranges of   *)
(* the planner: in order and with a gap between any two, not an address    *)
(* more or less, and the same list however the sort leaves equal starts.   *)
(***************************************************************************)
THEOREM PlannedErasesAreMerged ==
  ErasesSpec => [](MergedIsApart /\ MergedCoversTheSame /\ SortDoesNotMatter)
<1>1. ErasesInv => MergedIsApart /\ MergedCoversTheSame /\ SortDoesNotMatter
  BY InvIsApart, InvCoversTheSame, InvIgnoresTheSort DEF ErasesInv
<1> QED
  BY <1>1, ErasesInitInv, ErasesNextInv, PTL DEF ErasesSpec

-----------------------------------------------------------------------------
(* The dry run. *)

(***************************************************************************)
(* The loop of the dry run has found in n segments what the load has       *)
(* planned for them.                                                       *)
(***************************************************************************)
Summary(ram) ==
  [k \in DOMAIN ram |-> [addr |-> ram[k].addr, size |-> Len(ram[k].data)]]

Planned == [ram      |-> Summary(ram_segments),
            pages    |-> DOMAIN flash_pages,
            ranges   |-> flash_erase_ranges,
            mirrored |-> mirrored_flash_segments,
            skipped  |-> skipped_flash_segments]

IsDryLoop(f, n) ==
  /\ f[0] = DryStart
  /\ \A k \in 1 .. n :
       f[k] = DrySegment(f[k - 1], image.segments[k], allow_flash)

Throws(segment) ==
  /\ Loadable(segment)
  /\ segment_address(segment) = 0 \/ ~ segment.readable

NothingPlanned ==
  ~ allow_flash /\ DOMAIN flash_pages = {} /\ ram_segments = <<>>

DryRunAgrees == \E f : IsDryLoop(f, next - 1) /\ f[next - 1] = Planned

\* why a plan is rejected, and that a plan is one where nothing is wrong
RejectedRightly ==
  /\ plan \in {"scan", "planned"} => image.parses
  /\ \A k \in 1 .. next - 1 : ~ Throws(image.segments[k])
  /\ plan = "planned" => ~ NothingPlanned
  /\ plan = "rejected" =>
       DryThrows(image) \/ (next > Len(image.segments) /\ NothingPlanned)

DryInv == RejectedRightly /\ (DryRunApplies => DryRunAgrees)

\* One more RAM segment is one more line.
LEMMA SummaryGrows ==
  ASSUME NEW ram \in Seq([addr: Address, data: Seq(Byte)]),
         NEW addr \in Address, NEW data \in Seq(Byte)
  PROVE  Summary(Append(ram, [addr |-> addr, data |-> data]))
           = Append(Summary(ram), [addr |-> addr, size |-> Len(data)])
<1>1. PICK n \in Nat : n = Len(ram) /\ DOMAIN ram = 1 .. n
  OBVIOUS
<1>2. PICK more : more = Append(ram, [addr |-> addr, data |-> data])
  OBVIOUS
<1>3. /\ DOMAIN more = 1 .. n + 1
      /\ more[n + 1] = [addr |-> addr, data |-> data]
      /\ \A k \in 1 .. n : more[k] = ram[k]
  BY <1>1, <1>2
<1>4. \A k \in 1 .. n : ram[k].addr \in Address /\ Len(ram[k].data) \in Nat
  <2> SUFFICES ASSUME NEW k \in 1 .. n
               PROVE  ram[k].addr \in Address /\ Len(ram[k].data) \in Nat
    OBVIOUS
  <2>1. PICK R : R = [addr: Address, data: Seq(Byte)]
    OBVIOUS
  <2>2. ram \in Seq(R)
    BY <2>1
  <2>3. ram[k] \in R
    BY <1>1, <2>2
  <2>4. PICK r : r = ram[k]
    OBVIOUS
  <2>5. r.addr \in Address /\ r.data \in Seq(Byte)
    BY <2>1, <2>3, <2>4
  <2> QED
    BY <2>4, <2>5
<1>5. Summary(ram) \in Seq([addr: Address, size: Nat]) /\ Len(Summary(ram)) = n
  <2>1. PICK R : R = [addr: Address, size: Nat]
    OBVIOUS
  <2>2. \A k \in 1 .. n : [addr |-> ram[k].addr, size |-> Len(ram[k].data)] \in R
    BY <1>4, <2>1
  <2>3. Summary(ram) \in [1 .. n -> R]
    BY <1>1, <2>2 DEF Summary
  <2>4. Summary(ram) \in Seq(R) /\ Len(Summary(ram)) = n
    BY <2>3
  <2> QED
    BY <2>1, <2>4
<1>6. Len(data) \in Nat
  OBVIOUS
<1>7. PICK lines : lines = Append(Summary(ram), [addr |-> addr, size |-> Len(data)])
  OBVIOUS
<1>8. /\ DOMAIN lines = 1 .. n + 1
      /\ lines[n + 1] = [addr |-> addr, size |-> Len(data)]
      /\ \A k \in 1 .. n : lines[k] = Summary(ram)[k]
      /\ lines = [k \in 1 .. n + 1 |-> lines[k]]
  BY <1>5, <1>6, <1>7
<1>9. \A k \in 1 .. n + 1 :
        lines[k] = [addr |-> more[k].addr, size |-> Len(more[k].data)]
  <2>1. \A k \in 1 .. n + 1 : k \in 1 .. n \/ k = n + 1
    OBVIOUS
  <2>2. \A k \in 1 .. n :
          lines[k] = [addr |-> more[k].addr, size |-> Len(more[k].data)]
    BY <1>1, <1>3, <1>8 DEF Summary
  <2>3. more[n + 1].addr = addr /\ more[n + 1].data = data
    BY <1>3
  <2>4. lines[n + 1]
          = [addr |-> more[n + 1].addr, size |-> Len(more[n + 1].data)]
    BY <1>8, <2>3
  <2> QED
    BY <2>1, <2>2, <2>4
<1>10. Summary(more) = lines
  BY <1>3, <1>8, <1>9 DEF Summary
<1> QED
  BY <1>2, <1>7, <1>10

\* The two maps agree about a segment when it is treated alike.
LEMMA MapsAgree ==
  ASSUME NEW addr, NEW size, TreatedAlike(addr, size)
  PROVE  /\ DryInFlash(addr) <=> is_flash_address(addr, layout)
         /\ DryInSram(addr) <=> is_sram_address(addr, layout)
         /\ is_flash_address(addr, layout) =>
              (DryMapsToSram(addr, size) <=> maps_to_sram(addr, size, layout))
         /\ dry_mapped(addr) = sram_mirror(addr)
  BY DEF TreatedAlike, memory_layout_for_product, DryInFlash, DryInSram,
         is_flash_address, is_sram_address, DryMapsToSram, maps_to_sram,
         dry_mapped, sram_mirror

\* The copies of the helpers do what the helpers do.
LEMMA HelpersAgree ==
  /\ \A value, align : dry_align_down(value, align) = align_down(value, align)
  /\ \A value, align : dry_align_up(value, align) = align_up(value, align)
  /\ \A segment : DryLoadable(segment) <=> Loadable(segment)
  /\ \A segment : dry_segment_address(segment) = segment_address(segment)
  BY DEF dry_align_down, dry_align_up, align_down, align_up, DryLoadable, Loadable,
         dry_segment_address, segment_address

\* Both programs tell the pages of a segment alike.
LEMMA PagesOfSegment ==
  ASSUME NEW addr \in Nat, NEW size \in Nat,
         NEW data, DOMAIN data = 1 .. size
  PROVE  DOMAIN PagesWith(addr, data)
           = DOMAIN flash_pages
               \cup {align_down(Plus(addr, j), PageSize) : j \in 0 .. size - 1}
<1>1. DOMAIN PagesWith(addr, data)
        = DOMAIN flash_pages
            \cup {align_down(Plus(addr, j - 1), PageSize) : j \in 1 .. size}
  BY DEF PagesWith
<1>2. \A j \in 1 .. size : j - 1 \in 0 .. size - 1
  OBVIOUS
<1>3. \A j \in 0 .. size - 1 : j + 1 \in 1 .. size /\ (j + 1) - 1 = j
  OBVIOUS
<1>4. {align_down(Plus(addr, j - 1), PageSize) : j \in 1 .. size}
        = {align_down(Plus(addr, j), PageSize) : j \in 0 .. size - 1}
  <2> DEFINE P(j) == align_down(Plus(addr, j), PageSize)
  <2> HIDE DEF P
  <2>1. \A j \in 0 .. size - 1 : \E l \in 1 .. size : P(l - 1) = P(j)
    BY <1>3, Zenon
  <2>2. {P(j - 1) : j \in 1 .. size} = {P(j) : j \in 0 .. size - 1}
    BY <1>2, <2>1
  <2> QED
    BY <2>2 DEF P
<1> QED
  BY <1>1, <1>4


\* A turn of the load's loop does what a turn of the dry run's does.
LEMMA TurnsAgree ==
  ASSUME PlanInv, NEW segment, PlanSegment(segment), ~ RejectSegment(segment),
         Loadable(segment) => TreatedAlike(segment_address(segment), segment.filez)
  PROVE  Planned' = DrySegment(Planned, segment, allow_flash)
<1> DEFINE addr == segment_address(segment)
           line == [addr |-> addr, size |-> segment.filez]
<1>1. AtSegment(segment) /\ next \in DOMAIN image.segments
      /\ segment = image.segments[next]
  <2>1. AtSegment(segment)
    BY DEF PlanSegment, SkipSegment, RamSegment, MirrorSegment, SkipFlashSegment,
           FlashSegment, HasContent
  <2> QED
    BY <2>1, AtSegmentNext
<1>2. /\ addr \in Address /\ segment.filez \in Nat
      /\ content(next) \in Seq(Byte)
      /\ DOMAIN content(next) = 1 .. segment.filez
  BY <1>1, SegmentNumbers DEF PlanInv
<1>3. Len(content(next)) = segment.filez
  BY <1>2
<1>4. ram_segments \in Seq([addr: Address, data: Seq(Byte)])
  BY DEF PlanInv, PlanTypeOK
<1>5. CASE SkipSegment(segment)
  BY <1>5, HelpersAgree DEF SkipSegment, Planned, Summary, DrySegment, segment_data
<1>6. ASSUME HasContent(segment)
      PROVE  /\ DrySegment(Planned, segment, allow_flash)
                  = DryContent(Planned, addr, segment.filez, allow_flash)
             /\ DryInFlash(addr) <=> is_flash_address(addr, layout)
             /\ is_flash_address(addr, layout) =>
                  (DryMapsToSram(addr, segment.filez)
                     <=> maps_to_sram(addr, segment.filez, layout))
             /\ dry_mapped(addr) = sram_mirror(addr)
  <2>1. Loadable(segment)
    BY <1>6 DEF HasContent
  <2> QED
    BY <2>1, MapsAgree, HelpersAgree DEF DrySegment
<1>7. ASSUME NEW to \in Address,
             ram_segments' = Append(ram_segments,
                                    [addr |-> to, data |-> content(next)])
      PROVE  Summary(ram_segments')
               = Append(Summary(ram_segments), [addr |-> to, size |-> segment.filez])
  <2>1. content(next) \in Seq(Byte)
    BY <1>2
  <2>2. Summary(Append(ram_segments, [addr |-> to, data |-> content(next)]))
          = Append(Summary(ram_segments),
                   [addr |-> to, size |-> Len(content(next))])
    BY <1>4, <2>1, SummaryGrows
  <2> QED
    BY <1>3, <1>7, <2>2, Zenon
<1>8. CASE RamSegment(segment)
  <2>1. /\ HasContent(segment) /\ ~ DryInFlash(addr)
        /\ ram_segments' = Append(ram_segments,
                                  [addr |-> addr, data |-> content(next)])
        /\ UNCHANGED <<flash_pages, flash_erase_ranges,
                       mirrored_flash_segments, skipped_flash_segments>>
    BY <1>6, <1>8 DEF RamSegment
  <2>2. Summary(ram_segments') = Append(Summary(ram_segments), line)
    BY <1>2, <1>7, <2>1
  <2>3. DrySegment(Planned, segment, allow_flash)
          = DryRam(Planned, addr, segment.filez)
    BY <1>6, <2>1 DEF DryContent
  <2> QED
    BY <2>1, <2>2, <2>3 DEF Planned, DryRam
<1>9. CASE MirrorSegment(segment)
  <2>1. /\ HasContent(segment) /\ DryInFlash(addr) /\ ~ allow_flash
        /\ DryMapsToSram(addr, segment.filez)
        /\ ram_segments' = Append(ram_segments,
                                  [addr |-> dry_mapped(addr), data |-> content(next)])
        /\ mirrored_flash_segments' = TRUE
        /\ UNCHANGED <<flash_pages, flash_erase_ranges, skipped_flash_segments>>
        /\ dry_mapped(addr) \in Address
    BY <1>2, <1>6, <1>9, MirrorIsAddress DEF MirrorSegment
  <2>2. Summary(ram_segments')
          = Append(Summary(ram_segments),
                   [addr |-> dry_mapped(addr), size |-> segment.filez])
    BY <1>7, <2>1
  <2>3. DrySegment(Planned, segment, allow_flash)
          = [DryRam(Planned, dry_mapped(addr), segment.filez) EXCEPT !.mirrored = TRUE]
    BY <1>6, <2>1 DEF DryContent
  <2> QED
    BY <2>1, <2>2, <2>3 DEF Planned, DryRam
<1>10. CASE SkipFlashSegment(segment)
  <2>1. /\ HasContent(segment) /\ DryInFlash(addr) /\ ~ allow_flash
        /\ ~ DryMapsToSram(addr, segment.filez)
        /\ skipped_flash_segments' = TRUE
        /\ UNCHANGED <<ram_segments, flash_pages, flash_erase_ranges,
                       mirrored_flash_segments>>
    BY <1>6, <1>10 DEF SkipFlashSegment, segment_data
  <2>2. DrySegment(Planned, segment, allow_flash)
          = [Planned EXCEPT !.skipped = TRUE]
    BY <1>6, <2>1 DEF DryContent
  <2> QED
    BY <2>1, <2>2 DEF Planned
<1>11. CASE FlashSegment(segment)
  <2>1. /\ HasContent(segment) /\ DryInFlash(addr) /\ allow_flash
        /\ flash_erase_ranges' = Append(flash_erase_ranges,
                                        EraseRange(addr, segment.filez))
        /\ flash_pages' = PagesWith(addr, content(next))
        /\ UNCHANGED <<ram_segments, mirrored_flash_segments,
                       skipped_flash_segments>>
    BY <1>6, <1>11 DEF FlashSegment
  <2>2. addr \in Nat
    BY <1>2, MapNumbers, SMT DEF Address
  <2>3. DOMAIN flash_pages'
          = DOMAIN flash_pages
              \cup {align_down(Plus(addr, j), PageSize) : j \in 0 .. segment.filez - 1}
    BY <1>2, <2>1, <2>2, PagesOfSegment
  <2>4. DrySegment(Planned, segment, allow_flash)
          = DryFlash(Planned, addr, segment.filez)
    BY <1>6, <2>1 DEF DryContent
  <2> QED
    BY <2>1, <2>3, <2>4 DEF Planned, DryFlash, EraseRange, dry_align_down, dry_align_up,
       align_down, align_up
<1> QED
  BY <1>5, <1>8, <1>9, <1>10, <1>11 DEF PlanSegment


\* One more turn of the loop.
LEMMA LoopGrows ==
  ASSUME NEW f, NEW n \in Nat, IsDryLoop(f, n), NEW found,
         found = DrySegment(f[n], image.segments[n + 1], allow_flash)
  PROVE  \E g : IsDryLoop(g, n + 1) /\ g[n + 1] = found
<1>1. PICK g : g = [k \in 0 .. n + 1 |-> IF k = n + 1 THEN found ELSE f[k]]
  OBVIOUS
<1>2. /\ g[n + 1] = found
      /\ \A k \in 0 .. n : g[k] = f[k]
  BY <1>1
<1>3. ASSUME NEW k \in 1 .. n + 1
      PROVE  g[k] = DrySegment(g[k - 1], image.segments[k], allow_flash)
  <2>1. CASE k = n + 1
    <3>1. k - 1 = n /\ n \in 0 .. n
      BY <2>1
    <3>2. g[k - 1] = f[n]
      BY <1>2, <3>1
    <3> QED
      BY <1>2, <2>1, <3>2
  <2>2. CASE k # n + 1
    <3>1. k \in 1 .. n /\ k \in 0 .. n /\ k - 1 \in 0 .. n
      BY <2>2
    <3>2. f[k] = DrySegment(f[k - 1], image.segments[k], allow_flash)
      BY <3>1 DEF IsDryLoop
    <3>3. g[k] = f[k] /\ g[k - 1] = f[k - 1]
      BY <1>2, <3>1
    <3> QED
      BY <3>2, <3>3
  <2> QED
    BY <2>1, <2>2
<1>4. g[0] = DryStart
  <2>1. 0 \in 0 .. n
    OBVIOUS
  <2> QED
    BY <1>2, <2>1 DEF IsDryLoop
<1> QED
  BY <1>2, <1>3, <1>4 DEF IsDryLoop

\* The invariant of the comparison holds at the start.
LEMMA DryInit == PlanInit => DryInv
<1> SUFFICES ASSUME PlanInit PROVE DryInv
  OBVIOUS
<1>1. next - 1 = 0 /\ 1 .. next - 1 = {}
  BY SMT DEF PlanInit
<1>2. PICK f : f = [k \in {0} |-> DryStart]
  OBVIOUS
<1>3. Planned = DryStart
  <2>1. Summary(<<>>) = <<>>
    BY DEF Summary
  <2>2. DOMAIN flash_pages = {}
    BY DEF PlanInit
  <2> QED
    BY <2>1, <2>2 DEF PlanInit, Planned, DryStart
<1>4. IsDryLoop(f, next - 1) /\ f[next - 1] = Planned
  BY <1>1, <1>2, <1>3 DEF IsDryLoop
<1>5. RejectedRightly
  BY <1>1 DEF RejectedRightly, PlanInit
<1> QED
  BY <1>4, <1>5 DEF DryInv, DryRunAgrees


\* Steps that plan nothing.
LEMMA OthersKeepAgreement ==
  ASSUME DryRunApplies => DryRunAgrees,
         UNCHANGED <<image, product, allow_flash, next, ram_segments, flash_pages,
                     flash_erase_ranges, mirrored_flash_segments,
                     skipped_flash_segments>>
  PROVE  (DryRunApplies => DryRunAgrees)'
<1>1. DryRunApplies' <=> DryRunApplies
  BY DEF DryRunApplies, TreatedAlike, layout
<1>2. Planned' = Planned
  BY DEF Planned
<1>3. \A f : IsDryLoop(f, next - 1)' <=> IsDryLoop(f, next - 1)
  BY DEF IsDryLoop
<1> QED
  BY <1>1, <1>2, <1>3 DEF DryRunAgrees

LEMMA AgreementNext ==
  ASSUME PlanInv, DryRunApplies => DryRunAgrees, [PlanNext]_planVars
  PROVE  (DryRunApplies => DryRunAgrees)'
<1>1. CASE UNCHANGED planVars \/ ReadElf \/ RejectElf \/ FinishPlan
  BY <1>1, OthersKeepAgreement
  DEF planVars, input, segment_data, ReadElf, RejectElf, FinishPlan, Throw
<1>2. ASSUME NEW segment, PlanSegment(segment)
      PROVE  (DryRunApplies => DryRunAgrees)'
  <2>1. CASE RejectSegment(segment)
    BY <2>1, OthersKeepAgreement DEF RejectSegment, Throw, input, segment_data
  <2>2. CASE ~ RejectSegment(segment)
    <3>1. AtSegment(segment) /\ next' = next + 1
          /\ UNCHANGED <<image, product, allow_flash>>
      BY <1>2, <2>2
      DEF PlanSegment, SkipSegment, RamSegment, MirrorSegment, SkipFlashSegment,
          FlashSegment, HasContent, input
    <3>2. /\ next \in DOMAIN image.segments /\ segment = image.segments[next]
          /\ next \in Nat \ {0}
      BY <3>1, AtSegmentNext DEF PlanInv, PlanTypeOK
    <3>3. DryRunApplies' <=> DryRunApplies
      BY <3>1 DEF DryRunApplies, TreatedAlike, layout
    <3>4. SUFFICES ASSUME DryRunApplies PROVE DryRunAgrees'
      BY <3>3
    <3>5. PICK f : IsDryLoop(f, next - 1) /\ f[next - 1] = Planned
      BY <3>4 DEF DryRunAgrees
    <3>6. Planned' = DrySegment(Planned, segment, allow_flash)
      <4>1. Loadable(segment)
              => TreatedAlike(segment_address(segment), segment.filez)
        BY <3>2, <3>4 DEF DryRunApplies
      <4> QED
        BY <1>2, <2>2, <4>1, TurnsAgree
    <3>7. PICK n \in Nat : n = next - 1 /\ n + 1 = next /\ next' - 1 = n + 1
      <4>1. /\ next - 1 \in Nat /\ (next - 1) + 1 = next
            /\ (next + 1) - 1 = (next - 1) + 1
        BY <3>2, SMT
      <4> QED
        BY <3>1, <4>1
    <3>8. PICK g : IsDryLoop(g, n + 1) /\ g[n + 1] = Planned'
      <4>1. IsDryLoop(f, n) /\ f[n] = Planned
        BY <3>5, <3>7
      <4>2. Planned' = DrySegment(f[n], image.segments[n + 1], allow_flash)
        BY <3>2, <3>6, <3>7, <4>1
      <4> QED
        BY <4>1, <4>2, LoopGrows
    <3>9. IsDryLoop(g, n + 1)' <=> IsDryLoop(g, n + 1)
      BY <3>1 DEF IsDryLoop
    <3> QED
      BY <3>1, <3>7, <3>8, <3>9 DEF DryRunAgrees, IsDryLoop
  <2> QED
    BY <2>1, <2>2
<1> QED
  BY <1>1, <1>2 DEF PlanNext

\* A plan is rejected for what the dry run throws for, or for want of segments.
LEMMA RejectionNext ==
  ASSUME PlanInv, RejectedRightly, [PlanNext]_planVars
  PROVE  RejectedRightly'
<1>1. CASE UNCHANGED planVars
  BY <1>1 DEF planVars, input, segment_data, RejectedRightly, DryThrows,
              NothingPlanned, Throws
<1>2. CASE ReadElf
  BY <1>2 DEF ReadElf, input, segment_data, RejectedRightly, Throws
<1>3. CASE RejectElf
  BY <1>3 DEF RejectElf, Throw, input, segment_data, RejectedRightly, DryThrows,
              Throws
<1>4. CASE FinishPlan
  BY <1>4 DEF FinishPlan, input, segment_data, RejectedRightly, NothingPlanned,
              Throws
<1>5. ASSUME NEW segment, PlanSegment(segment)
      PROVE  RejectedRightly'
  <2>1. CASE RejectSegment(segment)
    <3>1. /\ Throws(segment) /\ AtSegment(segment) /\ plan' = "rejected"
          /\ UNCHANGED <<image, allow_flash, next, flash_pages, ram_segments>>
      BY <2>1 DEF RejectSegment, Throw, Throws, input, segment_data
    <3>2. next \in DOMAIN image.segments /\ segment = image.segments[next]
      BY <3>1, AtSegmentNext
    <3>3. DryThrows(image)
      BY <3>1, <3>2, HelpersAgree DEF DryThrows, Throws
    <3> QED
      BY <3>1, <3>3 DEF RejectedRightly, Throws, DryThrows
  <2>2. CASE ~ RejectSegment(segment)
    <3>1. /\ AtSegment(segment) /\ next' = next + 1 /\ plan' = plan
          /\ plan = "scan" /\ image' = image /\ ~ Throws(segment)
      BY <1>5, <2>2
      DEF PlanSegment, SkipSegment, RamSegment, MirrorSegment, SkipFlashSegment,
          FlashSegment, HasContent, input, Throws, AtSegment
    <3>2. /\ next \in DOMAIN image.segments /\ segment = image.segments[next]
          /\ next \in Nat \ {0}
      BY <3>1, AtSegmentNext DEF PlanInv, PlanTypeOK
    <3>3. \A k \in 1 .. next' - 1 : k \in 1 .. next - 1 \/ k = next
      BY <3>1, <3>2, SMT
    <3> QED
      BY <3>1, <3>2, <3>3 DEF RejectedRightly, Throws
  <2> QED
    BY <2>1, <2>2
<1> QED
  BY <1>1, <1>2, <1>3, <1>4, <1>5 DEF PlanNext


IsDryFound(f) ==
  f = [n \in 0 .. Len(image.segments) |->
         IF n = 0 THEN DryStart
         ELSE DrySegment(f[n - 1], image.segments[n], allow_flash)]

\* The loop decides what is found.
LEMMA FoundIsPlanned ==
  ASSUME PlanInv, next - 1 = Len(image.segments), DryRunAgrees
  PROVE  DryFound(image, allow_flash) = Planned
<1>1. PICK n \in Nat : n = next - 1 /\ n = Len(image.segments)
  <2>1. next - 1 \in Nat
    BY SMT DEF PlanInv, PlanTypeOK
  <2> QED
    BY <2>1
<1>2. PICK f : IsDryLoop(f, n) /\ f[n] = Planned
  BY <1>1 DEF DryRunAgrees
<1>3. PICK g : g = [k \in 0 .. n |-> f[k]]
  OBVIOUS
<1>4. \A k \in 1 .. n : k - 1 \in 0 .. n /\ k \in 0 .. n /\ k # 0
  OBVIOUS
<1>5. \A k \in 0 .. n : k = 0 \/ k \in 1 .. n
  OBVIOUS
<1>6. IsDryFound(g)
  <2>1. \A k \in 0 .. n : g[k] = IF k = 0 THEN DryStart
                                 ELSE DrySegment(g[k - 1], image.segments[k], allow_flash)
    <3> SUFFICES ASSUME NEW k \in 0 .. n
                 PROVE  g[k] = IF k = 0 THEN DryStart
                               ELSE DrySegment(g[k - 1], image.segments[k], allow_flash)
      OBVIOUS
    <3>1. CASE k = 0
      BY <1>2, <1>3, <3>1 DEF IsDryLoop
    <3>2. CASE k \in 1 .. n
      <4>1. g[k] = f[k] /\ g[k - 1] = f[k - 1] /\ k # 0
        BY <1>3, <1>4, <3>2
      <4> QED
        BY <1>2, <3>2, <4>1 DEF IsDryLoop
    <3> QED
      BY <1>5, <3>1, <3>2
  <2>2. g = [k \in 0 .. n |-> g[k]]
    BY <1>3
  <2> QED
    BY <1>1, <2>1, <2>2 DEF IsDryFound
<1>7. PICK h : IsDryFound(h) /\ DryFound(image, allow_flash) = h[n]
  <2>1. IsDryFound(CHOOSE h : IsDryFound(h))
    BY <1>6, Zenon
  <2>2. DryFound(image, allow_flash) = (CHOOSE h : IsDryFound(h))[n]
    BY <1>1, Zenon DEF DryFound, IsDryFound
  <2> QED
    BY <2>1, <2>2
<1>8. \A k \in 0 .. n : h[k] = IF k = 0 THEN DryStart
                               ELSE DrySegment(h[k - 1], image.segments[k], allow_flash)
  BY <1>1, <1>7 DEF IsDryFound
<1>9. PICK T : T = {k \in 0 .. n : h[k] = f[k]}
  OBVIOUS
<1>10. 0 \in T
  BY <1>2, <1>8, <1>9 DEF IsDryLoop
<1>11. ASSUME NEW k \in 0 .. n - 1, k \in T PROVE k + 1 \in T
  <2>1. k + 1 \in 1 .. n /\ k + 1 \in 0 .. n /\ (k + 1) - 1 = k /\ k + 1 # 0
    OBVIOUS
  <2>2. f[k + 1] = DrySegment(f[k], image.segments[k + 1], allow_flash)
    BY <1>2, <2>1 DEF IsDryLoop
  <2>3. h[k + 1] = DrySegment(h[k], image.segments[k + 1], allow_flash)
    BY <1>8, <2>1
  <2> QED
    BY <1>9, <1>11, <2>1, <2>2, <2>3
<1>12. n \in T
  <2>1. 0 .. n \subseteq T
    BY <1>10, <1>11, InductionUpTo
  <2>2. n \in 0 .. n
    OBVIOUS
  <2> QED
    BY <2>1, <2>2
<1> QED
  BY <1>2, <1>7, <1>9, <1>12


-----------------------------------------------------------------------------
(* The two copies of merge_ranges. *)

\* The copies take a range in alike.
LEMMA AbsorbsAgree ==
  ASSUME NEW m \in Merged, NEW r \in Span
  PROVE  DryAbsorb(m, r) = Absorb(m, r)
<1>1. PICK n \in Nat \ {0} : n = Len(m) /\ DOMAIN m = 1 .. n
  BY DEF Merged
<1>2. PICK last \in Span : last = m[n]
  BY <1>1 DEF Merged
<1>3. Last(m) = last
  BY <1>1, <1>2 DEF Last
<1>4. /\ r.start \in Int /\ r.end \in Int
      /\ last.end \in Int
  BY SpanFields
<1>5. CASE r.start <= last.end
  <2>1. PICK e : /\ e = IF last.end < r.end THEN r.end ELSE last.end
                 /\ e = IF last.end >= r.end THEN last.end ELSE r.end
    BY <1>4
  <2>2. ~ (r.start > last.end)
    BY <1>4, <1>5
  <2>3. DryAbsorb(m, r) = [m EXCEPT ![n] = [last EXCEPT !.end = e]]
    BY <1>1, <1>2, <1>3, <2>1, <2>2 DEF DryAbsorb
  <2>4. Absorb(m, r) = [m EXCEPT ![n] = [last EXCEPT !.end = e]]
    BY <1>1, <1>2, <1>3, <1>5, <2>1 DEF Absorb
  <2> QED
    BY <2>3, <2>4, Zenon
<1>6. CASE ~ (r.start <= last.end)
  <2>1. r.start > last.end
    BY <1>4, <1>6
  <2> QED
    BY <1>3, <1>6, <2>1, Zenon DEF DryAbsorb, Absorb
<1> QED
  BY <1>5, <1>6

IsDryMergeOf(g, inOrder) ==
  g = [k \in DOMAIN inOrder |->
         IF k = 1 THEN <<inOrder[1]>> ELSE DryAbsorb(g[k - 1], inOrder[k])]

\* The copies merge alike.
LEMMA MergesAgree ==
  ASSUME NEW list \in Seq(Span)
  PROVE  DryMerge(list) = merge_ranges(list)
<1>1. CASE list = <<>>
  BY <1>1 DEF DryMerge, merge_ranges
<1>2. CASE list # <<>>
  <2>1. PICK inOrder : inOrder = sort_by_start(list)
    OBVIOUS
  <2>2. /\ inOrder \in Seq(Span) /\ DOMAIN inOrder = DOMAIN list
        /\ \A k, l \in DOMAIN inOrder : k <= l => inOrder[k].start <= inOrder[l].start
    BY <2>1, SortByStart
  <2>3. PICK n \in Nat : n = Len(list) /\ n # 0 /\ DOMAIN inOrder = 1 .. n
    BY <1>2, <2>2
  <2>4. PICK g : IsMergeOf(g, inOrder) /\ merge_ranges(list) = g[n]
    <3>1. IsMergeOf(CHOOSE f : IsMergeOf(f, inOrder), inOrder)
      BY <2>2, MergeExists, Zenon
    <3>2. merge_ranges(list) = (CHOOSE f : IsMergeOf(f, inOrder))[n]
      <4>1. (CHOOSE f : IsMergeOf(f, inOrder))
              = CHOOSE f : f = [k \in DOMAIN list |->
                                  IF k = 1 THEN <<inOrder[1]>>
                                  ELSE Absorb(f[k - 1], inOrder[k])]
        BY <2>2, Zenon DEF IsMergeOf
      <4> QED
        BY <1>2, <2>1, <2>3, <4>1, Zenon DEF merge_ranges
    <3> QED
      BY <3>1, <3>2
  <2>5. \A k \in 1 .. n : g[k] \in Merged
    BY <2>2, <2>3, <2>4, MergeSoFar
  <2>6. \A k \in 1 .. n :
          g[k] = IF k = 1 THEN <<inOrder[1]>> ELSE Absorb(g[k - 1], inOrder[k])
    BY <2>3, <2>4 DEF IsMergeOf
  <2>7. ASSUME NEW k \in 1 .. n, k # 1
        PROVE  DryAbsorb(g[k - 1], inOrder[k]) = g[k]
    <3>1. k - 1 \in 1 .. n /\ inOrder[k] \in Span
      BY <2>2, <2>3, <2>7
    <3>2. g[k - 1] \in Merged
      BY <2>5, <3>1
    <3> QED
      BY <2>6, <2>7, <3>1, <3>2, AbsorbsAgree
  <2>8. IsDryMergeOf(g, inOrder)
    <3>1. \A k \in 1 .. n :
            g[k] = IF k = 1 THEN <<inOrder[1]>> ELSE DryAbsorb(g[k - 1], inOrder[k])
      BY <2>6, <2>7
    <3>2. g = [k \in 1 .. n |-> g[k]]
      BY <2>3, <2>4 DEF IsMergeOf
    <3> QED
      BY <2>3, <3>1, <3>2 DEF IsDryMergeOf
  <2>9. PICK h : IsDryMergeOf(h, inOrder) /\ DryMerge(list) = h[n]
    <3>1. IsDryMergeOf(CHOOSE f : IsDryMergeOf(f, inOrder), inOrder)
      BY <2>8, Zenon
    <3>2. DryMerge(list) = (CHOOSE f : IsDryMergeOf(f, inOrder))[n]
      <4>1. (CHOOSE f : IsDryMergeOf(f, inOrder))
              = CHOOSE f : f = [k \in DOMAIN list |->
                                  IF k = 1 THEN <<inOrder[1]>>
                                  ELSE DryAbsorb(f[k - 1], inOrder[k])]
        BY <2>2, Zenon DEF IsDryMergeOf
      <4> QED
        BY <1>2, <2>1, <2>3, <4>1, Zenon DEF DryMerge
    <3> QED
      BY <3>1, <3>2
  <2>10. \A k \in 1 .. n :
           h[k] = IF k = 1 THEN <<inOrder[1]>> ELSE DryAbsorb(h[k - 1], inOrder[k])
    BY <2>3, <2>9 DEF IsDryMergeOf
  <2>11. PICK T : T = {k \in 1 .. n : h[k] = g[k]}
    OBVIOUS
  <2>12. 1 \in T
    <3>1. 1 \in 1 .. n
      BY <2>3
    <3> QED
      BY <2>6, <2>10, <2>11, <3>1
  <2>13. ASSUME NEW k \in 1 .. n - 1, k \in T PROVE k + 1 \in T
    <3>1. k + 1 \in 1 .. n /\ k + 1 # 1 /\ (k + 1) - 1 = k
      BY <2>3
    <3>2. h[k + 1] = DryAbsorb(h[k], inOrder[k + 1])
      BY <2>10, <3>1
    <3>3. g[k + 1] = DryAbsorb(g[k], inOrder[k + 1])
      BY <2>7, <3>1
    <3> QED
      BY <2>11, <2>13, <3>1, <3>2, <3>3
  <2>14. n \in T
    <3>1. 1 .. n \subseteq T
      BY <2>12, <2>13, InductionUpTo
    <3>2. n \in 1 .. n
      BY <2>3
    <3> QED
      BY <3>1, <3>2
  <2> QED
    BY <2>4, <2>9, <2>11, <2>14
<1> QED
  BY <1>1, <1>2


-----------------------------------------------------------------------------
(* Effects: what a list of commands does, byte by byte. *)

Command == {"EXIT_XIP", "FLASH_ERASE", "WRITE", "EXEC"}

Event == Command \X Nat

Effective(C) == \A c \in C : Bytes(c) \in Seq(Event)

ByteLists(commands) == [k \in DOMAIN commands |-> Bytes(commands[k])]

\* The lists that are flattened.
LEMMA ByteListsType ==
  ASSUME NEW C, Effective(C), NEW x \in Seq(C)
  PROVE  /\ ByteLists(x) \in Seq(Seq(Event)) /\ Len(ByteLists(x)) = Len(x)
         /\ DOMAIN ByteLists(x) = DOMAIN x
         /\ \A k \in DOMAIN x : ByteLists(x)[k] = Bytes(x[k])
         /\ Effect(x) = FlattenSeq(ByteLists(x))
         /\ Effect(x) \in Seq(Event)
<1>1. PICK n \in Nat : n = Len(x) /\ DOMAIN x = 1 .. n
  OBVIOUS
<1>2. PICK T : T = Seq(Event)
  OBVIOUS
<1>3. \A k \in 1 .. n : x[k] \in C
  BY <1>1
<1>4. \A k \in 1 .. n : Bytes(x[k]) \in T
  BY <1>2, <1>3, Zenon DEF Effective
<1>5. ByteLists(x) \in [1 .. n -> T]
  BY <1>1, <1>4 DEF ByteLists
<1>6. ByteLists(x) \in Seq(T) /\ Len(ByteLists(x)) = n
  BY ONLY <1>1, <1>5
<1>7. ByteLists(x) \in Seq(Seq(Event))
  BY <1>2, <1>6, Zenon
<1>8. Effect(x) = FlattenSeq(ByteLists(x))
  BY DEF Effect, ByteLists
<1>9. FlattenSeq(ByteLists(x)) \in Seq(Event)
  BY <1>7, FlattenPlaces
<1> QED
  BY <1>1, <1>6, <1>7, <1>8, <1>9 DEF ByteLists

\* One list of commands after another has one effect after the other.
LEMMA EffectJoins ==
  ASSUME NEW C, Effective(C), NEW x \in Seq(C), NEW y \in Seq(C)
  PROVE  Effect(x \o y) = Effect(x) \o Effect(y)
<1>1. PICK m \in Nat, n \in Nat :
        m = Len(x) /\ DOMAIN x = 1 .. m /\ n = Len(y) /\ DOMAIN y = 1 .. n
  OBVIOUS
<1>2. PICK xy : xy = x \o y
  OBVIOUS
<1>3. /\ xy \in Seq(C) /\ Len(xy) = m + n /\ DOMAIN xy = 1 .. m + n
      /\ \A k \in 1 .. m : xy[k] = x[k]
      /\ \A k \in 1 .. n : xy[m + k] = y[k]
  BY ONLY <1>1, <1>2
<1>4. PICK p, q, r : p = ByteLists(x) /\ q = ByteLists(y) /\ r = ByteLists(xy)
  OBVIOUS
<1>5. /\ p \in Seq(Seq(Event)) /\ q \in Seq(Seq(Event)) /\ r \in Seq(Seq(Event))
      /\ Len(p) = m /\ Len(q) = n /\ Len(r) = m + n
      /\ \A k \in 1 .. m : p[k] = Bytes(x[k])
      /\ \A k \in 1 .. n : q[k] = Bytes(y[k])
      /\ \A k \in 1 .. m + n : r[k] = Bytes(xy[k])
      /\ Effect(x) = FlattenSeq(p) /\ Effect(y) = FlattenSeq(q)
      /\ Effect(xy) = FlattenSeq(r)
  BY <1>1, <1>3, <1>4, ByteListsType
<1>6. r = p \o q
  <2>1. PICK T : T = Seq(Event)
    OBVIOUS
  <2>2. p \in Seq(T) /\ q \in Seq(T) /\ r \in Seq(T)
    BY <1>5, <2>1
  <2>3. \A k \in 1 .. m : k \in 1 .. m + n /\ r[k] = p[k]
    BY <1>3, <1>5
  <2>4. \A k \in 1 .. n : m + k \in 1 .. m + n /\ r[m + k] = q[k]
    BY <1>3, <1>5
  <2>5. /\ Len(p) = m /\ Len(q) = n /\ Len(r) = m + n
    BY <1>5
  <2>6. PICK pq : pq = p \o q
    OBVIOUS
  <2>7. /\ pq \in [1 .. m + n -> T] /\ r \in [1 .. m + n -> T]
        /\ \A k \in 1 .. m : pq[k] = p[k]
        /\ \A k \in 1 .. n : pq[m + k] = q[k]
    <3>1. m \in Nat /\ n \in Nat
      OBVIOUS
    <3>2. /\ pq \in Seq(T) /\ Len(pq) = m + n
          /\ \A k \in DOMAIN p : pq[k] = p[k]
          /\ \A k \in DOMAIN q : pq[Len(p) + k] = q[k]
      <4>1. /\ p \o q \in Seq(T) /\ Len(p \o q) = Len(p) + Len(q)
            /\ \A k \in DOMAIN p : (p \o q)[k] = p[k]
            /\ \A k \in DOMAIN q : (p \o q)[Len(p) + k] = q[k]
        BY ONLY <2>2, OneAfterTheOther
      <4> QED
        BY <2>5, <2>6, <4>1, Zenon
    <3>3. DOMAIN p = 1 .. m /\ DOMAIN q = 1 .. n
      BY ONLY <2>2, <2>5
    <3>4. pq \in [1 .. m + n -> T]
      BY ONLY <3>1, <3>2
    <3>5. r \in [1 .. m + n -> T]
      BY ONLY <2>2, <2>5
    <3> QED
      BY <2>5, <3>2, <3>3, <3>4, <3>5
  <2>8. ASSUME NEW k \in 1 .. m + n PROVE pq[k] = r[k]
    <3>1. CASE k \in 1 .. m
      BY <2>3, <2>7, <3>1
    <3>2. CASE k \notin 1 .. m
      <4>1. k - m \in 1 .. n /\ m + (k - m) = k
        BY <3>2
      <4> QED
        BY <2>4, <2>7, <4>1
    <3> QED
      BY <3>1, <3>2
  <2> QED
    BY ONLY <2>6, <2>7, <2>8
<1>7. FlattenSeq(p \o q) = FlattenSeq(p) \o FlattenSeq(q)
  BY <1>5, FlattenJoins
<1> QED
  BY <1>2, <1>5, <1>6, <1>7, Zenon

\* Commands that do the same one by one do the same together.
LEMMA SameEffect ==
  ASSUME NEW x, NEW y, DOMAIN x = DOMAIN y,
         \A k \in DOMAIN x : Bytes(x[k]) = Bytes(y[k])
  PROVE  Effect(x) = Effect(y)
<1>1. ByteLists(x) = ByteLists(y)
  BY DEF ByteLists
<1> QED
  BY <1>1 DEF Effect, ByteLists

\* Nothing has no effect.
LEMMA NoEffect == Effect(<<>>) = <<>>
<1>1. [k \in DOMAIN <<>> |-> Bytes(<<>>[k])] = <<>>
  OBVIOUS
<1>2. FlattenSeq(<<>>) = <<>>
  BY DEF FlattenSeq
<1> QED
  BY <1>1, <1>2 DEF Effect

\* Where each list of commands does what one command does, the commands do what
\* all the lists do.
LEMMA EffectOfLists ==
  ASSUME NEW C, Effective(C), NEW D, Effective(D),
         NEW lists \in Seq(Seq(C)), NEW w \in Seq(D), Len(w) = Len(lists),
         \A k \in DOMAIN w : Effect(lists[k]) = Bytes(w[k])
  PROVE  Effect(FlattenSeq(lists)) = Effect(w)
<1>1. PICK n \in Nat : n = Len(w) /\ DOMAIN w = 1 .. n /\ n = Len(lists)
                       /\ DOMAIN lists = 1 .. n
  OBVIOUS
<1>2. \A k \in 1 .. n : lists[k] \in Seq(C)
  BY <1>1
<1>3. PICK h : Grows(h, lists) /\ FlattenSeq(lists) = h[n]
  BY <1>1, FlattenGrows
<1>4. PICK p : p = ByteLists(w)
  OBVIOUS
<1>5. /\ p \in Seq(Seq(Event)) /\ Len(p) = n
      /\ \A k \in 1 .. n : p[k] = Bytes(w[k])
      /\ Effect(w) = FlattenSeq(p)
  BY <1>1, <1>4, ByteListsType
<1>6. PICK e : Grows(e, p) /\ FlattenSeq(p) = e[n]
  BY <1>5, FlattenGrows
<1>7. PICK T : T = {k \in 0 .. n : h[k] \in Seq(C) /\ Effect(h[k]) = e[k]}
  OBVIOUS
<1>8. 0 \in T
  <2>1. h[0] = <<>> /\ e[0] = <<>> /\ 0 \in 0 .. n
    BY <1>3, <1>6 DEF Grows
  <2>2. <<>> \in Seq(C)
    OBVIOUS
  <2> QED
    BY <1>7, <2>1, <2>2, NoEffect, Zenon
<1>9. ASSUME NEW k \in 0 .. n - 1, k \in T PROVE k + 1 \in T
  <2>1. k + 1 \in 1 .. n /\ k + 1 \in 0 .. n /\ (k + 1) - 1 = k
    BY <1>1
  <2>2. h[k + 1] = h[k] \o lists[k + 1]
    BY <1>1, <1>3, <2>1 DEF Grows
  <2>3. e[k + 1] = e[k] \o p[k + 1]
    BY <1>5, <1>6, <2>1 DEF Grows
  <2>4. PICK x, y : x = h[k] /\ y = lists[k + 1]
    OBVIOUS
  <2>5. x \in Seq(C) /\ y \in Seq(C)
    BY <1>2, <1>7, <1>9, <2>1, <2>4, Zenon
  <2>6. Effect(x \o y) = Effect(x) \o Effect(y)
    BY ONLY <2>5, Effective(C), EffectJoins
  <2>7. Effect(x) = e[k] /\ Effect(y) = p[k + 1]
    BY <1>1, <1>5, <1>7, <1>9, <2>1, <2>4, Zenon
  <2>8. x \o y \in Seq(C)
    BY ONLY <2>5
  <2>9. h[k + 1] \in Seq(C) /\ Effect(h[k + 1]) = e[k + 1]
    BY <2>2, <2>3, <2>4, <2>6, <2>7, <2>8, Zenon
  <2> QED
    BY <1>7, <2>1, <2>9, Zenon
<1>10. n \in T
  <2>1. 0 \in Int /\ n \in Int /\ n \in 0 .. n
    OBVIOUS
  <2>2. 0 .. n \subseteq T
    BY <1>8, <1>9, <2>1, InductionUpTo, Zenon
  <2> QED
    BY <2>1, <2>2
<1> QED
  BY <1>3, <1>5, <1>6, <1>7, <1>10, Zenon


\* The bytes of a write, from the address on.
Written(addr, size) == [j \in 1 .. size |-> <<"WRITE", Plus(addr, j - 1)>>]

\* Two writes, the second where the first ends, are one.
LEMMA WrittenOn ==
  ASSUME NEW addr \in Nat, NEW m \in Nat, NEW n \in Nat
  PROVE  Written(addr, m) \o Written(Plus(addr, m), n) = Written(addr, m + n)
<1>1. PICK x, y, z : /\ x = Written(addr, m)
                     /\ y = Written(Plus(addr, m), n)
                     /\ z = Written(addr, m + n)
  OBVIOUS
<1>2. PICK E : \A a \in Nat : <<"WRITE", a>> \in E
  <2>1. \A a \in Nat : <<"WRITE", a>> \in {"WRITE"} \X Nat
    OBVIOUS
  <2> QED
    BY <2>1
<1>3. \A a \in Nat, j \in Nat : Plus(a, j) \in Nat /\ <<"WRITE", Plus(a, j)>> \in E
  <2> SUFFICES ASSUME NEW a \in Nat, NEW j \in Nat PROVE Plus(a, j) \in Nat
    BY <1>2
  <2>1. (a + j) % Word \in 0 .. Word - 1 /\ Word \in Nat
    BY MapNumbers, Remainder
  <2> QED
    BY <2>1 DEF Plus
<1>4. /\ x \in [1 .. m -> E] /\ y \in [1 .. n -> E] /\ z \in [1 .. m + n -> E]
  <2>1. ASSUME NEW a \in Nat, NEW u \in Nat PROVE Written(a, u) \in [1 .. u -> E]
    <3>1. \A j \in 1 .. u : j - 1 \in Nat
      OBVIOUS
    <3>2. \A j \in 1 .. u : <<"WRITE", Plus(a, j - 1)>> \in E
      BY <1>3, <3>1, Zenon
    <3> QED
      BY ONLY <3>2 DEF Written
  <2>2. Plus(addr, m) \in Nat /\ m + n \in Nat
    <3>1. Plus(addr, m) \in Nat
      BY <1>3, Zenon
    <3> QED
      BY <3>1
  <2> QED
    BY <1>1, <2>1, <2>2, Zenon
<1>5. ASSUME NEW j \in 1 .. n PROVE z[m + j] = y[j]
  <2>1. PICK c \in Nat : j - 1 = c /\ (m + j) - 1 = m + c /\ m + j \in 1 .. m + n
    OBVIOUS
  <2>2. Plus(Plus(addr, m), c) = Plus(addr, m + c)
    <3>1. Word \in Nat \ {0} /\ addr + m \in Nat
      BY MapNumbers
    <3>2. (((addr + m) % Word) + c) % Word = ((addr + m) + c) % Word
      BY <3>1, RemainderOfSum
    <3>3. (addr + m) + c = addr + (m + c)
      OBVIOUS
    <3> QED
      BY <3>2, <3>3 DEF Plus
  <2> QED
    BY <1>1, <2>1, <2>2 DEF Written
<1>6. ASSUME NEW j \in 1 .. m PROVE z[j] = x[j]
  <2>1. j \in 1 .. m + n
    OBVIOUS
  <2> QED
    BY <1>1, <2>1 DEF Written
<1>7. PICK xy : xy = x \o y
  OBVIOUS
<1>8. x \in Seq(E) /\ y \in Seq(E) /\ Len(x) = m /\ Len(y) = n
  BY ONLY <1>4, m \in Nat, n \in Nat
<1>9. /\ xy \in [1 .. m + n -> E]
      /\ \A j \in 1 .. m : xy[j] = x[j]
      /\ \A j \in 1 .. n : xy[m + j] = y[j]
  <2>1. /\ x \o y \in Seq(E) /\ Len(x \o y) = Len(x) + Len(y)
        /\ \A j \in DOMAIN x : (x \o y)[j] = x[j]
        /\ \A j \in DOMAIN y : (x \o y)[Len(x) + j] = y[j]
    <3>1. x \in Seq(E) /\ y \in Seq(E)
      BY <1>8
    <3> QED
      BY ONLY <3>1, OneAfterTheOther
  <2>2. DOMAIN x = 1 .. m /\ DOMAIN y = 1 .. n
    BY <1>4
  <2>3. xy \in Seq(E) /\ Len(xy) = m + n
    BY <1>7, <1>8, <2>1, Zenon
  <2>4. xy \in [1 .. m + n -> E]
    BY ONLY <2>3
  <2> QED
    BY <1>7, <1>8, <2>1, <2>2, <2>4, Zenon
<1>10. ASSUME NEW j \in 1 .. m + n PROVE xy[j] = z[j]
  <2>1. CASE j \in 1 .. m
    BY <1>6, <1>9, <2>1
  <2>2. CASE j \notin 1 .. m
    <3>1. j - m \in 1 .. n /\ m + (j - m) = j
      BY <2>2
    <3> QED
      BY <1>5, <1>9, <3>1
  <2> QED
    BY <2>1, <2>2
<1>11. xy = z
  BY ONLY <1>4, <1>9, <1>10
<1> QED
  BY <1>1, <1>7, <1>11


DryLine == [id: Command, addr: Nat, size: Nat]

\* What a command does depends on three of its fields.
LEMMA BytesOfLine ==
  ASSUME NEW c
  PROVE  Bytes(c) = Bytes(Line(c.id, c.addr, c.size))
  BY DEF Bytes, Line

\* A command with bytes does its bytes.
LEMMA BytesType ==
  ASSUME NEW id \in Command, NEW addr \in Nat, NEW size \in Nat
  PROVE  Bytes(Line(id, addr, size)) \in Seq(Event)
<1>1. PICK E : E = Event
  OBVIOUS
<1>2. PICK c : c = Line(id, addr, size)
  OBVIOUS
<1>3. c.id = id /\ c.addr = addr /\ c.size = size
  BY <1>2 DEF Line
<1>4. \A a \in Nat : <<id, a>> \in E
  BY <1>1 DEF Event
<1>5. \A j \in 1 .. size : Plus(addr, j - 1) \in Nat
  <2> SUFFICES ASSUME NEW j \in 1 .. size PROVE Plus(addr, j - 1) \in Nat
    OBVIOUS
  <2>1. addr + (j - 1) \in Nat /\ Word \in Nat \ {0}
    BY MapNumbers
  <2>2. (addr + (j - 1)) % Word \in 0 .. Word - 1
    BY <2>1, Remainder
  <2> QED
    BY <2>1, <2>2 DEF Plus
<1>6. CASE size = 0
  <2>1. Bytes(c) = << <<id, addr>> >>
    BY <1>3, <1>6 DEF Bytes
  <2>2. <<id, addr>> \in E
    BY <1>4
  <2>3. << <<id, addr>> >> \in Seq(E)
    BY ONLY <2>2
  <2> QED
    BY <1>1, <1>2, <2>1, <2>3, Zenon
<1>7. CASE size # 0
  <2>1. Bytes(c) = [j \in 1 .. size |-> <<id, Plus(addr, j - 1)>>]
    BY <1>3, <1>7 DEF Bytes
  <2>2. \A j \in 1 .. size : <<id, Plus(addr, j - 1)>> \in E
    BY <1>4, <1>5, Zenon
  <2>3. PICK f : f = [j \in 1 .. size |-> <<id, Plus(addr, j - 1)>>]
    OBVIOUS
  <2>4. f \in [1 .. size -> E]
    BY <2>2, <2>3
  <2>5. f \in Seq(E)
    BY ONLY <2>4, size \in Nat
  <2> QED
    BY <1>1, <1>2, <2>1, <2>3, <2>5, Zenon
<1> QED
  BY <1>6, <1>7

\* The lines of the dry run, and the commands of the load, have effects.
LEMMA CommandsAreEffective == Effective(ScriptCommand) /\ Effective(DryLine)
<1>1. ASSUME NEW c \in ScriptCommand PROVE Bytes(c) \in Seq(Event)
  <2>1. c.id \in Command /\ c.addr \in Nat /\ c.size \in Nat
    BY DEF ScriptCommand, Command
  <2> QED
    BY <2>1, BytesOfLine, BytesType
<1>2. ASSUME NEW c \in DryLine PROVE Bytes(c) \in Seq(Event)
  <2>1. c.id \in Command /\ c.addr \in Nat /\ c.size \in Nat
    BY DEF DryLine
  <2> QED
    BY <2>1, BytesOfLine, BytesType
<1> QED
  BY <1>1, <1>2 DEF Effective

\* The writes of a RAM segment do what the one line for it announces.
LEMMA ChunksEffect ==
  ASSUME NEW segment, segment.addr \in Address, segment.data \in Seq(Byte),
         segment.data # <<>>
  PROVE  Effect(Chunks(segment))
           = Bytes(Line("WRITE", segment.addr, Len(segment.data)))
<1>1. PICK chunks, addr, size, q :
        /\ chunks = Chunks(segment) /\ addr = segment.addr
        /\ size = Len(segment.data) /\ q = ChunkSize
  OBVIOUS
<1>2. addr \in Nat /\ size \in Nat \ {0} /\ q \in Nat \ {0}
  <2>1. Address \subseteq Nat
    BY MapNumbers DEF Address
  <2>2. Len(segment.data) \in Nat \ {0}
    OBVIOUS
  <2> QED
    BY <1>1, <2>1, <2>2, ChunkIsPositive
<1>3. PICK n \in Nat : n = Len(chunks) /\ DOMAIN chunks = 1 .. n
  <2>1. chunks \in Seq(ScriptCommand)
    BY <1>1, ChunkFacts
  <2> QED
    BY ONLY <2>1
<1>4. /\ chunks \in Seq(ScriptCommand)
      /\ \A c \in 1 .. n :
           /\ (c - 1) * q \in Nat
           /\ c * q = (c - 1) * q + q
           /\ chunks[c].id = "WRITE"
           /\ chunks[c].addr = Plus(addr, (c - 1) * q)
           /\ chunks[c].size \in Nat \ {0}
           /\ (c - 1) * q + chunks[c].size <= size
           /\ c + 1 \in 1 .. n => chunks[c].size = q
      /\ \A j \in 1 .. size : \E c \in 1 .. n :
           j <= (c - 1) * q + chunks[c].size
  BY <1>1, <1>3, ChunkFacts
<1>5. PICK upto : upto = [c \in 0 .. n |-> IF c = 0 THEN 0
                                           ELSE (c - 1) * q + chunks[c].size]
  OBVIOUS
<1>6. /\ upto[0] = 0
      /\ \A c \in 1 .. n : upto[c] = (c - 1) * q + chunks[c].size
      /\ \A c \in 0 .. n : upto[c] \in Nat
  <2>1. \A c \in 1 .. n : c \in 0 .. n /\ c # 0
    OBVIOUS
  <2>2. \A c \in 1 .. n : upto[c] = (c - 1) * q + chunks[c].size
    BY <1>5, <2>1, Zenon
  <2>3. ASSUME NEW c \in 1 .. n PROVE upto[c] \in Nat
    <3>1. (c - 1) * q \in Nat /\ chunks[c].size \in Nat \ {0}
      BY <1>4
    <3> QED
      BY <2>2, <3>1
  <2>4. upto[0] = 0
    <3>1. 0 \in 0 .. n
      OBVIOUS
    <3> QED
      BY <1>5, <3>1
  <2>5. \A c \in 0 .. n : c \in 1 .. n \/ c = 0
    OBVIOUS
  <2> QED
    BY <2>2, <2>3, <2>4, <2>5
<1>7. ASSUME NEW c \in 0 .. n - 1 PROVE c * q = upto[c]
  <2>1. CASE c = 0
    BY <1>2, <1>6, <2>1
  <2>2. CASE c # 0
    <3>1. c \in 1 .. n /\ c + 1 \in 1 .. n
      BY <2>2
    <3> QED
      BY <1>4, <1>6, <3>1
  <2> QED
    BY <2>1, <2>2
<1>8. upto[n] = size
  <2>1. PICK c \in 1 .. n : size <= (c - 1) * q + chunks[c].size
    <3>1. size \in 1 .. size
      BY <1>2
    <3> QED
      BY <1>4, <3>1
  <2>2. size = upto[c]
    BY <1>2, <1>4, <1>6, <2>1
  <2>3. CASE c = n
    BY <2>2, <2>3
  <2>4. CASE c # n
    <3>1. c \in 0 .. n - 1 /\ c + 1 \in 1 .. n /\ (c + 1) - 1 = c
      BY <2>4
    <3>2. c * q = size
      BY <1>7, <2>2, <3>1
    <3>3. c * q + chunks[c + 1].size <= size /\ chunks[c + 1].size \in Nat \ {0}
      BY <1>4, <3>1
    <3> QED
      BY <1>2, <3>2, <3>3
  <2> QED
    BY <2>3, <2>4
<1>9. ASSUME NEW c \in 0 .. n - 1
      PROVE  /\ Bytes(chunks[c + 1]) = Written(Plus(addr, upto[c]), chunks[c + 1].size)
             /\ upto[c + 1] = upto[c] + chunks[c + 1].size
             /\ chunks[c + 1].size \in Nat
  <2>1. c + 1 \in 1 .. n /\ (c + 1) - 1 = c
    BY <1>3
  <2>2. chunks[c + 1].size # 0 /\ chunks[c + 1].id = "WRITE"
        /\ chunks[c + 1].addr = Plus(addr, c * q)
        /\ chunks[c + 1].size \in Nat
    BY <1>4, <2>1
  <2>3. c * q = upto[c]
    BY <1>7
  <2>4. upto[c + 1] = c * q + chunks[c + 1].size
    BY <1>6, <2>1
  <2> QED
    BY <2>2, <2>3, <2>4 DEF Bytes, Written
<1>10. PICK p : p = ByteLists(chunks)
  OBVIOUS
<1>11. /\ p \in Seq(Seq(Event)) /\ Len(p) = n
       /\ \A k \in 1 .. n : p[k] = Bytes(chunks[k])
       /\ Effect(chunks) = FlattenSeq(p)
  <2>1. Effective(ScriptCommand) /\ chunks \in Seq(ScriptCommand)
    BY <1>4, CommandsAreEffective
  <2> QED
    BY <1>3, <1>10, <2>1, ByteListsType
<1>12. PICK e : Grows(e, p) /\ FlattenSeq(p) = e[n]
  BY <1>11, FlattenGrows
<1>13. PICK T : T = {k \in 0 .. n : e[k] = Written(addr, upto[k])}
  OBVIOUS
<1>14. 0 \in T
  <2>1. Written(addr, 0) = <<>>
    BY DEF Written
  <2>2. e[0] = <<>> /\ 0 \in 0 .. n
    BY <1>12 DEF Grows
  <2> QED
    BY <1>6, <1>13, <2>1, <2>2
<1>15. ASSUME NEW k \in 0 .. n - 1, k \in T PROVE k + 1 \in T
  <2>1. k + 1 \in 1 .. n /\ k + 1 \in 0 .. n /\ (k + 1) - 1 = k /\ k \in 0 .. n
    BY <1>3
  <2>2. e[k + 1] = e[k] \o p[k + 1]
    BY <1>11, <1>12, <2>1 DEF Grows
  <2>3. PICK m \in Nat, s \in Nat : m = upto[k] /\ s = chunks[k + 1].size
    BY <1>6, <1>9, <2>1
  <2>4. e[k] = Written(addr, m) /\ p[k + 1] = Written(Plus(addr, m), s)
        /\ upto[k + 1] = m + s
    BY <1>9, <1>11, <1>13, <1>15, <2>1, <2>3
  <2>5. Written(addr, m) \o Written(Plus(addr, m), s) = Written(addr, m + s)
    BY <1>2, WrittenOn
  <2> QED
    BY <1>13, <2>1, <2>2, <2>4, <2>5
<1>16. n \in T
  <2>1. 0 \in Int /\ n \in Int /\ n \in 0 .. n
    OBVIOUS
  <2>2. 0 .. n \subseteq T
    BY <1>14, <1>15, <2>1, InductionUpTo, Zenon
  <2> QED
    BY <2>1, <2>2
<1>17. Bytes(Line("WRITE", addr, size)) = Written(addr, size)
  BY <1>2 DEF Bytes, Line, Written
<1> QED
  BY <1>1, <1>8, <1>11, <1>12, <1>13, <1>16, <1>17


-----------------------------------------------------------------------------
(***************************************************************************)
(* The lines that are printed for what is planned, and the script: erases, *)
(* RAM writes, page writes.                                                *)
(***************************************************************************)
EraseLines ==
  [k \in DOMAIN MergedRanges |->
     Line("FLASH_ERASE", MergedRanges[k].start,
          MergedRanges[k].end - MergedRanges[k].start)]

RamLines ==
  [k \in DOMAIN ram_segments |->
     Line("WRITE", ram_segments[k].addr, Len(ram_segments[k].data))]

PageLines == [k \in DOMAIN Bases |-> Line("WRITE", Bases[k], PageSize)]

ExitLine == <<Line("EXIT_XIP", 0, 0)>>

\* The erases are announced as they are done.
LEMMA EraseLinesFacts ==
  ASSUME PlanFacts
  PROVE  EraseLines \in Seq(DryLine) /\ Effect(EraseLines) = Effect(Erases)
<1>1. PICK m : m = MergedRanges
  OBVIOUS
<1>2. /\ m \in Seq(Span)
      /\ \A k \in DOMAIN m : /\ m[k].start \in Nat /\ m[k].end \in Nat
                             /\ m[k].start <= m[k].end
      /\ DOMAIN Erases = DOMAIN m
      /\ \A k \in DOMAIN m : Erases[k] = Erase(m[k])
  BY <1>1, EraseFacts
<1>3. PICK n \in Nat : DOMAIN m = 1 .. n
  BY <1>2
<1>4. ASSUME NEW k \in 1 .. n
      PROVE  /\ EraseLines[k] \in DryLine
             /\ EraseLines[k] = Line("FLASH_ERASE", m[k].start, m[k].end - m[k].start)
  <2>1. m[k].start \in Nat /\ m[k].end - m[k].start \in Nat
    BY <1>2, <1>3
  <2>2. EraseLines[k] = Line("FLASH_ERASE", m[k].start, m[k].end - m[k].start)
    BY <1>1, <1>3 DEF EraseLines
  <2>3. "FLASH_ERASE" \in Command
    BY DEF Command
  <2> QED
    BY <2>1, <2>2, <2>3 DEF DryLine, Line
<1>5. EraseLines \in [1 .. n -> DryLine]
  BY <1>1, <1>3, <1>4 DEF EraseLines
<1>6. ASSUME NEW k \in 1 .. n PROVE Bytes(EraseLines[k]) = Bytes(Erases[k])
  <2>1. Erases[k].id = "FLASH_ERASE" /\ Erases[k].addr = m[k].start
        /\ Erases[k].size = m[k].end - m[k].start
    BY <1>2, <1>3 DEF Erase
  <2> QED
    BY <1>4, <2>1, BytesOfLine
<1>7. DOMAIN EraseLines = DOMAIN Erases /\ DOMAIN EraseLines = 1 .. n
  BY <1>2, <1>3, <1>5
<1>8. Effect(EraseLines) = Effect(Erases)
  BY <1>6, <1>7, SameEffect
<1>9. EraseLines \in Seq(DryLine)
  BY <1>5
<1> QED
  BY <1>8, <1>9

\* So are the page writes.
LEMMA PageLinesFacts ==
  ASSUME PlanFacts
  PROVE  PageLines \in Seq(DryLine) /\ Effect(PageLines) = Effect(PageWrites)
<1>1. /\ PageWrites \in Seq(ScriptCommand)
      /\ DOMAIN PageWrites = DOMAIN Bases
      /\ \A j \in DOMAIN Bases : /\ Bases[j] \in DOMAIN flash_pages
                                 /\ PageWrites[j] = PageWrite(Bases[j])
      /\ \A b \in DOMAIN flash_pages :
           /\ b \in Nat
           /\ PageWrite(b).id = "WRITE" /\ PageWrite(b).addr = b
           /\ PageWrite(b).size = PageSize
  BY PageWriteFacts
<1>2. PICK n \in Nat : DOMAIN Bases = 1 .. n
  BY <1>1
<1>3. PICK b : b = Bases
  OBVIOUS
<1>4. ASSUME NEW k \in 1 .. n
      PROVE  /\ PageLines[k] \in DryLine
             /\ Bytes(PageLines[k]) = Bytes(PageWrites[k])
  <2>1. b[k] \in Nat /\ b[k] \in DOMAIN flash_pages /\ PageSize \in Nat
    BY <1>1, <1>2, <1>3, MapNumbers
  <2>2. PageLines[k] = Line("WRITE", b[k], PageSize)
    BY <1>2, <1>3 DEF PageLines
  <2>3. "WRITE" \in Command
    BY DEF Command
  <2>4. PageWrites[k].id = "WRITE" /\ PageWrites[k].addr = b[k]
        /\ PageWrites[k].size = PageSize
    BY <1>1, <1>2, <1>3, <2>1
  <2>5. PageLines[k] \in DryLine
    BY <2>1, <2>2, <2>3 DEF DryLine, Line
  <2> QED
    BY <2>2, <2>4, <2>5, BytesOfLine
<1>5. PageLines \in [1 .. n -> DryLine]
  BY <1>2, <1>4 DEF PageLines
<1>6. DOMAIN PageLines = DOMAIN PageWrites /\ DOMAIN PageLines = 1 .. n
  BY <1>1, <1>2, <1>5
<1>7. Effect(PageLines) = Effect(PageWrites)
  BY <1>4, <1>6, SameEffect
<1>8. PageLines \in Seq(DryLine)
  BY <1>5
<1> QED
  BY <1>7, <1>8

\* And the writes to the RAM, which main() cuts up and the dry run does not.
LEMMA RamLinesFacts ==
  ASSUME PlanFacts
  PROVE  RamLines \in Seq(DryLine) /\ Effect(RamLines) = Effect(RamWrites)
<1>1. PICK n \in Nat : n = Len(ram_segments) /\ DOMAIN ram_segments = 1 .. n
  BY DEF PlanFacts, PlanInv, PlanTypeOK
<1>2. ASSUME NEW k \in 1 .. n
      PROVE  /\ RamLines[k] \in DryLine
             /\ Chunks(ram_segments[k]) \in Seq(ScriptCommand)
             /\ Effect(Chunks(ram_segments[k])) = Bytes(RamLines[k])
  <2>1. PICK ram : ram = ram_segments[k]
    OBVIOUS
  <2>2. ram.addr \in Address /\ ram.addr \in Nat /\ ram.data \in Seq(Byte)
    BY <1>1, <2>1, RamSegmentType DEF PlanFacts
  <2>3. ram.data # <<>>
    <3>1. PICK m \in DOMAIN image.segments : Origin(ram, m)
      BY <1>1, <2>1 DEF PlanFacts, MirrorInv, RamHasOrigin
    <3>2. image.segments[m].filez \in Nat \ {0}
      BY <3>1, ContentType, ImagesAreImages DEF PlanFacts, PlanInv, Origin
    <3>3. 1 \in DOMAIN ram.data
      BY <3>1, <3>2 DEF Origin, content
    <3> QED
      BY <3>3
  <2>4. RamLines[k] = Line("WRITE", ram.addr, Len(ram.data))
    BY <1>1, <2>1 DEF RamLines
  <2>5. "WRITE" \in Command /\ Len(ram.data) \in Nat
    BY <2>2 DEF Command
  <2>6. RamLines[k] \in DryLine
    BY <2>2, <2>4, <2>5 DEF DryLine, Line
  <2>7. Chunks(ram) \in Seq(ScriptCommand)
    BY <2>2, ChunkFacts
  <2>8. Effect(Chunks(ram)) = Bytes(Line("WRITE", ram.addr, Len(ram.data)))
    BY <2>2, <2>3, ChunksEffect
  <2> QED
    BY <2>1, <2>4, <2>6, <2>7, <2>8
<1>3. RamLines \in [1 .. n -> DryLine]
  BY <1>1, <1>2 DEF RamLines
<1>4. PICK lists : lists = ChunkLists
  OBVIOUS
<1>5. /\ lists \in Seq(Seq(ScriptCommand)) /\ Len(lists) = n
      /\ \A k \in 1 .. n : lists[k] = Chunks(ram_segments[k])
      /\ RamWrites = FlattenSeq(lists)
  <2>1. PICK T : T = Seq(ScriptCommand)
    OBVIOUS
  <2>2. lists \in [1 .. n -> T]
    BY <1>1, <1>2, <1>4, <2>1 DEF ChunkLists
  <2>3. lists \in Seq(T) /\ Len(lists) = n
    BY ONLY <2>2, n \in Nat
  <2> QED
    BY <1>1, <1>4, <2>1, <2>3 DEF ChunkLists, RamWrites
<1>6. RamLines \in Seq(DryLine) /\ Len(RamLines) = n /\ DOMAIN RamLines = 1 .. n
  BY ONLY <1>3, n \in Nat
<1>7. \A k \in DOMAIN RamLines : Effect(lists[k]) = Bytes(RamLines[k])
  BY <1>2, <1>5, <1>6
<1>8. Effect(FlattenSeq(lists)) = Effect(RamLines)
  BY <1>5, <1>6, <1>7, CommandsAreEffective, EffectOfLists
<1> QED
  BY <1>5, <1>6, <1>8

\* An image without a page has no sector to erase.
LEMMA NoPagesNoErases ==
  ASSUME PlanFacts, DOMAIN flash_pages = {}
  PROVE  flash_erase_ranges = <<>> /\ Erases = <<>>
<1>1. flash_erase_ranges = <<>>
  <2> SUFFICES ASSUME flash_erase_ranges # <<>> PROVE FALSE
    OBVIOUS
  <2>1. 1 \in DOMAIN flash_erase_ranges
    BY DEF PlanFacts, PlanInv, PlanTypeOK
  <2>2. PICK n \in FlashSeen : TRUE
    BY <2>1 DEF PlanFacts, RangesHaveSegments
  <2>3. PICK a \in Nat, size \in Nat \ {0} :
          a = segment_address(image.segments[n]) /\ size = image.segments[n].filez
    BY <2>2, SeenNumbers DEF PlanFacts, PageInv
  <2>4. Covers(n, a)
    BY <2>3 DEF Covers
  <2> QED
    BY <2>2, <2>3, <2>4 DEF PlanFacts, PageInv, ClaimedIsPaged
<1>2. MergedRanges = <<>>
  BY <1>1 DEF MergedRanges, merge_ranges
<1>3. DOMAIN Erases = {}
  BY <1>2, EraseFacts
<1>4. Erases = <<>>
  BY <1>3, EraseFacts
<1> QED
  BY <1>1, <1>4


\* What is printed for a plan, list by list.
LEMMA LinesOfPlan ==
  ASSUME PlanFacts
  PROVE  DryLines(Planned)
           = ((IF DOMAIN flash_pages = {} THEN <<>> ELSE ExitLine \o EraseLines)
                \o RamLines) \o PageLines
<1>1. DryMerge(flash_erase_ranges) = MergedRanges
  <2>1. flash_erase_ranges \in Seq(Span)
    BY EraseRangesAreSpans DEF PlanFacts, PageInv
  <2> QED
    BY <2>1, MergesAgree DEF MergedRanges
<1>2. PICK found : found = Planned
  OBVIOUS
<1>3. /\ found.pages = DOMAIN flash_pages
      /\ found.ranges = flash_erase_ranges
      /\ found.ram = Summary(ram_segments)
  BY <1>2 DEF Planned
<1>4. [k \in DOMAIN found.ram |->
         Line("WRITE", found.ram[k].addr, found.ram[k].size)] = RamLines
  <2>1. DOMAIN found.ram = DOMAIN ram_segments
    BY <1>3 DEF Summary
  <2>2. \A k \in DOMAIN ram_segments :
          /\ found.ram[k].addr = ram_segments[k].addr
          /\ found.ram[k].size = Len(ram_segments[k].data)
    BY <1>3 DEF Summary
  <2> QED
    BY <2>1, <2>2 DEF RamLines
<1>5. Ascending(found.pages) = Bases
  BY <1>3 DEF Bases
<1>6. DryMerge(found.ranges) = MergedRanges
  BY <1>1, <1>3
<1> QED
  BY <1>2, <1>3, <1>4, <1>5, <1>6, Zenon DEF DryLines, EraseLines, PageLines, ExitLine

\* What is printed has the effect of leaving XIP, if there are pages, and of the
\* script.
LEMMA LinesEffect ==
  ASSUME PlanFacts
  PROVE  /\ DryLines(Planned) \in Seq(DryLine)
         /\ Effect(DryLines(Planned))
              = (IF DOMAIN flash_pages = {} THEN <<>> ELSE Effect(ExitLine))
                  \o Effect(Script)
<1>1. PICK x, e, r, p : x = ExitLine /\ e = EraseLines /\ r = RamLines /\ p = PageLines
  OBVIOUS
<1>2. x \in Seq(DryLine)
  <2>1. Line("EXIT_XIP", 0, 0) \in DryLine
    BY DEF Line, DryLine, Command
  <2> QED
    BY <1>1, <2>1 DEF ExitLine
<1>3. e \in Seq(DryLine) /\ r \in Seq(DryLine) /\ p \in Seq(DryLine)
  BY <1>1, EraseLinesFacts, RamLinesFacts, PageLinesFacts
<1>4. Effective(DryLine) /\ Effective(ScriptCommand)
  BY CommandsAreEffective
<1>5. PICK ex, ee, er, ep :
        /\ ex = Effect(x) /\ ee = Effect(e) /\ er = Effect(r) /\ ep = Effect(p)
  OBVIOUS
<1>6. /\ ex \in Seq(Event) /\ ee \in Seq(Event)
      /\ er \in Seq(Event) /\ ep \in Seq(Event)
  BY <1>2, <1>3, <1>4, <1>5, ByteListsType
<1>7. Effect(Script) = (ee \o er) \o ep
  <2>1. PICK se, sr, sp : se = Erases /\ sr = RamWrites /\ sp = PageWrites
    OBVIOUS
  <2>2. /\ se \in Seq(ScriptCommand) /\ sr \in Seq(ScriptCommand)
        /\ sp \in Seq(ScriptCommand)
    BY <2>1, EraseFacts, RamWriteFacts, PageWriteFacts
  <2>3. se \o sr \in Seq(ScriptCommand)
    BY ONLY <2>2
  <2>4. Effect((se \o sr) \o sp) = Effect(se \o sr) \o Effect(sp)
    BY ONLY <1>4, <2>2, <2>3, EffectJoins
  <2>5. Effect(se \o sr) = Effect(se) \o Effect(sr)
    BY ONLY <1>4, <2>2, EffectJoins
  <2>6. Effect(se) = ee /\ Effect(sr) = er /\ Effect(sp) = ep
    BY <1>1, <1>5, <2>1, EraseLinesFacts, RamLinesFacts, PageLinesFacts
  <2> QED
    BY <2>1, <2>4, <2>5, <2>6, Zenon DEF Script
<1>8. ASSUME NEW f \in Seq(DryLine)
      PROVE  /\ (f \o r) \o p \in Seq(DryLine)
             /\ Effect((f \o r) \o p) = (Effect(f) \o er) \o ep
  <2>1. f \o r \in Seq(DryLine)
    BY ONLY <1>3, f \in Seq(DryLine)
  <2>2. (f \o r) \o p \in Seq(DryLine)
    BY ONLY <1>3, <2>1
  <2>3. Effect((f \o r) \o p) = Effect(f \o r) \o Effect(p)
    BY ONLY <1>3, <1>4, <2>1, EffectJoins
  <2>4. Effect(f \o r) = Effect(f) \o Effect(r)
    BY ONLY <1>3, <1>4, f \in Seq(DryLine), EffectJoins
  <2> QED
    BY <1>5, <2>2, <2>3, <2>4, Zenon
<1>9. CASE DOMAIN flash_pages = {}
  <2>1. DryLines(Planned) = (<<>> \o r) \o p
    BY <1>1, <1>9, LinesOfPlan, Zenon
  <2>2. <<>> \in Seq(DryLine)
    OBVIOUS
  <2>3. /\ DryLines(Planned) \in Seq(DryLine)
        /\ Effect(DryLines(Planned)) = (<<>> \o er) \o ep
    BY <1>8, <2>1, <2>2, NoEffect, Zenon
  <2>4. ee = <<>>
    BY <1>1, <1>5, <1>9, EraseLinesFacts, NoPagesNoErases, NoEffect
  <2>5. (<<>> \o er) \o ep \in Seq(Event)
    BY ONLY <1>6
  <2>6. <<>> \o ((<<>> \o er) \o ep) = (<<>> \o er) \o ep
    BY ONLY <2>5
  <2> QED
    BY <1>7, <1>9, <2>3, <2>4, <2>6, Zenon
<1>10. CASE DOMAIN flash_pages # {}
  <2>1. DryLines(Planned) = ((x \o e) \o r) \o p
    BY <1>1, <1>10, LinesOfPlan, Zenon
  <2>2. x \o e \in Seq(DryLine)
    BY ONLY <1>2, <1>3
  <2>3. Effect(x \o e) = ex \o ee
    <3>1. Effect(x \o e) = Effect(x) \o Effect(e)
      BY ONLY <1>2, <1>3, <1>4, EffectJoins
    <3> QED
      BY <1>5, <3>1
  <2>4. /\ DryLines(Planned) \in Seq(DryLine)
        /\ Effect(DryLines(Planned)) = ((ex \o ee) \o er) \o ep
    BY <1>8, <2>1, <2>2, <2>3, Zenon
  <2>5. (ex \o ee) \o er = ex \o (ee \o er)
    <3>1. ex \in Seq(Event) /\ ee \in Seq(Event) /\ er \in Seq(Event)
      BY <1>6
    <3> QED
      BY ONLY <3>1, JoinAssociates
  <2>6. ee \o er \in Seq(Event)
    BY ONLY <1>6
  <2>7. (ex \o (ee \o er)) \o ep = ex \o ((ee \o er) \o ep)
    BY ONLY <1>6, <2>6, JoinAssociates
  <2> QED
    BY <1>1, <1>5, <1>7, <1>10, <2>4, <2>5, <2>7, Zenon
<1> QED
  BY <1>9, <1>10

\* Where the two maps treat the entry point alike, so do the two programs.
LEMMA EntriesAgree ==
  ASSUME TreatedAlike(image.entry, 4)
  PROVE  /\ DryEntryRefused(image, allow_flash) <=> entry_error
         /\ DryExec(image, allow_flash) = Line("EXEC", exec_addr, 0)
  BY MapsAgree DEF DryEntryRefused, entry_error, entry_in_flash, DryExec, exec_addr

\* After the whole image the dry run has found what is planned.
LEMMA WholeImageFound ==
  ASSUME PlanInv, SeenIsImages, next > Len(image.segments), DryRunAgrees
  PROVE  /\ DryFound(image, allow_flash) = Planned
         /\ DOMAIN image.segments = 1 .. next - 1
<1>1. /\ Len(image.segments) \in Nat /\ next \in Nat \ {0}
      /\ DOMAIN image.segments = 1 .. Len(image.segments)
  BY DEF PlanInv, PlanTypeOK, Image
<1>2. next - 1 = Len(image.segments)
  <2> SUFFICES ASSUME next - 1 # Len(image.segments) PROVE FALSE
    OBVIOUS
  <2>1. next - 1 \in 1 .. next - 1 /\ next - 1 \notin 1 .. Len(image.segments)
    BY <1>1
  <2> QED
    BY <1>1, <2>1 DEF SeenIsImages
<1> QED
  BY <1>1, <1>2, FoundIsPlanned


\* What the property says of one dry run.
Predicts(exec_after) ==
  LET dry == run_dryrun(image, allow_flash, exec_after)
  IN  /\ plan = "rejected" => dry = Refused
      /\ plan = "planned" =>
           /\ dry.code = IF exec_after /\ entry_error THEN 1 ELSE 0
           /\ Effect(dry.lines) = LoadEffect(exec_after)
           /\ dry.mirrored = mirrored_flash_segments
           /\ dry.skipped = skipped_flash_segments

LEMMA RejectedIsRefused ==
  ASSUME PlanFacts, RejectedRightly, DryRunAgrees, plan = "rejected", NEW exec_after
  PROVE  run_dryrun(image, allow_flash, exec_after) = Refused
<1>1. CASE DryThrows(image)
  BY <1>1 DEF run_dryrun
<1>2. CASE next > Len(image.segments) /\ NothingPlanned
  <2>1. DryFound(image, allow_flash) = Planned
    BY <1>2, WholeImageFound DEF PlanFacts, PageInv
  <2>2. ~ allow_flash /\ Planned.pages = {} /\ Planned.ram = <<>>
    BY <1>2 DEF NothingPlanned, Planned, Summary
  <2> QED
    BY <2>1, <2>2, Zenon DEF run_dryrun
<1> QED
  BY <1>1, <1>2 DEF RejectedRightly

LEMMA PlannedIsAnnounced ==
  ASSUME PlanFacts, RejectedRightly, DryRunAgrees, TreatedAlike(image.entry, 4),
         next > Len(image.segments), plan = "planned", NEW exec_after \in BOOLEAN
  PROVE  Predicts(exec_after)
<1>1. PICK found, lines : found = Planned /\ lines = DryLines(Planned)
  OBVIOUS
<1>2. DryFound(image, allow_flash) = found /\ DOMAIN image.segments = 1 .. next - 1
  BY <1>1, WholeImageFound DEF PlanFacts, PageInv
<1>3. ~ DryThrows(image)
  BY <1>2, HelpersAgree DEF DryThrows, RejectedRightly, Throws
<1>4. ~ (~ allow_flash /\ found.pages = {} /\ found.ram = <<>>)
  <2> SUFFICES ASSUME ~ allow_flash, found.pages = {}, found.ram = <<>> PROVE FALSE
    OBVIOUS
  <2>1. DOMAIN ram_segments = {}
    <3>1. DOMAIN found.ram = DOMAIN ram_segments
      BY <1>1 DEF Planned, Summary
    <3> QED
      BY <3>1
  <2>2. ram_segments = <<>>
    BY <2>1 DEF PlanFacts, PlanInv, PlanTypeOK
  <2>3. DOMAIN flash_pages = {}
    BY <1>1 DEF Planned
  <2> QED
    BY <2>2, <2>3 DEF RejectedRightly, NothingPlanned
<1>5. PICK before : before = IF DOMAIN flash_pages = {} THEN <<>> ELSE Effect(ExitLine)
  OBVIOUS
<1>6. lines \in Seq(DryLine) /\ Effect(lines) = before \o Effect(Script)
  BY <1>1, <1>5, LinesEffect, Zenon
<1>7. PICK done :
        done = [code |-> 0, lines |-> lines,
                mirrored |-> found.mirrored, skipped |-> found.skipped]
  OBVIOUS
<1>8. found.mirrored = mirrored_flash_segments /\ found.skipped = skipped_flash_segments
  BY <1>1 DEF Planned
<1>9. PICK last : last = IF exec_after /\ ~ entry_error
                           THEN Effect(<<Line("EXEC", exec_addr, 0)>>) ELSE <<>>
  OBVIOUS
<1>10. LoadEffect(exec_after) = (before \o Effect(Script)) \o last
  BY <1>5, <1>9, Zenon DEF LoadEffect, ExitLine
<1>11. run_dryrun(image, allow_flash, exec_after)
         = IF ~ exec_after THEN done
           ELSE IF DryEntryRefused(image, allow_flash) THEN [done EXCEPT !.code = 1]
           ELSE [done EXCEPT !.lines = Append(@, DryExec(image, allow_flash))]
  BY <1>1, <1>2, <1>3, <1>4, <1>7, Zenon DEF run_dryrun
<1>12. Effect(lines) \in Seq(Event)
  BY <1>6, CommandsAreEffective, ByteListsType
<1>13. Effect(lines) \o <<>> = Effect(lines)
  BY ONLY <1>12
<1>14. CASE ~ exec_after
  <2>1. run_dryrun(image, allow_flash, exec_after) = done /\ last = <<>>
    BY <1>9, <1>11, <1>14, Zenon
  <2>2. Effect(lines) = LoadEffect(exec_after)
    BY <1>6, <1>10, <1>13, <2>1, Zenon
  <2> QED
    BY <1>7, <1>8, <1>14, <2>1, <2>2 DEF Predicts
<1>15. CASE exec_after /\ entry_error
  <2>1. last = <<>>
    BY <1>9, <1>15, Zenon
  <2>2. run_dryrun(image, allow_flash, exec_after) = [done EXCEPT !.code = 1]
    BY <1>11, <1>15, EntriesAgree, Zenon
  <2>3. Effect(lines) = LoadEffect(exec_after)
    BY <1>6, <1>10, <1>13, <2>1, Zenon
  <2> QED
    BY <1>7, <1>8, <1>15, <2>2, <2>3 DEF Predicts
<1>16. CASE exec_after /\ ~ entry_error
  <2>1. PICK line : line = Line("EXEC", exec_addr, 0)
    OBVIOUS
  <2>2. run_dryrun(image, allow_flash, exec_after)
          = [done EXCEPT !.lines = Append(@, line)]
    BY <1>11, <1>16, <2>1, EntriesAgree, Zenon
  <2>3. line \in DryLine
    <3>1. exec_addr \in Nat
      <4>1. image.entry \in Address
        BY DEF PlanFacts, PlanInv, PlanTypeOK, Image
      <4>2. exec_addr \in Address
        BY <4>1, MirrorIsAddress DEF exec_addr
      <4> QED
        BY <4>2, MapNumbers DEF Address
    <3> QED
      BY <2>1, <3>1 DEF Line, DryLine, Command
  <2>4. Effect(lines \o <<line>>) = Effect(lines) \o Effect(<<line>>)
    <3>1. <<line>> \in Seq(DryLine)
      BY <2>3
    <3> QED
      BY <1>6, <3>1, CommandsAreEffective, EffectJoins
  <2>5. Append(lines, line) = lines \o <<line>>
    <3>1. PICK S : lines \in Seq(S) /\ line \in S
      BY <1>6, <2>3, Zenon
    <3> QED
      BY ONLY <3>1
  <2>6. last = Effect(<<line>>)
    BY <1>9, <1>16, <2>1, Zenon
  <2>7. Effect(Append(lines, line)) = LoadEffect(exec_after)
    BY <1>6, <1>10, <2>4, <2>5, <2>6, Zenon
  <2>8. /\ run_dryrun(image, allow_flash, exec_after).code = 0
        /\ run_dryrun(image, allow_flash, exec_after).lines = Append(lines, line)
        /\ run_dryrun(image, allow_flash, exec_after).mirrored = found.mirrored
        /\ run_dryrun(image, allow_flash, exec_after).skipped = found.skipped
    BY <1>7, <2>2
  <2> QED
    BY <1>8, <1>16, <2>7, <2>8 DEF Predicts
<1> QED
  BY <1>14, <1>15, <1>16

LEMMA PlanIsAnnounced ==
  ASSUME PlanFacts, DryInv PROVE DryRunPredictsLoad
<1> SUFFICES ASSUME DryRunApplies, NEW exec_after \in BOOLEAN
             PROVE  Predicts(exec_after)
  BY DEF DryRunPredictsLoad, Predicts
<1>1. RejectedRightly /\ DryRunAgrees /\ TreatedAlike(image.entry, 4)
  BY DEF DryInv, DryRunApplies
<1>2. CASE plan = "planned"
  <2>1. DOMAIN image.segments = 1 .. next - 1
    BY <1>2, <1>1 DEF PlanFacts, WholeImage
  <2>2. /\ DOMAIN image.segments = 1 .. Len(image.segments)
        /\ Len(image.segments) \in Nat /\ next \in Nat \ {0}
    BY DEF PlanFacts, PlanInv, PlanTypeOK, Image
  <2>3. next > Len(image.segments)
    BY <2>1, <2>2, SMT
  <2> QED
    BY <1>1, <1>2, <2>3, PlannedIsAnnounced
<1>3. CASE plan = "rejected"
  BY <1>1, <1>3, RejectedIsRefused DEF Predicts
<1>4. CASE plan # "planned" /\ plan # "rejected"
  BY <1>4 DEF Predicts
<1> QED
  BY <1>2, <1>3, <1>4

(***************************************************************************)
(* dryrun.cpp is a second copy of the planner of main.cpp, and it has not  *)
(* drifted from the first: wherever the address map it takes for granted   *)
(* treats the image as the device's does, --dryrun fails where main()      *)
(* gives up, and otherwise announces the erases, RAM writes, page writes   *)
(* and the start of the load, byte for byte and in the same order.         *)
(***************************************************************************)
THEOREM DryRunIsRight == PlanSpec => []DryRunPredictsLoad
<1>1. PlanInit => PlanFacts /\ DryInv
  BY PlanFactsInit, DryInit
<1>2. PlanFacts /\ DryInv /\ [PlanNext]_planVars => (PlanFacts /\ DryInv)'
  <2> SUFFICES ASSUME PlanFacts, DryInv, [PlanNext]_planVars
               PROVE  PlanFacts' /\ DryInv'
    OBVIOUS
  <2>1. PlanFacts'
    BY PlanFactsNext
  <2>2. PlanInv
    BY DEF PlanFacts
  <2>3. RejectedRightly /\ (DryRunApplies => DryRunAgrees)
    BY DEF DryInv
  <2> QED
    BY <2>1, <2>2, <2>3, AgreementNext, RejectionNext DEF DryInv
<1> QED
  BY <1>1, <1>2, PlanIsAnnounced, PTL DEF PlanSpec

=============================================================================
