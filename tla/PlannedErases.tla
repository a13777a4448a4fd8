---------------------------- MODULE PlannedErases ----------------------------
(***************************************************************************)
(* The planner up to the list of its erases: LoadPlan, and then main()'s   *)
(* call of merge_ranges on the erase ranges it has collected, with the     *)
(* loop of MergeLoop.  main() calls merge_ranges only when there are pages *)
(* to write, so its early return for an empty argument is not reached.     *)
(***************************************************************************)
EXTENDS LoadPlan, MergeLoop

erasesVars == <<planVars, mergeVars>>

ErasesInit ==
  /\ PlanInit
  /\ ranges = <<>>
  /\ sorted = <<>>
  /\ i = 1
  /\ merged = <<>>
  /\ at = "idle"

PlanStep == PlanNext /\ UNCHANGED mergeVars

\* flash_erase_ranges is moved from, and main() does not look at it again
CallMerge ==
  /\ plan = "planned" /\ at = "idle"
  /\ DOMAIN flash_pages # {}
  /\ ranges' = flash_erase_ranges
  /\ at' = "sort"
  /\ UNCHANGED <<planVars, sorted, i, merged>>

MergeStep == (Sort \/ MergeOne \/ MergeEnds) /\ UNCHANGED planVars

ErasesNext == PlanStep \/ CallMerge \/ MergeStep

ErasesSpec == ErasesInit /\ [][ErasesNext]_erasesVars

=============================================================================
