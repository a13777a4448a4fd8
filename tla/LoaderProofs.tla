---------------------------- MODULE LoaderProofs ----------------------------
(***************************************************************************)
(* Theorems about dapico-load with its device, for every memory map, every *)
(* image and any number of faults.                                         *)
(*                                                                         *)
(* The steps of Loader are steps of LoadPlan and of Picoboot, so what is   *)
(* proved of the two carries over.  For PrefixCarriedOut the invariant     *)
(* says how far the device must be for main() to be where it is: a call is *)
(* made only when all earlier ones, EXIT_XIP aside, were carried out, and  *)
(* so one command at most is outstanding even after failures.              *)
(*                                                                         *)
(* The memory comes last, in two steps.  SentInv says which command of the *)
(* script each token is, so what the device carries out is the script in   *)
(* its order.  MemInv says that the memory holds what the commands carried *)
(* out so far leave, read off the script; that no byte is mixed, that what *)
(* the image does not touch survives, and that a load that reports success *)
(* has left the image in the memory all follow from it and from the plan.  *)
(***************************************************************************)
EXTENDS Loader, LoadPlanProofs, PicobootProofs

\* Every step of the loader is a step of the planner or leaves it alone.
LEMMA StepsPlan == [Next]_vars => [PlanNext]_planVars
  BY DEF Next, vars, HostStep, DeviceStep, FindDevice, ResetInterface, Plan,
         PlanEnds, CallExitXip, AfterExitXip, CallNext, AfterNext, ScriptEnds,
         CallExec, AfterExec, QueryStatus, Close, HostTransfer, DeviceExecutes,
         DeviceRejects, DeviceUnplugged

\* Every step of the loader is a step of the link or leaves it alone.
LEMMA StepsLink == [Next]_vars => [LinkNext]_linkVars
<1> SUFFICES ASSUME [Next]_vars PROVE [LinkNext]_linkVars
  OBVIOUS
<1>1. CASE UNCHANGED vars
  BY <1>1 DEF vars
<1>2. CASE FindDevice \/ Plan \/ PlanEnds \/ ScriptEnds \/ QueryStatus \/ Close
  BY <1>2 DEF FindDevice, Plan, PlanEnds, ScriptEnds, QueryStatus, Close
<1>3. CASE CallExitXip \/ CallNext \/ CallExec
  BY <1>3 DEF CallExitXip, CallNext, CallExec, LinkNext
<1>4. CASE AfterExitXip \/ AfterNext \/ AfterExec
  BY <1>4 DEF AfterExitXip, AfterNext, AfterExec, LinkNext
<1>5. CASE ResetInterface
  BY <1>5 DEF ResetInterface, LinkNext
<1>6. CASE HostTransfer
  BY <1>6 DEF HostTransfer, LinkNext
<1>7. CASE DeviceStep
  BY <1>7 DEF DeviceStep, DeviceExecutes, DeviceRejects, DeviceUnplugged, LinkNext
<1> QED
  BY <1>1, <1>2, <1>3, <1>4, <1>5, <1>6, <1>7 DEF Next, HostStep

\* Whatever main() does, what it is told of its commands is what
\* CommandService promises: success means carried out, once and in order.
THEOREM LoaderUsesService == Spec => LinkIsService
<1>1. Init => LinkInit
  BY DEF Init
<1> QED
  BY <1>1, StepsLink, LinkImplementsService, PTL DEF Spec, LinkSpec

\* In every load, the pages that will be written lie in ranges that will be
\* erased first.
THEOREM LoaderErasesItsPages == Spec => []PagesErased
<1>1. Init => PlanInit
  BY DEF Init
<1> QED
  BY <1>1, StepsPlan, PlannedPagesAreErased, PTL DEF Spec, PlanSpec

\* In every load, the pages that will be written hold the image and the padding,
\* and no byte of the image is missing from them.
THEOREM LoaderPlansTheImage == Spec => []PagesHoldImage
<1>1. Init => PlanInit
  BY DEF Init
<1> QED
  BY <1>1, StepsPlan, PlannedPagesHoldTheImage, PTL DEF Spec, PlanSpec

-----------------------------------------------------------------------------
(* PrefixCarriedOut. *)

FirstToken == IF DOMAIN flash_pages = {} THEN 1 ELSE 2

Working == {"load", "exec", "status", "close", "exited"}

\* before the plan is made nothing is sent
NothingSent ==
  pc \in {"find", "reset", "plan"} => stage = "idle" /\ token = 1

\* EXIT_XIP, when there are pages, is the first call
FirstCall ==
  pc = "xip" => /\ DOMAIN flash_pages # {}
                /\ token = IF stage = "idle" THEN 1 ELSE 2

\* the calls before the last one were carried out, the last one too while
\* main() is going on
EarlierDone ==
  pc \in Working =>
    /\ FirstToken .. token - 2 \subseteq executed
    /\ pc \in {"load", "exec"} /\ stage = "idle" =>
         FirstToken .. token - 1 \subseteq executed

\* nothing is sent once main() has given up or is done
NoCallPending == pc \in {"status", "close", "exited"} => stage = "idle"

\* success was reported for a command that was carried out
OkIsTrue == stage = "returned" /\ ret = "ok" => token - 1 \in executed

Places == {"find", "reset", "plan", "xip"} \cup Working

LoaderInv ==
  /\ LinkInv
  /\ pc \in Places
  /\ NothingSent
  /\ FirstCall
  /\ EarlierDone
  /\ NoCallPending
  /\ OkIsTrue
  /\ PrefixCarriedOut

\* The loader starts in the invariant.
LEMMA LoaderInitInv == Init => LoaderInv
<1> SUFFICES ASSUME Init PROVE LoaderInv
  OBVIOUS
<1>1. LinkInv
  BY LinkInitInv DEF Init
<1>2. pc = "find" /\ stage = "idle" /\ token = 1 /\ executed = {}
  BY DEF Init, LinkInit
<1> QED
  BY <1>1, <1>2 DEF LoaderInv, Places, Working, NothingSent, FirstCall,
     EarlierDone, NoCallPending, OkIsTrue, PrefixCarriedOut

\* With nothing sent, nothing has been carried out.
LEMMA NothingCarriedOut ==
  ASSUME LinkInv, token = 1 PROVE executed = {}
  BY SMT DEF LinkInv, LinkTypes, TokensInOrder

\* A step that changes neither the plan, nor pc, nor the counter and the set of
\* executed commands keeps the prefix.
LEMMA PrefixKept ==
  ASSUME PrefixCarriedOut, executed' = executed, flash_pages' = flash_pages
  PROVE  PrefixCarriedOut' /\ FirstToken' = FirstToken
  BY DEF PrefixCarriedOut, FirstToken

\* The steps of main() between two calls.
LEMMA MainStepInv ==
  ASSUME LoaderInv, LinkInv',
         \/ FindDevice \/ ResetInterface \/ Plan \/ PlanEnds
         \/ ScriptEnds \/ QueryStatus \/ Close
  PROVE  LoaderInv'
<1> USE DEF LoaderInv, Places, Working, NothingSent, FirstCall, EarlierDone,
            NoCallPending, OkIsTrue, Goto
<1>1. CASE FindDevice
  <2>1. /\ pc' \in {"exited", "reset"} /\ stage' = "idle" /\ token' = 1
        /\ executed' = executed /\ flash_pages' = flash_pages
    BY <1>1 DEF FindDevice, linkVars, hostVars, deviceVars, planVars, segment_data
  <2>2. FirstToken' .. token' - 2 = {}
    BY <2>1, SMT DEF FirstToken
  <2> QED
    BY <2>1, <2>2, PrefixKept
<1>2. CASE ResetInterface
  <2>1. /\ pc' = "plan" /\ stage' = "idle" /\ token' = 1
        /\ executed' = executed /\ flash_pages' = flash_pages
    BY <1>2 DEF ResetInterface, IfReset, linkVars, hostVars, deviceVars, planVars,
                segment_data
  <2> QED
    BY <2>1, PrefixKept
<1>3. CASE Plan
  <2>1. /\ pc' = "plan" /\ stage' = "idle" /\ token' = 1 /\ executed' = executed
    BY <1>3 DEF Plan, linkVars, hostVars, deviceVars, mainVars
  <2>2. executed' = {}
    BY <2>1, NothingCarriedOut, <1>3 DEF Plan
  <2> QED
    BY <2>1, <2>2 DEF PrefixCarriedOut
<1>4. CASE PlanEnds
  <2>1. /\ pc' \in {"close", "load", "xip"} /\ stage' = "idle" /\ token' = 1
        /\ executed' = executed /\ flash_pages' = flash_pages
        /\ pc' = "xip" => DOMAIN flash_pages' # {}
    BY <1>4 DEF PlanEnds, linkVars, hostVars, deviceVars, planVars, segment_data
  <2>2. FirstToken' .. token' - 2 = {} /\ FirstToken' .. token' - 1 = {}
    BY <2>1, SMT DEF FirstToken
  <2> QED
    BY <2>1, <2>2, PrefixKept
<1>5. CASE ScriptEnds \/ QueryStatus \/ Close
  <2>1. /\ UNCHANGED <<stage, token, ret, executed, flash_pages>>
    BY <1>5 DEF ScriptEnds, QueryStatus, Close, linkVars, hostVars, deviceVars,
                planVars, segment_data
  <2>2. /\ pc \in {"load", "status", "close"} /\ stage = "idle"
        /\ pc' \in {"close", "exec", "exited"}
        /\ pc' = "exec" => pc = "load"
    BY <1>5 DEF ScriptEnds, QueryStatus, Close, Idle
  <2> QED
    BY <2>1, <2>2, PrefixKept
<1> QED
  BY <1>1, <1>2, <1>3, <1>4, <1>5

\* A call is made when everything before it was carried out.
LEMMA CallInv ==
  ASSUME LoaderInv, LinkInv', CallExitXip \/ CallNext \/ CallExec
  PROVE  LoaderInv'
<1> USE DEF LoaderInv, Places, Working
<1>1. /\ stage = "idle" /\ stage' = "command" /\ token' = token + 1
      /\ executed' = executed /\ flash_pages' = flash_pages /\ pc' = pc
      /\ pc \in {"xip", "load", "exec"}
  BY DEF CallExitXip, CallNext, CallExec, Call, deviceVars, planVars,
         segment_data, mainVars
<1>2. token \in Nat /\ token' - 2 = token - 1
  BY <1>1, SMT DEF LinkInv, LinkTypes
<1>3. PrefixCarriedOut' /\ FirstToken' = FirstToken
  BY <1>1, PrefixKept
<1>4. FirstCall'
  BY <1>1 DEF FirstCall
<1>5. EarlierDone'
  BY <1>1, <1>2, <1>3 DEF EarlierDone
<1> QED
  BY <1>1, <1>3, <1>4, <1>5 DEF NothingSent, NoCallPending, OkIsTrue

\* What main() makes of a result: it goes on only if the command was carried out,
\* except for EXIT_XIP, which does not count.
LEMMA ReturnInv ==
  ASSUME LoaderInv, LinkInv', AfterExitXip \/ AfterNext \/ AfterExec
  PROVE  LoaderInv'
<1> USE DEF LoaderInv, Places, Working, Goto
<1>1. /\ stage = "returned" /\ stage' = "idle" /\ token' = token
      /\ executed' = executed /\ flash_pages' = flash_pages
  BY DEF AfterExitXip, AfterNext, AfterExec, Resume, deviceVars, planVars,
         segment_data
<1>2. token \in Nat
  BY DEF LinkInv, LinkTypes
<1>3. PrefixCarriedOut' /\ FirstToken' = FirstToken
  BY <1>1, PrefixKept
<1>4. CASE AfterExitXip
  <2>1. pc = "xip" /\ pc' = "load" /\ token = 2 /\ FirstToken = 2
    BY <1>1, <1>4 DEF AfterExitXip, FirstCall, FirstToken
  <2>2. FirstToken' .. token' - 2 = {} /\ FirstToken' .. token' - 1 = {}
    BY <1>1, <1>3, <2>1, SMT
  <2> QED
    BY <1>1, <1>3, <2>1, <2>2 DEF NothingSent, FirstCall, EarlierDone,
       NoCallPending, OkIsTrue
<1>5. CASE AfterNext \/ AfterExec
  <2>1. /\ pc \in {"load", "exec"} /\ pc' \in {"load", "close", "status"}
        /\ pc' = "load" => ret = "ok"
    BY <1>5 DEF AfterNext, AfterExec
  <2>2. FirstToken .. token - 2 \subseteq executed
    BY <2>1 DEF EarlierDone
  <2>3. ASSUME ret = "ok" PROVE FirstToken .. token - 1 \subseteq executed
    <3>1. token - 1 \in executed
      BY <1>1, <2>3 DEF OkIsTrue
    <3>2. FirstToken \in Int
      BY DEF FirstToken
    <3>3. FirstToken .. token - 1 \subseteq (FirstToken .. token - 2) \cup {token - 1}
      BY <1>2, <3>2, SMT
    <3> QED
      BY <2>2, <3>1, <3>3
  <2> QED
    BY <1>1, <1>3, <2>1, <2>2, <2>3 DEF NothingSent, FirstCall, EarlierDone,
       NoCallPending, OkIsTrue
<1> QED
  BY <1>4, <1>5

\* A transfer does not carry anything out; the last one succeeds only on the
\* acknowledgement of a command that was.
LEMMA TransferStepInv ==
  ASSUME LoaderInv, LinkInv', HostTransfer
  PROVE  LoaderInv'
<1> USE DEF LoaderInv, Places, Working
<1>1. /\ stage \in {"command", "data", "ack"}
      /\ stage' \in {"data", "ack", "returned"}
      /\ token' = token /\ pc' = pc /\ flash_pages' = flash_pages
  BY DEF HostTransfer, TransferSucceeds, TransferFails, TransferBreaks, Transfer,
         Fails, Transferring, planVars, segment_data, mainVars
<1>2. executed' = executed
  BY <1>1, TransferInv DEF HostTransfer, TransferSucceeds, TransferFails,
     TransferBreaks, deviceVars
<1>3. stage' = "returned" /\ ret' = "ok" => token - 1 \in executed
  <2>1. CASE TransferSucceeds
    <3>1. Transfer /\ (stage' = "returned" => stage = "ack")
      BY <1>1, <2>1 DEF TransferSucceeds
    <3> QED
      BY <1>1, <3>1, TransferInv
  <2>2. CASE TransferFails \/ TransferBreaks
    BY <2>2 DEF TransferFails, TransferBreaks, Fails
  <2> QED
    BY <2>1, <2>2 DEF HostTransfer
<1>4. PrefixCarriedOut' /\ FirstToken' = FirstToken
  BY <1>1, <1>2, PrefixKept
<1> QED
  BY <1>1, <1>2, <1>3, <1>4 DEF NothingSent, FirstCall, EarlierDone,
     NoCallPending, OkIsTrue

\* The command the device carries out is the last one sent, EXIT_XIP, or a killed
\* run's, which does not count.
LEMMA ExecuteInv ==
  ASSUME LoaderInv, LinkInv', DeviceExecutes
  PROVE  LoaderInv'
<1> USE DEF LoaderInv, Places, Working
<1>1. /\ dpc = "busy" /\ executed' = executed \cup ({dtoken} \ {0})
      /\ UNCHANGED <<stage, token, ret, pc, flash_pages>>
  BY DEF DeviceExecutes, Execute, hostVars, planVars, segment_data, mainVars
<1>2. /\ dtoken \in Nat /\ dtoken < token /\ token \in Nat
      /\ dtoken \notin executed
  BY <1>1 DEF LinkInv, LinkTypes, TokensInOrder, WorkIsNew
<1>3. FirstToken' = FirstToken /\ FirstToken \in {1, 2}
  BY <1>1 DEF FirstToken
<1>4. FirstToken .. dtoken - 1 \subseteq executed
  <2>1. CASE pc \in {"find", "reset", "plan"}
    <3>1. dtoken = 0
      BY <1>2, <2>1, SMT DEF NothingSent
    <3>2. FirstToken .. dtoken - 1 = {}
      BY <1>3, <3>1, SMT
    <3> QED
      BY <3>2
  <2>2. CASE pc = "xip"
    <3>1. FirstToken = 2 /\ token <= 2
      BY <2>2 DEF FirstCall, FirstToken
    <3>2. FirstToken .. dtoken - 1 = {}
      BY <1>2, <3>1, SMT
    <3> QED
      BY <3>2
  <2>3. CASE pc \in Working
    <3>1. FirstToken .. token - 2 \subseteq executed
      BY <2>3 DEF EarlierDone
    <3>2. FirstToken .. dtoken - 1 \subseteq FirstToken .. token - 2
      BY <1>2, <1>3, SMT
    <3> QED
      BY <3>1, <3>2
  <2> QED
    BY <2>1, <2>2, <2>3
<1>5. PrefixCarriedOut'
  <2>1. SUFFICES ASSUME NEW t \in executed'
                 PROVE  FirstToken .. t \subseteq executed'
    BY <1>1, <1>3 DEF PrefixCarriedOut, FirstToken
  <2>2. CASE t \in {dtoken} \ {0}
    <3>1. FirstToken .. t \subseteq (FirstToken .. dtoken - 1) \cup {dtoken}
      BY <1>2, <1>3, <2>2, SMT
    <3> QED
      BY <1>1, <1>4, <2>2, <3>1
  <2>3. CASE t \in executed
    BY <1>1, <2>3 DEF PrefixCarriedOut, FirstToken
  <2> QED
    BY <1>1, <2>2, <2>3
<1> QED
  BY <1>1, <1>3, <1>5 DEF NothingSent, FirstCall, EarlierDone, NoCallPending, OkIsTrue

\* Every step keeps the invariant.
LEMMA LoaderNextInv == LoaderInv /\ [Next]_vars => LoaderInv'
<1> SUFFICES ASSUME LoaderInv, [Next]_vars PROVE LoaderInv'
  OBVIOUS
<1>1. LinkInv'
  BY StepsLink, LinkNextInv DEF LoaderInv
<1>2. CASE UNCHANGED vars
  BY <1>1, <1>2 DEF vars, planVars, segment_data, linkVars, hostVars, deviceVars,
     mainVars, LoaderInv, NothingSent, FirstCall, FirstToken, EarlierDone,
     NoCallPending, OkIsTrue, PrefixCarriedOut
<1>3. CASE DeviceRejects \/ DeviceUnplugged
  BY <1>1, <1>3 DEF DeviceRejects, DeviceUnplugged, Reject, Unplug, planVars,
     segment_data, hostVars, mainVars, LoaderInv, NothingSent, FirstCall,
     FirstToken, EarlierDone, NoCallPending, OkIsTrue, PrefixCarriedOut
<1> QED
  BY <1>1, <1>2, <1>3, MainStepInv, CallInv, ReturnInv, TransferStepInv, ExecuteInv
  DEF Next, HostStep, DeviceStep

\* What the device has carried out is always a prefix of the plan: no page is
\* written before its erase was done and no program started before the last
\* write, whatever times out, breaks, is rejected or finishes late.
THEOREM LoaderCarriesOutAPrefix == Spec => []PrefixCarriedOut
<1>1. LoaderInv => PrefixCarriedOut
  BY DEF LoaderInv
<1> QED
  BY <1>1, LoaderInitInv, LoaderNextInv, PTL DEF Spec

-----------------------------------------------------------------------------
(* RefusedImagesLeaveNoTrace. *)

Bad(i) ==
  LET s == image.segments[i]
  IN  Loadable(s) /\ (segment_address(s) = 0 \/ ~ s.readable)

\* the loop has found nothing wrong with what it has seen
GoodSoFar ==
  /\ plan = "parse" => next = 1
  /\ plan \in {"scan", "planned"} =>
       /\ image.parses
       /\ \A i \in DOMAIN image.segments : i < next \/ plan = "planned" => ~ Bad(i)

\* without a plan nothing was sent, also after main() has given up
UnplannedUnsent ==
  plan # "planned" =>
    /\ pc \in {"find", "reset", "plan", "close", "exited"}
    /\ stage = "idle" /\ token = 1 /\ started = {}

RefusalInv == LoaderInv /\ PlanInv /\ GoodSoFar /\ UnplannedUnsent

\* The loop goes on only past a segment that is not bad.
LEMMA PlanKeepsGood ==
  ASSUME PlanInv, GoodSoFar, [PlanNext]_planVars
  PROVE  GoodSoFar'
<1>1. CASE UNCHANGED planVars
  BY <1>1 DEF GoodSoFar, planVars, input, Bad
<1>2. next \in Nat /\ DOMAIN image.segments = 1 .. Len(image.segments)
      /\ Len(image.segments) \in Nat
  BY SegmentNumbers DEF PlanInv, PlanTypeOK, Image
<1>3. CASE ReadElf
  BY <1>2, <1>3, SMT DEF ReadElf, GoodSoFar, Bad, input
<1>4. CASE RejectElf
  BY <1>4 DEF RejectElf, Throw, GoodSoFar
<1>5. CASE FinishPlan
  BY <1>2, <1>5, SMT DEF FinishPlan, GoodSoFar, Bad, input
<1>6. ASSUME NEW segment, PlanSegment(segment) PROVE GoodSoFar'
  <2>1. CASE RejectSegment(segment)
    BY <2>1 DEF RejectSegment, Throw, GoodSoFar
  <2>2. CASE ~ RejectSegment(segment)
    <3>1. /\ plan = "scan" /\ next \in DOMAIN image.segments
          /\ segment = image.segments[next]
          /\ next' = next + 1 /\ UNCHANGED <<image, plan>>
      BY <1>2, <1>6, <2>2, AtSegmentNext
      DEF PlanSegment, SkipSegment, RamSegment, MirrorSegment, SkipFlashSegment,
          FlashSegment, HasContent, AtSegment, input
    <3>2. ~ Bad(next)
      BY <1>6, <2>2, <3>1
      DEF PlanSegment, SkipSegment, RamSegment, MirrorSegment, SkipFlashSegment,
          FlashSegment, HasContent, Bad
    <3>3. \A i \in DOMAIN image.segments : i < next' => i < next \/ i = next
      BY <1>2, <3>1, SMT
    <3> QED
      BY <3>1, <3>2, <3>3 DEF GoodSoFar, Bad
  <2> QED
    BY <2>1, <2>2
<1> QED
  BY <1>1, <1>3, <1>4, <1>5, <1>6 DEF PlanNext

\* Only a plan lets main() send a command, and only a command of this run can
\* start a program.
LEMMA UnplannedStaysUnsent ==
  ASSUME LoaderInv, UnplannedUnsent, [Next]_vars
  PROVE  UnplannedUnsent'
<1> USE DEF UnplannedUnsent
<1>1. CASE UNCHANGED vars
  BY <1>1 DEF vars, planVars, input, linkVars, hostVars, mainVars
<1>2. CASE FindDevice \/ ResetInterface \/ Close
  BY <1>2 DEF FindDevice, ResetInterface, IfReset, Close, Goto, planVars, linkVars,
              hostVars
<1>3. CASE Plan
  <2>1. pc = "plan" /\ PlanNext /\ UNCHANGED <<pc, stage, token, started>>
    BY <1>3 DEF Plan, linkVars, hostVars, mainVars
  <2>2. plan # "planned"
    BY <2>1 DEF PlanNext, ReadElf, RejectElf, FinishPlan, PlanSegment, SkipSegment,
       RejectSegment, RamSegment, MirrorSegment, SkipFlashSegment, FlashSegment,
       HasContent, AtSegment
  <2> QED
    BY <2>1, <2>2
<1>4. CASE PlanEnds
  BY <1>4 DEF PlanEnds, Goto, planVars, linkVars, hostVars
<1>5. CASE \/ CallExitXip \/ AfterExitXip \/ CallNext \/ AfterNext \/ ScriptEnds
           \/ CallExec \/ AfterExec \/ QueryStatus
  <2>1. plan' = plan /\ pc \in {"xip", "load", "exec", "status"}
    BY <1>5 DEF CallExitXip, AfterExitXip, CallNext, AfterNext, ScriptEnds,
       CallExec, AfterExec, QueryStatus, planVars
  <2> QED
    BY <2>1
<1>6. CASE HostTransfer
  <2>1. plan' = plan /\ stage # "idle"
    BY <1>6 DEF HostTransfer, TransferSucceeds, TransferFails, TransferBreaks,
       Transfer, Fails, Transferring, planVars
  <2> QED
    BY <2>1
<1>7. CASE DeviceExecutes
  <2>1. dtoken \in Nat /\ dtoken < token
    BY DEF LoaderInv, LinkInv, LinkTypes, TokensInOrder
  <2>2. token = 1 => dtoken = 0
    BY <2>1, SMT
  <2> QED
    BY <1>7, <2>2 DEF DeviceExecutes, Execute, hostVars, planVars, mainVars
<1>8. CASE DeviceRejects \/ DeviceUnplugged
  BY <1>8 DEF DeviceRejects, DeviceUnplugged, Reject, Unplug, hostVars, planVars,
              mainVars
<1> QED
  BY <1>1, <1>2, <1>3, <1>4, <1>5, <1>7, <1>8, <1>6 DEF Next, HostStep, DeviceStep

\* An image with a segment that cannot be loaded is refused before anything is
\* sent: no fault and no order of the segments leaves a part of it on the device.
THEOREM RefusedImagesAreNotSent == Spec => []RefusedImagesLeaveNoTrace
<1>1. Init => RefusalInv
  <2>1. ASSUME Init PROVE LoaderInv /\ PlanInv
    BY <2>1, LoaderInitInv, PlanInitInv DEF Init
  <2> QED
    BY <2>1 DEF RefusalInv, Init, PlanInit, LinkInit, GoodSoFar, UnplannedUnsent
<1>2. RefusalInv /\ [Next]_vars => RefusalInv'
  BY LoaderNextInv, StepsPlan, PlanNextInv, PlanKeepsGood, UnplannedStaysUnsent
  DEF RefusalInv
<1>3. RefusalInv => RefusedImagesLeaveNoTrace
  <2> SUFFICES ASSUME RefusalInv, Refusable PROVE executed = {} /\ started = {}
    BY DEF RefusedImagesLeaveNoTrace
  <2>1. plan # "planned"
    BY DEF RefusalInv, GoodSoFar, Refusable, Bad
  <2> QED
    BY <2>1, NothingCarriedOut DEF RefusalInv, UnplannedUnsent, LoaderInv
<1> QED
  BY <1>1, <1>2, <1>3, PTL DEF Spec

-----------------------------------------------------------------------------
(***************************************************************************)
(* What is sent.  Issued(t) is the command with token t: EXIT_XIP when     *)
(* there are pages, then the script, then EXEC.  Position says where in    *)
(* this order main() is; the device is at, or has carried out, what was    *)
(* issued under its token; and main() ends well, or starts the program,    *)
(* only after the whole script.                                            *)
(***************************************************************************)
Issued(t) ==
  LET k == (t - FirstToken) + 1
  IN  IF t < FirstToken THEN ExitXip
      ELSE IF k \in DOMAIN Script THEN Script[k]
      ELSE Exec(exec_addr)

Position ==
  /\ pc \in {"find", "reset", "plan", "xip"} => op = 1
  /\ pc = "load" =>
       /\ op \in Nat \ {0}
       /\ IF stage = "idle"
            THEN op <= Len(Script) + 1 /\ token = FirstToken + (op - 1)
            ELSE op <= Len(Script)     /\ token = FirstToken + op
  /\ pc = "exec" =>
       token = FirstToken + Len(Script) + (IF stage = "idle" THEN 0 ELSE 1)

SentAsPlanned ==
  \A t : /\ Transferring /\ t = token - 1 => cmd = Issued(t)
         /\ t = dtoken /\ t > 0 => dcmd = Issued(t)

\* the numbers of the script's commands that were carried out
Done == {k \in DOMAIN Script : FirstToken + (k - 1) \in executed}

Finished ==
  \/ pc \in {"exec", "status"}
  \/ pc \in {"close", "exited"} /\ result = "ok"

AllDone == Finished => plan = "planned" /\ \A k \in DOMAIN Script : k \in Done

SentInv ==
  /\ LoaderInv
  /\ PlanFacts
  /\ UnplannedUnsent
  /\ Position
  /\ SentAsPlanned
  /\ AllDone

\* The script is numbered from 1.
LEMMA ScriptNumbers ==
  ASSUME PlanFacts
  PROVE  /\ \E n \in Nat : n = Len(Script) /\ DOMAIN Script = 1 .. n
         /\ FirstToken \in {1, 2}
<1>1. PICK script : script = Script
  OBVIOUS
<1>2. script \in Seq(ScriptCommand)
  BY <1>1, ScriptIsTyped
<1>3. Len(script) \in Nat /\ DOMAIN script = 1 .. Len(script)
  BY <1>2
<1> QED
  BY <1>1, <1>3, Zenon DEF FirstToken

\* Each is an erase or a write.
LEMMA ScriptCommands ==
  ASSUME PlanFacts, NEW k \in DOMAIN Script
  PROVE  Script[k] \in ScriptCommand /\ Script[k].id \in {"FLASH_ERASE", "WRITE"}
<1>1. Script[k] \in ScriptCommand
  <2>1. PICK R : R = ScriptCommand
    OBVIOUS
  <2>2. Script \in Seq(R)
    BY <2>1, ScriptIsTyped
  <2>3. Script[k] \in R
    <3> HIDE <2>1
    <3> QED
      BY <2>2
  <2> QED
    BY <2>1, <2>3, Zenon
<1> QED
  BY <1>1 DEF ScriptCommand

\* A step that leaves the plan alone leaves the script alone.
LEMMA SameScript ==
  ASSUME UNCHANGED planVars
  PROVE  /\ Script' = Script /\ FirstToken' = FirstToken
         /\ exec_addr' = exec_addr /\ layout' = layout
         /\ \A t : Issued(t)' = Issued(t)
<1>1. layout' = layout
  BY DEF planVars, input, layout
<1>2. Erases' = Erases
  BY DEF planVars, segment_data, Erases
<1>3. RamWrites' = RamWrites
  BY DEF planVars, segment_data, RamWrites
<1>4. PageWrites' = PageWrites
  BY DEF planVars, segment_data, PageWrites
<1>5. Script' = Script
  BY <1>2, <1>3, <1>4 DEF Script
<1>6. FirstToken' = FirstToken
  BY DEF planVars, segment_data, FirstToken
<1>7. exec_addr' = exec_addr
  BY <1>1 DEF planVars, input, exec_addr, entry_in_flash
<1>8. \A t : Issued(t)' = Issued(t)
  BY <1>5, <1>6, <1>7 DEF Issued
<1> QED
  BY <1>1, <1>5, <1>6, <1>7, <1>8

\* main() is where the number of its calls says.
LEMMA PositionNext ==
  ASSUME SentInv, [Next]_vars
  PROVE  Position'
<1> USE DEF Position, Goto
<1>1. PICK n \in Nat : n = Len(Script) /\ DOMAIN Script = 1 .. n
  BY ScriptNumbers DEF SentInv
<1>2. PICK f \in {1, 2} : f = FirstToken
  BY ScriptNumbers DEF SentInv
<1>3. token \in Nat
  BY DEF SentInv, LoaderInv, LinkInv, LinkTypes
<1>4. ASSUME UNCHANGED planVars
      PROVE  Len(Script)' = n /\ FirstToken' = f
  BY <1>1, <1>2, <1>4, SameScript
<1>5. Position
  BY DEF SentInv
<1>6. CASE UNCHANGED vars \/ DeviceStep
  BY <1>1, <1>2, <1>4, <1>5, <1>6
  DEF vars, DeviceStep, DeviceExecutes, DeviceRejects, DeviceUnplugged, Execute,
      Reject, Unplug, hostVars, linkVars, mainVars
<1>7. CASE HostTransfer
  <2>1. /\ stage # "idle" /\ stage' # "idle"
        /\ UNCHANGED <<planVars, pc, op, token>>
    BY <1>7
    DEF HostTransfer, TransferSucceeds, TransferFails, TransferBreaks, Transfer,
        Fails, Transferring, mainVars
  <2> QED
    BY <1>1, <1>2, <1>4, <1>5, <2>1
<1>8. CASE FindDevice \/ ResetInterface \/ Plan
  BY <1>5, <1>8 DEF FindDevice, ResetInterface, Plan, mainVars
<1>9. CASE PlanEnds
  <2>1. /\ UNCHANGED <<planVars, op, stage, token>> /\ stage = "idle" /\ token = 1
        /\ op = 1 /\ pc' \in {"close", "load", "xip"}
        /\ pc' = "load" => f = 1
    BY <1>2, <1>5, <1>9 DEF PlanEnds, linkVars, hostVars, FirstToken, NothingSent,
                            SentInv, LoaderInv
  <2>2. Len(Script)' = n /\ FirstToken' = f
    BY <1>4, <2>1
  <2> QED
    BY <1>2, <2>1, <2>2, SMT
<1>10. CASE CallExitXip
  BY <1>5, <1>10 DEF CallExitXip, mainVars
<1>11. CASE AfterExitXip
  <2>1. /\ UNCHANGED <<planVars, op, token>> /\ stage' = "idle" /\ token = 2
        /\ op = 1 /\ pc' = "load" /\ f = 2
    BY <1>2, <1>5, <1>11 DEF AfterExitXip, Resume, FirstToken, FirstCall, SentInv,
                             LoaderInv
  <2>2. Len(Script)' = n /\ FirstToken' = f
    BY <1>4, <2>1
  <2> QED
    BY <1>2, <2>1, <2>2, SMT
<1>12. CASE CallNext
  <2>1. /\ UNCHANGED <<planVars, op>> /\ stage' = "command" /\ token' = token + 1
        /\ op \in Nat \ {0} /\ op <= n /\ token = f + (op - 1)
        /\ pc = "load" /\ pc' = "load"
    BY <1>1, <1>2, <1>5, <1>12 DEF CallNext, Call, mainVars
  <2>2. Len(Script)' = n /\ FirstToken' = f
    BY <1>4, <2>1
  <2> QED
    BY <1>2, <2>1, <2>2, SMT
<1>13. CASE AfterNext
  <2>1. /\ UNCHANGED <<planVars, token>> /\ stage' = "idle"
        /\ op \in Nat \ {0} /\ op <= n /\ token = f + op
        /\ ((pc' = "load" /\ op' = op + 1) \/ pc' = "close")
    BY <1>1, <1>2, <1>5, <1>13 DEF AfterNext, Resume
  <2>2. Len(Script)' = n /\ FirstToken' = f
    BY <1>4, <2>1
  <2> QED
    BY <1>2, <2>1, <2>2, SMT
<1>14. CASE ScriptEnds
  <2>1. /\ UNCHANGED <<planVars, token, stage>> /\ stage = "idle"
        /\ op \in Nat \ {0} /\ op > n /\ op <= n + 1 /\ token = f + (op - 1)
        /\ pc' \in {"close", "exec"}
    BY <1>1, <1>2, <1>5, <1>14 DEF ScriptEnds, Idle, linkVars, hostVars
  <2>2. Len(Script)' = n /\ FirstToken' = f
    BY <1>4, <2>1
  <2> QED
    BY <1>2, <2>1, <2>2, SMT
<1>15. CASE CallExec
  <2>1. /\ UNCHANGED <<planVars, pc>> /\ stage' = "command" /\ token' = token + 1
        /\ token = f + n + 0 /\ pc = "exec"
    BY <1>1, <1>2, <1>5, <1>15 DEF CallExec, Call, mainVars
  <2>2. Len(Script)' = n /\ FirstToken' = f
    BY <1>4, <2>1
  <2> QED
    BY <1>2, <2>1, <2>2, SMT
<1>16. CASE AfterExec \/ QueryStatus \/ Close
  BY <1>16 DEF AfterExec, QueryStatus, Close
<1> QED
  BY <1>6, <1>7, <1>8, <1>9, <1>10, <1>11, <1>12, <1>13, <1>14, <1>15, <1>16
  DEF Next, HostStep

\* What is called is what is to be issued next.
LEMMA CallIsIssued ==
  ASSUME SentInv
  PROVE  /\ CallExitXip => ExitXip = Issued(token)
         /\ CallNext => Script[op] = Issued(token)
         /\ CallExec => Exec(exec_addr) = Issued(token)
<1>1. PICK n \in Nat : n = Len(Script) /\ DOMAIN Script = 1 .. n
  BY ScriptNumbers DEF SentInv
<1>2. PICK f \in {1, 2} : f = FirstToken
  BY ScriptNumbers DEF SentInv
<1>3. token \in Nat
  BY DEF SentInv, LoaderInv, LinkInv, LinkTypes
<1>4. CallExitXip => ExitXip = Issued(token)
  <2> SUFFICES ASSUME CallExitXip PROVE ExitXip = Issued(token)
    OBVIOUS
  <2>1. token = 1 /\ FirstToken = 2
    BY DEF CallExitXip, Call, SentInv, LoaderInv, FirstCall, FirstToken
  <2> QED
    BY <2>1, SMT DEF Issued
<1>5. CallNext => Script[op] = Issued(token)
  <2> SUFFICES ASSUME CallNext PROVE Script[op] = Issued(token)
    OBVIOUS
  <2>1. /\ op \in Nat \ {0} /\ op <= n /\ token = f + (op - 1)
    BY <1>1, <1>2 DEF CallNext, Call, SentInv, Position
  <2>2. (token - f) + 1 = op /\ ~ (token < f) /\ op \in 1 .. n
    BY <1>2, <2>1, SMT
  <2> QED
    BY <1>1, <1>2, <2>2 DEF Issued
<1>6. CallExec => Exec(exec_addr) = Issued(token)
  <2> SUFFICES ASSUME CallExec PROVE Exec(exec_addr) = Issued(token)
    OBVIOUS
  <2>1. token = f + n + 0
    BY <1>1, <1>2 DEF CallExec, Call, SentInv, Position
  <2>2. (token - f) + 1 \notin 1 .. n /\ ~ (token < f)
    BY <1>1, <1>2, <2>1, SMT
  <2> QED
    BY <1>1, <1>2, <2>2 DEF Issued
<1> QED
  BY <1>4, <1>5, <1>6

\* The device takes what was issued under the token it notes.
LEMMA SentNext ==
  ASSUME SentInv, [Next]_vars
  PROVE  SentAsPlanned'
<1> USE DEF SentAsPlanned, Transferring
<1>1. SentAsPlanned
  BY DEF SentInv
<1>2. /\ token \in Nat /\ dtoken \in Nat /\ dtoken < token
  BY DEF SentInv, LoaderInv, LinkInv, LinkTypes, TokensInOrder
<1>3. CASE Plan
  <2>1. stage' = "idle" /\ dtoken' = dtoken /\ token = 1
    BY <1>3 DEF Plan, linkVars, hostVars, deviceVars, SentInv, LoaderInv, NothingSent
  <2>2. ~ (dtoken' > 0)
    BY <1>2, <2>1, SMT
  <2> QED
    BY <2>1, <2>2
<1>4. CASE UNCHANGED planVars
  <2>1. \A t : Issued(t)' = Issued(t)
    BY <1>4, SameScript
  <2>2. CASE \/ UNCHANGED vars \/ FindDevice \/ PlanEnds \/ ScriptEnds
             \/ QueryStatus \/ Close
    <3>1. UNCHANGED <<stage, cmd, token, dtoken, dcmd>>
      BY <2>2 DEF vars, FindDevice, PlanEnds, ScriptEnds, QueryStatus, Close,
                  linkVars, hostVars, deviceVars
    <3> QED
      BY <1>1, <2>1, <3>1
  <2>3. CASE ResetInterface \/ DeviceStep
    <3>1. UNCHANGED <<stage, cmd, token, dtoken, dcmd>>
      BY <2>3 DEF ResetInterface, IfReset, DeviceStep, DeviceExecutes, Execute,
                  DeviceRejects, Reject, DeviceUnplugged, Unplug, linkVars,
                  hostVars, deviceVars
    <3> QED
      BY <1>1, <2>1, <3>1
  <2>4. CASE AfterExitXip \/ AfterNext \/ AfterExec
    <3>1. stage' = "idle" /\ UNCHANGED <<dtoken, dcmd>>
      BY <2>4 DEF AfterExitXip, AfterNext, AfterExec, Resume, deviceVars
    <3> QED
      BY <1>1, <2>1, <3>1
  <2>5. ASSUME NEW c, Call(c), c = Issued(token) PROVE SentAsPlanned'
    <3>1. cmd' = c /\ token' - 1 = token /\ UNCHANGED <<dtoken, dcmd>>
      BY <1>2, <2>5 DEF Call, deviceVars
    <3> QED
      BY <1>1, <2>1, <2>5, <3>1
  <2>6. CASE CallExitXip \/ CallNext \/ CallExec
    BY <2>5, <2>6, CallIsIssued DEF CallExitXip, CallNext, CallExec
  <2>7. CASE HostTransfer
    <3>1. stage \in {"command", "data", "ack"} /\ UNCHANGED <<cmd, token>>
      BY <2>7 DEF HostTransfer, TransferSucceeds, TransferFails, TransferBreaks,
                  Transfer, Fails
    <3>2. \/ UNCHANGED <<dtoken, dcmd>>
          \/ dtoken' = token - 1 /\ dcmd' = cmd
      BY <2>7 DEF HostTransfer, TransferSucceeds, TransferFails, TransferBreaks,
                  Transfer, TakesCommand, TakesData, GivesAck, deviceVars
    <3> QED
      BY <1>1, <2>1, <3>1, <3>2
  <2> QED
    BY <1>3, <2>2, <2>3, <2>4, <2>6, <2>7 DEF Next, HostStep
<1>5. Plan \/ UNCHANGED planVars
  BY DEF Next, vars, HostStep, DeviceStep, FindDevice, ResetInterface,
         PlanEnds, CallExitXip, AfterExitXip, CallNext, AfterNext, ScriptEnds,
         CallExec, AfterExec, QueryStatus, Close, HostTransfer, DeviceExecutes,
         DeviceRejects, DeviceUnplugged
<1> QED
  BY <1>3, <1>4, <1>5

\* main() ends well only after all of the script.
LEMMA AllDoneNext ==
  ASSUME SentInv, [Next]_vars
  PROVE  AllDone'
<1> USE DEF AllDone, Finished, Goto
<1>1. AllDone
  BY DEF SentInv
<1>2. CASE FindDevice \/ ResetInterface \/ Plan \/ PlanEnds \/ CallExitXip
           \/ AfterExitXip \/ CallNext \/ AfterNext
  BY <1>1, <1>2
  DEF FindDevice, ResetInterface, Plan, PlanEnds, CallExitXip, AfterExitXip,
      CallNext, AfterNext, mainVars
<1>3. CASE ScriptEnds
  <2>1. PICK n \in Nat : n = Len(Script) /\ DOMAIN Script = 1 .. n
    BY ScriptNumbers DEF SentInv
  <2>2. PICK f \in {1, 2} : f = FirstToken
    BY ScriptNumbers DEF SentInv
  <2>3. /\ pc = "load" /\ stage = "idle" /\ op \in Nat /\ op > n
        /\ token = f + (op - 1)
    BY <1>3, <2>1, <2>2 DEF ScriptEnds, Idle, SentInv, Position
  <2>4. f .. token - 1 \subseteq executed
    BY <2>2, <2>3 DEF SentInv, LoaderInv, EarlierDone, Working
  <2>5. \A k \in 1 .. n : f + (k - 1) \in f .. token - 1
    BY <2>1, <2>2, <2>3, SMT
  <2>6. \A k \in DOMAIN Script : k \in Done
    BY <2>1, <2>2, <2>4, <2>5 DEF Done
  <2>7. plan = "planned"
    BY <2>3 DEF SentInv, UnplannedUnsent
  <2>8. UNCHANGED planVars /\ executed' = executed
    BY <1>3 DEF ScriptEnds, linkVars, deviceVars
  <2>9. Script' = Script /\ FirstToken' = FirstToken /\ plan' = plan
    BY <2>8, SameScript DEF planVars
  <2> QED
    BY <2>6, <2>7, <2>8, <2>9 DEF Done
<1>4. ASSUME UNCHANGED planVars, executed \subseteq executed', Finished' => Finished
      PROVE  AllDone'
  <2>1. Script' = Script /\ FirstToken' = FirstToken /\ plan' = plan
    BY <1>4, SameScript DEF planVars
  <2> QED
    BY <1>1, <1>4, <2>1 DEF Done
<1>5. CASE UNCHANGED vars \/ DeviceStep \/ HostTransfer \/ CallExec \/ AfterExec
           \/ QueryStatus \/ Close
  <2>1. UNCHANGED planVars /\ (Finished' => Finished)
    BY <1>5 DEF vars, mainVars, DeviceStep, DeviceExecutes, DeviceRejects,
                DeviceUnplugged, HostTransfer, CallExec, AfterExec, QueryStatus,
                Close
  <2>2. executed \subseteq executed'
    BY <1>5 DEF vars, linkVars, deviceVars, DeviceStep, DeviceExecutes, Execute,
                DeviceRejects, Reject, DeviceUnplugged, Unplug, HostTransfer,
                TransferSucceeds, TransferFails, TransferBreaks, Transfer,
                TakesCommand, TakesData, GivesAck, CallExec, Call, AfterExec,
                Resume, QueryStatus, Close
  <2> QED
    BY <1>4, <2>1, <2>2
<1> QED
  BY <1>2, <1>3, <1>5 DEF Next, HostStep

LEMMA SentInit == Init => SentInv
<1> SUFFICES ASSUME Init PROVE SentInv
  OBVIOUS
<1>1. LoaderInv /\ PlanFacts
  BY LoaderInitInv, PlanFactsInit DEF Init
<1>2. /\ pc = "find" /\ op = 1 /\ stage = "idle" /\ dtoken = 0 /\ token = 1
      /\ started = {}
  BY DEF Init, LinkInit
<1> QED
  BY <1>1, <1>2 DEF SentInv, UnplannedUnsent, Position, SentAsPlanned, Transferring,
                    AllDone, Finished

LEMMA SentNextInv == SentInv /\ [Next]_vars => SentInv'
<1> SUFFICES ASSUME SentInv, [Next]_vars PROVE SentInv'
  OBVIOUS
<1>1. LoaderInv' /\ PlanFacts' /\ UnplannedUnsent'
  BY LoaderNextInv, StepsPlan, PlanFactsNext, UnplannedStaysUnsent DEF SentInv
<1>2. Position' /\ SentAsPlanned' /\ AllDone'
  BY PositionNext, SentNext, AllDoneNext
<1> QED
  BY <1>1, <1>2 DEF SentInv

-----------------------------------------------------------------------------
(***************************************************************************)
(* What the memory holds.  The commands that were carried out are the      *)
(* first ones of the script (Done); MemoryFollowsScript says that a byte   *)
(* none of them touches is as it was, or as a killed run's command left    *)
(* it, and that any other byte is what the last one to touch it leaves     *)
(* there.  That this is never a byte programmed without an erase needs     *)
(* that the device has accepted every command before: then no RAM write    *)
(* has strayed into flash, and every byte of a page was erased (PageErased*)
(* and ChunkInSram).                                                       *)
(***************************************************************************)
Touches(k, a) == a \in Bytes(Script[k])

Leaves(k, a) ==
  IF Script[k].id = "FLASH_ERASE" THEN Erased
                                  ELSE Script[k].data[(a - Script[k].addr) + 1]

LastTouch(k, a) == Touches(k, a) /\ \A l \in Done : Touches(l, a) => l <= k

MemoryFollowsScript ==
  \A a \in DOMAIN mem :
    \/ mem[a] \in {Old, Foreign} /\ \A k \in Done : ~ Touches(k, a)
    \/ \E k \in Done : LastTouch(k, a) /\ mem[a] = Leaves(k, a)

\* the device has accepted the script up to command number d
Accepted(d) == \A k \in DOMAIN Script : k <= d => Acceptable(Script[k])

\* The constants of the two memories.
LEMMA MemoryNumbers ==
  /\ FlashStart \in Nat /\ SramStart \in Nat
  /\ layout.flash_end \in Nat /\ layout.sram_end \in Nat
  /\ layout.flash_end <= SramStart /\ layout.sram_end < Word
  /\ FlashAddress \subseteq Nat /\ SramAddress \subseteq Nat
  /\ \A a \in FlashAddress : a \notin SramAddress
<1>1. /\ FlashStart \in Nat /\ SramStart \in Nat
      /\ layout.flash_end \in Nat /\ layout.sram_end \in Nat
      /\ layout.flash_end <= SramStart /\ layout.sram_end < Word
  BY LayoutIsSane
  DEF LayoutAssumption, layout, memory_layout_for_product
<1>2. PICK f, s \in Nat : f = layout.flash_end /\ s = layout.sram_end
  BY <1>1
<1> QED
  BY <1>1, <1>2, SMT DEF FlashAddress, SramAddress

\* An erase command: its bytes are those of its range.
LEMMA EraseBytes ==
  ASSUME PlanFacts, NEW k, NEW m, IsErase(k, m)
  PROVE  /\ k \in DOMAIN Script /\ m \in DOMAIN MergedRanges
         /\ Script[k].id = "FLASH_ERASE"
         /\ Script[k].addr = MergedRanges[m].start
         /\ Script[k].addr \in Nat /\ Script[k].size \in Nat
         /\ \A a \in Int : Touches(k, a) <=> In(a, MergedRanges[m])
<1>1. /\ k \in DOMAIN Script /\ Script[k] = Erase(MergedRanges[m])
      /\ m \in DOMAIN MergedRanges
  BY ScriptHas DEF IsErase
<1>2. PICK from, to : from = MergedRanges[m].start /\ to = MergedRanges[m].end
  OBVIOUS
<1>3. from \in Nat /\ to \in Nat /\ from <= to
  BY <1>1, <1>2, EraseFacts
<1>4. Script[k] = [id |-> "FLASH_ERASE", addr |-> from, data |-> <<>>,
                   size |-> to - from]
  BY <1>1, <1>2 DEF Erase
<1>5. \A a \in Int : a \in from .. from + (to - from) - 1 <=> from <= a /\ a < to
  BY <1>3, SMT
<1> QED
  BY <1>1, <1>2, <1>3, <1>4, <1>5 DEF Touches, Bytes, In

\* A page write: its bytes are those of its page.
LEMMA PageBytesOf ==
  ASSUME PlanFacts, NEW k, NEW b, IsPage(k, b)
  PROVE  /\ k \in DOMAIN Script /\ b \in DOMAIN flash_pages /\ b \in Nat
         /\ Script[k].id = "WRITE" /\ Script[k].addr = b
         /\ Script[k].size = PageSize /\ PageSize \in Nat \ {0}
         /\ \A a \in Int : Touches(k, a) <=> b <= a /\ a < b + PageSize
         /\ \A o \in 1 .. PageSize : Script[k].data[o] = flash_pages[b][o - 1]
<1>1. /\ k \in DOMAIN Script /\ b \in DOMAIN flash_pages
      /\ Script[k] = PageWrite(b)
  BY ScriptHas
<1>2. b \in Nat /\ PageSize \in Nat \ {0}
  BY <1>1, PageWriteFacts, MapNumbers
<1>3. PICK bytes : bytes = [o \in 1 .. PageSize |-> flash_pages[b][o - 1]]
  OBVIOUS
<1>4. Script[k] = [id |-> "WRITE", addr |-> b, size |-> PageSize, data |-> bytes]
  BY <1>1, <1>3, PageWriteFacts
<1>5. \A a \in Int : a \in b .. b + PageSize - 1 <=> b <= a /\ a < b + PageSize
  BY <1>2, SMT
<1>6. \A o \in 1 .. PageSize : bytes[o] = flash_pages[b][o - 1]
  BY <1>3
<1> QED
  BY <1>1, <1>2, <1>4, <1>5, <1>6 DEF Touches, Bytes

\* A RAM segment starts outside the flash: at its own address, which is no flash
\* address, or at a mirror, which is in SRAM.
LEMMA RamStartsOutsideFlash ==
  ASSUME PlanFacts, NEW s \in DOMAIN ram_segments
  PROVE  ram_segments[s].addr \notin FlashAddress
<1>1. PICK i \in DOMAIN image.segments : Origin(ram_segments[s], i)
  BY DEF PlanFacts, MirrorInv, RamHasOrigin
<1>2. ram_segments[s].addr \in Nat
  BY RamSegmentType DEF PlanFacts
<1> DEFINE addr == segment_address(image.segments[i])
<1>3. CASE is_flash_address(addr, layout)
  <2>1. /\ maps_to_sram(addr, image.segments[i].filez, layout)
        /\ ram_segments[s].addr = sram_mirror(addr)
    BY <1>1, <1>3 DEF Origin
  <2>2. ram_segments[s].addr >= SramStart
    BY <2>1 DEF maps_to_sram
  <2> QED
    BY <1>2, <2>2, MemoryNumbers, SMT DEF FlashAddress
<1>4. CASE ~ is_flash_address(addr, layout)
  <2>1. ram_segments[s].addr = addr
    BY <1>1, <1>4 DEF Origin
  <2> QED
    BY <1>2, <1>4, <2>1, MemoryNumbers, SMT DEF FlashAddress, is_flash_address
<1> QED
  BY <1>3, <1>4

\* A write the device accepts that starts outside the flash stays in SRAM.
LEMMA AcceptedInSram ==
  ASSUME NEW c, c.id = "WRITE", c.addr \in Nat, c.size \in Nat \ {0},
         Acceptable(c), c.addr \notin FlashAddress
  PROVE  Bytes(c) \subseteq SramAddress
<1>1. c.addr \in Bytes(c)
  <2>1. PICK x, y : x = c.addr /\ y = c.size
    OBVIOUS
  <2>2. x \in x .. x + y - 1
    BY <2>1, SMT
  <2> QED
    BY <2>1, <2>2 DEF Bytes
<1> QED
  BY <1>1 DEF Acceptable

\* The chunks of a RAM segment that the device has accepted are in SRAM, each at
\* its distance from the start: no address has wrapped and none reached the flash.
LEMMA ChunkInSram ==
  ASSUME PlanFacts, NEW k, NEW s, NEW c, IsChunk(k, s, c), Accepted(k)
  PROVE  /\ Script[k].addr = ram_segments[s].addr + (c - 1) * ChunkSize
         /\ Bytes(Script[k]) \subseteq SramAddress
<1>1. PICK ram, chunks, addr, q :
        /\ ram = ram_segments[s] /\ chunks = Chunks(ram) /\ addr = ram.addr
        /\ q = ChunkSize
  OBVIOUS
<1>2. /\ s \in DOMAIN ram_segments /\ c \in DOMAIN chunks
      /\ addr \in Nat /\ addr \in Address /\ ram.data \in Seq(Byte)
      /\ q \in Nat \ {0}
  BY <1>1, RamSegmentType, ChunkIsPositive DEF IsChunk, PlanFacts
<1>3. /\ \A j \in DOMAIN chunks :
           /\ j \in Nat \ {0} /\ (j - 1) * q \in Nat /\ j * q = (j - 1) * q + q
           /\ chunks[j].id = "WRITE"
           /\ chunks[j].addr = Plus(addr, (j - 1) * q)
           /\ chunks[j].size \in Nat \ {0}
           /\ j + 1 \in DOMAIN chunks => chunks[j].size = q
      /\ 1 .. c \subseteq DOMAIN chunks
  <2>1. ram.addr \in Address /\ ram.data \in Seq(Byte)
    BY <1>1, <1>2
  <2>2. ASSUME NEW j \in DOMAIN Chunks(ram)
        PROVE  LET write == Chunks(ram)[j]
                   from  == (j - 1) * ChunkSize
               IN  /\ j \in Nat \ {0} /\ from \in Nat
                   /\ write.id = "WRITE"
                   /\ write.addr = Plus(ram.addr, from)
                   /\ write.size \in Nat \ {0}
                   /\ j * ChunkSize = from + ChunkSize
                   /\ j + 1 \in DOMAIN Chunks(ram) => write.size = ChunkSize
    BY ONLY <2>1, <2>2, ChunkFacts
  <2>3. \A j \in DOMAIN Chunks(ram) : 1 .. j \subseteq DOMAIN Chunks(ram)
    BY ONLY <2>1, ChunkFacts
  <2> QED
    BY ONLY <1>1, <1>2, <2>2, <2>3, Zenon
<1>4. c \in Nat \ {0}
  BY <1>2, <1>3
<1>5. ASSUME NEW j \in 1 .. c
      PROVE  Acceptable(chunks[j])
  <2>1. j \in DOMAIN chunks
    BY <1>3
  <2>2. PICK l : IsChunk(l, s, j)
    BY <1>1, <1>2, <2>1, ScriptKinds
  <2>3. j < c \/ j = c
    BY <1>4, SMT
  <2>4. l < k \/ l = k
    BY <2>2, <2>3, ScriptOrder
  <2>5. l \in DOMAIN Script /\ k \in DOMAIN Script /\ Script[l] = chunks[j]
    BY <1>1, <2>2, ScriptHas
  <2>6. DOMAIN Script \subseteq Nat
    BY ScriptIsTyped
  <2>7. l <= k
    BY <2>4, <2>5, <2>6, SMT
  <2> QED
    BY <2>5, <2>7 DEF Accepted
<1> DEFINE Good(j) == /\ chunks[j].addr = addr + (j - 1) * q
                      /\ Bytes(chunks[j]) \subseteq SramAddress
           T == {j \in 1 .. c : Good(j)}
<1>6. ASSUME NEW j \in 1 .. c, addr + (j - 1) * q < Word,
             addr + (j - 1) * q \notin FlashAddress
      PROVE  Good(j)
  <2>1. j \in DOMAIN chunks /\ (j - 1) * q \in Nat
    BY <1>3
  <2>2. chunks[j].addr = addr + (j - 1) * q
    <3>1. chunks[j].addr = Plus(addr, (j - 1) * q)
      BY <1>3, <2>1
    <3>2. PICK x \in Nat : x = (j - 1) * q
      BY <2>1
    <3>3. addr + x \in Nat /\ addr + x < Word
      BY <1>2, <1>6, <3>2
    <3>4. Plus(addr, x) = addr + x
      BY <3>3, MapNumbers, SMT DEF Plus
    <3> QED
      BY <3>1, <3>2, <3>4
  <2>3. chunks[j].addr \in Nat
    BY <1>2, <2>1, <2>2, SMT
  <2> QED
    BY <1>3, <1>5, <1>6, <2>1, <2>2, <2>3, AcceptedInSram
<1>7. 1 \in T
  <2>1. (1 - 1) * q = 0
    BY <1>2, SMT
  <2>2. addr \in Nat /\ addr < Word
    BY <1>2, MapNumbers, SMT DEF Address
  <2>3. addr + (1 - 1) * q = addr /\ 1 \in 1 .. c
    BY <1>2, <1>4, <2>1, SMT
  <2>4. addr \notin FlashAddress
    BY <1>1, <1>2, RamStartsOutsideFlash
  <2>5. Good(1)
    BY <1>6, <2>2, <2>3, <2>4
  <2> QED
    BY <2>3, <2>5
<1>8. ASSUME NEW j \in 1 .. c - 1, j \in T PROVE j + 1 \in T
  <2>1. j \in 1 .. c /\ j + 1 \in 1 .. c /\ (j + 1) - 1 = j
    BY <1>4, SMT
  <2>2. /\ j \in DOMAIN chunks /\ chunks[j].size = q
        /\ (j - 1) * q \in Nat /\ j * q = (j - 1) * q + q
    BY <1>3, <2>1
  <2>3. PICK x \in Nat : x = (j - 1) * q
    BY <2>2
  <2>4. Bytes(chunks[j]) = (addr + x) .. (addr + x) + q - 1
    BY <1>8, <2>2, <2>3 DEF Bytes
  <2>5. (addr + x) + q - 1 \in SramAddress
    <3>1. (addr + x) + q - 1 \in (addr + x) .. (addr + x) + q - 1
      BY <1>2, <2>3, SMT
    <3> QED
      BY <1>8, <2>4, <3>1
  <2>6. /\ SramStart <= (addr + x) + q /\ (addr + x) + q < Word
    <3>1. PICK last \in Int : last = (addr + x) + q - 1
      BY <1>2, <2>3, SMT
    <3>2. SramStart <= last /\ last <= layout.sram_end - 1
      BY <2>5, <3>1 DEF SramAddress
    <3>3. (addr + x) + q = last + 1
      BY <1>2, <2>3, <3>1, SMT
    <3>4. PICK end \in Nat : end = layout.sram_end /\ end < Word
      BY MemoryNumbers
    <3>5. SramStart <= last + 1 /\ last + 1 < Word
      BY <3>1, <3>2, <3>4, MapNumbers, SMT
    <3> QED
      BY <3>3, <3>5
  <2>7. addr + ((j + 1) - 1) * q = (addr + x) + q
    BY <1>2, <2>1, <2>2, <2>3, SMT
  <2>8. (addr + x) + q \notin FlashAddress
    BY <1>2, <2>3, <2>6, MemoryNumbers, SMT DEF FlashAddress
  <2>9. Good(j + 1)
    BY <1>6, <2>1, <2>6, <2>7, <2>8
  <2> QED
    BY <2>1, <2>9
<1>9. c \in T
  <2>1. 1 .. c \subseteq T
    <3> HIDE DEF T
    <3> QED
      BY <1>4, <1>7, <1>8, InductionUpTo
  <2> QED
    BY <1>4, <2>1, SMT
<1>10. Script[k] = chunks[c]
  BY <1>1, ScriptHas
<1> QED
  BY <1>1, <1>9, <1>10

\* Every byte of a page the device has accepted is in flash and was erased before.
LEMMA PageErased ==
  ASSUME PlanFacts, NEW k, NEW b, IsPage(k, b), Accepted(k),
         NEW a \in Int, Touches(k, a)
  PROVE  /\ a \in FlashAddress
         /\ \E m : IsErase(m, m) /\ m \in DOMAIN Script /\ m < k /\ Touches(m, a)
<1>1. /\ b \in DOMAIN flash_pages /\ b <= a /\ a < b + PageSize /\ b \in Nat
      /\ k \in DOMAIN Script /\ PageSize \in Nat
  BY PageBytesOf
<1>2. PICK r \in DOMAIN flash_erase_ranges :
        /\ flash_erase_ranges[r].start <= b
        /\ b + PageSize <= flash_erase_ranges[r].end
  BY <1>1 DEF PlanFacts, PlanInv, PagesErased
<1>3. flash_erase_ranges[r].start \in Int /\ flash_erase_ranges[r].end \in Int
  <2>1. flash_erase_ranges \in Seq(Span)
    BY EraseRangesAreSpans DEF PlanFacts, PageInv
  <2> QED
    BY <1>2, <2>1, SpanFields
<1>4. In(a, flash_erase_ranges[r])
  <2>1. PICK from, to \in Int :
          from = flash_erase_ranges[r].start /\ to = flash_erase_ranges[r].end
    BY <1>3
  <2>2. from <= a /\ a < to
    BY <1>1, <1>2, <2>1, SMT
  <2> QED
    BY <2>1, <2>2 DEF In
<1>5. PICK m \in DOMAIN MergedRanges : In(a, MergedRanges[m])
  BY <1>2, <1>4, EraseFacts DEF Covered
<1>6. IsErase(m, m)
  BY <1>5, ScriptKinds
<1>7. /\ m \in DOMAIN Script /\ Script[m].id = "FLASH_ERASE" /\ Touches(m, a)
  BY <1>5, <1>6, EraseBytes
<1>8. m < k
  BY <1>6, ScriptOrder
<1>9. Acceptable(Script[m])
  <2>1. DOMAIN Script \subseteq Nat
    BY ScriptIsTyped
  <2>2. m <= k
    BY <1>1, <1>7, <1>8, <2>1, SMT
  <2> QED
    BY <1>7, <2>2 DEF Accepted
<1>10. Bytes(Script[m]) \subseteq FlashAddress
  BY <1>7, <1>9 DEF Acceptable
<1> QED
  BY <1>6, <1>7, <1>8, <1>10 DEF Touches

\* No two pages have a byte in common.
LEMMA PagesAreApart ==
  ASSUME PlanFacts, NEW k, NEW b, NEW l, NEW c, IsPage(k, b), IsPage(l, c),
         NEW a \in Int, Touches(k, a), Touches(l, a)
  PROVE  k = l /\ b = c /\ b = align_down(a, PageSize)
<1>1. ASSUME NEW m, NEW d, IsPage(m, d), Touches(m, a)
      PROVE  d = align_down(a, PageSize)
  <2>1. d \in DOMAIN flash_pages /\ d <= a /\ a < d + PageSize
    BY <1>1, PageBytesOf
  <2>2. PICK j \in Nat : d = PageSize * j
    BY <2>1 DEF PlanFacts, PageInv, PagesAreAligned
  <2>3. PICK n \in Nat \ {0} : n = PageSize
    BY MapNumbers
  <2>4. d = n * j /\ n * j \in Nat
    BY <2>2, <2>3, SMT
  <2>5. PICK o \in 0 .. n - 1 : a = n * j + o
    <3>1. a - n * j \in 0 .. n - 1 /\ a = n * j + (a - n * j)
      BY <2>1, <2>3, <2>4, SMT
    <3> QED
      BY <3>1
  <2>6. align_down(n * j + o, n) = n * j
    BY PageOfItsBytes
  <2> QED
    BY <2>3, <2>4, <2>5, <2>6
<1>2. b = c /\ b = align_down(a, PageSize)
  BY <1>1
<1> QED
  BY <1>2, ScriptOrder

\* A RAM segment is a segment of the image at the place where it belongs.
LEMMA RamImage ==
  ASSUME PlanFacts, NEW s \in DOMAIN ram_segments
  PROVE  LET ram == ram_segments[s]
             i   == Source(ram)
         IN  /\ i \in RamSeen /\ i \in LoadedSegments /\ i \in Nat \ {0}
             /\ Target(i) = ram.addr
             /\ image.segments[i].filez = Len(ram.data)
             /\ Len(ram.data) \in Nat
             /\ \A j \in 1 .. Len(ram.data) : ram.data[j] = <<i, j - 1>>
<1>1. PICK ram, i : ram = ram_segments[s] /\ i = Source(ram)
  OBVIOUS
<1>2. i \in RamSeen /\ Origin(ram, i)
  BY <1>1 DEF PlanFacts, RamFollowsImage
<1>3. i \in DOMAIN image.segments /\ GoesToRam(i) /\ i \in Nat \ {0}
  <2>1. 1 .. next - 1 \subseteq DOMAIN image.segments
    BY DEF PlanFacts, PageInv, SeenIsImages
  <2>2. next \in Nat
    BY DEF PlanFacts, PlanInv, PlanTypeOK
  <2> QED
    BY <1>2, <2>1, <2>2 DEF RamSeen
<1>4. PICK n \in Nat : n = image.segments[i].filez
  BY <1>3, ContentType, ImagesAreImages DEF PlanFacts, PlanInv
<1>5. ram.data = [j \in 1 .. n |-> <<i, j - 1>>]
  BY <1>2, <1>4 DEF Origin, content
<1>6. Len(ram.data) = n /\ \A j \in 1 .. n : ram.data[j] = <<i, j - 1>>
  BY <1>5
<1>7. i \in LoadedSegments
  BY <1>3 DEF LoadedSegments, GoesToRam, Mirrored
<1>8. Target(i) = ram.addr
  BY <1>2 DEF Target, Mirrored, Origin
<1> QED
  BY <1>1, <1>2, <1>3, <1>4, <1>6, <1>7, <1>8

\* What an accepted chunk touches, and what it leaves there.
LEMMA ChunkBytes ==
  ASSUME PlanFacts, NEW k, NEW s, NEW c, IsChunk(k, s, c), Accepted(k),
         NEW a \in Int, Touches(k, a)
  PROVE  LET i == Source(ram_segments[s])
         IN  /\ k \in DOMAIN Script /\ Script[k].id = "WRITE"
             /\ s \in DOMAIN ram_segments
             /\ a \in SramAddress /\ i \in Claims(a) /\ i \in Nat \ {0}
             /\ Leaves(k, a) = <<i, a - Target(i)>>
<1>1. PICK ram, i : ram = ram_segments[s] /\ i = Source(ram)
  OBVIOUS
<1>2. s \in DOMAIN ram_segments /\ c \in DOMAIN Chunks(ram)
  BY <1>1 DEF IsChunk
<1>3. /\ i \in LoadedSegments /\ i \in Nat \ {0}
      /\ Target(i) = ram.addr
      /\ image.segments[i].filez = Len(ram.data)
      /\ Len(ram.data) \in Nat
      /\ \A j \in 1 .. Len(ram.data) : ram.data[j] = <<i, j - 1>>
  BY ONLY PlanFacts, <1>1, <1>2, RamImage
<1>4. ram.addr \in Address /\ ram.addr \in Nat /\ ram.data \in Seq(Byte)
  BY <1>1, <1>2, RamSegmentType DEF PlanFacts
<1>5. k \in DOMAIN Script /\ Script[k] = Chunks(ram)[c]
  BY <1>1, ScriptHas
<1>6. /\ Script[k].addr = ram.addr + (c - 1) * ChunkSize
      /\ Bytes(Script[k]) \subseteq SramAddress
  BY <1>1, ChunkInSram
<1>7. PICK from \in Nat, size \in Nat :
        /\ from = (c - 1) * ChunkSize /\ size = Script[k].size
        /\ Script[k].id = "WRITE"
        /\ from + size <= Len(ram.data)
        /\ \A o \in 1 .. size : Script[k].data[o] = ram.data[from + o]
  <2>1. LET write == Chunks(ram)[c]
            from  == (c - 1) * ChunkSize
        IN  /\ from \in Nat
            /\ write.id = "WRITE"
            /\ write.size \in Nat
            /\ from + write.size <= Len(ram.data)
            /\ \A o \in 1 .. write.size : write.data[o] = ram.data[from + o]
    BY ONLY <1>2, <1>4, ChunkFacts, Zenon
  <2> QED
    BY ONLY <1>5, <2>1, Zenon
<1>8. PICK x \in Nat, n \in Nat : x = ram.addr /\ n = Len(ram.data)
  BY <1>3, <1>4
<1>9. Script[k].addr = x + from
  BY <1>6, <1>7, <1>8
<1>10. x + from <= a /\ a <= (x + from) + size - 1
  BY <1>7, <1>9 DEF Touches, Bytes
<1>11. PICK o \in 1 .. size : o = (a - (x + from)) + 1
  BY <1>10, SMT
<1>12. from + size <= n
  BY <1>7, <1>8
<1>13. /\ from + o \in 1 .. n /\ (from + o) - 1 = a - x
       /\ x <= a /\ a < x + n
  BY <1>10, <1>11, <1>12, SMT
<1>14. Script[k].data[o] = <<i, a - x>>
  <2>1. Script[k].data[o] = ram.data[from + o]
    BY <1>7
  <2>2. ram.data[from + o] = <<i, (from + o) - 1>>
    BY <1>3, <1>8, <1>13
  <2> QED
    BY <1>13, <2>1, <2>2
<1>15. Leaves(k, a) = <<i, a - x>>
  BY <1>7, <1>9, <1>11, <1>14 DEF Leaves
<1>16. i \in Claims(a)
  BY <1>3, <1>8, <1>13 DEF Claims
<1>17. a \in SramAddress
  BY <1>6 DEF Touches
<1> QED
  BY <1>1, <1>2, <1>3, <1>5, <1>7, <1>8, <1>15, <1>16, <1>17

\* Every byte a RAM segment claims is touched by a chunk of it.
LEMMA ChunkForByte ==
  ASSUME PlanFacts, NEW s \in DOMAIN ram_segments, NEW a \in Int,
         \A k \in DOMAIN Script : Acceptable(Script[k]),
         ram_segments[s].addr <= a,
         a < ram_segments[s].addr + Len(ram_segments[s].data)
  PROVE  \E k, c : IsChunk(k, s, c) /\ k \in DOMAIN Script /\ Touches(k, a)
<1>1. PICK ram : ram = ram_segments[s]
  OBVIOUS
<1>2. ram.addr \in Address /\ ram.addr \in Nat /\ ram.data \in Seq(Byte)
  BY <1>1, RamSegmentType DEF PlanFacts
<1>3. PICK x \in Nat, n \in Nat : x = ram.addr /\ n = Len(ram.data)
  BY <1>2
<1>4. PICK j \in 1 .. n : a = (x + j) - 1
  <2>1. (a - x) + 1 \in 1 .. n /\ a = (x + ((a - x) + 1)) - 1
    BY <1>1, <1>3, SMT
  <2> QED
    BY <2>1
<1>5. PICK c \in DOMAIN Chunks(ram) :
        /\ (c - 1) * ChunkSize < j
        /\ j <= (c - 1) * ChunkSize + Chunks(ram)[c].size
  BY ONLY <1>2, <1>3, <1>4, ChunkFacts
<1>6. (c - 1) * ChunkSize \in Nat /\ Chunks(ram)[c].size \in Nat
  BY ONLY <1>2, <1>5, ChunkFacts
<1>7. PICK k : IsChunk(k, s, c)
  BY <1>1, <1>5, ScriptKinds
<1>8. k \in DOMAIN Script /\ Script[k] = Chunks(ram)[c]
  BY <1>1, <1>7, ScriptHas
<1>9. Script[k].addr = ram.addr + (c - 1) * ChunkSize
  BY <1>1, <1>7, ChunkInSram DEF Accepted
<1>10. PICK from \in Nat, size \in Nat :
         from = (c - 1) * ChunkSize /\ size = Script[k].size
  BY <1>6, <1>8
<1>11. from < j /\ j <= from + size
  BY <1>5, <1>8, <1>10
<1>12. a \in (x + from) .. (x + from) + size - 1
  BY <1>4, <1>11, SMT
<1> QED
  BY <1>3, <1>7, <1>8, <1>9, <1>10, <1>12 DEF Touches, Bytes

\* A set of numbers up to a bound has a last one.
LEMMA LastNumber ==
  ASSUME NEW n \in Nat, NEW T \in SUBSET (0 .. n), T # {}
  PROVE  \E x \in T : \A y \in T : y <= x
<1> DEFINE Gaps == {n - y : y \in T}
<1>1. Gaps \in SUBSET Nat /\ Gaps # {}
  <2>1. \A y \in T : n - y \in Nat
    BY SMT
  <2> QED
    BY <2>1
<1>2. PICK d \in Gaps : \A e \in Gaps : d <= e
  <2> HIDE DEF Gaps
  <2> QED
    BY <1>1, LeastNumber
<1>3. PICK x \in T : d = n - x
  BY <1>2
<1>4. ASSUME NEW y \in T PROVE y <= x
  <2>1. n - x <= n - y
    BY <1>2, <1>3
  <2> QED
    BY <2>1, SMT
<1> QED
  BY <1>4

\* A byte of a planned page is padding or that of a segment.
LEMMA TopClaim ==
  ASSUME PlanFacts, NEW a
  PROVE  \/ LastByteAt(FlashSeen, a) = Padding
         \/ \E i \in FlashSeen : \E d : i \in Nat \ {0} /\ LastByteAt(FlashSeen, a) = <<i, d>>
<1>1. PICK n \in Nat : FlashSeen \subseteq 1 .. n /\ FlashSeen \subseteq 0 .. n
  <2>1. next - 1 \in Nat
    BY DEF PlanFacts, PlanInv, PlanTypeOK
  <2>2. FlashSeen \subseteq 1 .. next - 1
    BY DEF FlashSeen
  <2>3. FlashSeen \subseteq 0 .. next - 1
    BY <2>1, <2>2, SMT
  <2> QED
    BY <2>1, <2>2, <2>3
<1> DEFINE claim == {i \in FlashSeen : Covers(i, a)}
<1>2. CASE claim = {}
  BY <1>2 DEF LastByteAt
<1>3. CASE claim # {}
  <2>1. PICK top \in claim : \A i \in claim : i <= top
    <3>1. claim \in SUBSET (0 .. n)
      BY <1>1
    <3> HIDE DEF claim
    <3> QED
      BY <1>3, <3>1, LastNumber
  <2>2. /\ top \in FlashSeen /\ Covers(top, a)
        /\ \A i \in FlashSeen : Covers(i, a) => i <= top
    BY <2>1
  <2>3. FlashSeen \in SUBSET Nat
    BY <1>1
  <2>4. LastByteAt(FlashSeen, a) = <<top, a - segment_address(image.segments[top])>>
    BY <2>2, <2>3, LastClaim
  <2>5. top \in Nat \ {0}
    BY <1>1, <2>2
  <2> QED
    BY <2>2, <2>4, <2>5
<1> QED
  BY <1>2, <1>3

\* What a page write leaves is what the image has there, or padding.
LEMMA PageLeaves ==
  ASSUME PlanFacts, NEW k, NEW b, IsPage(k, b), NEW a \in Int, Touches(k, a)
  PROVE  Leaves(k, a) = LastByteAt(FlashSeen, a) /\ Leaves(k, a) \in Byte
<1>1. /\ b \in DOMAIN flash_pages /\ b <= a /\ a < b + PageSize /\ b \in Nat
      /\ PageSize \in Nat \ {0}
      /\ Script[k].id = "WRITE" /\ Script[k].addr = b
      /\ \A o \in 1 .. PageSize : Script[k].data[o] = flash_pages[b][o - 1]
  BY PageBytesOf
<1>2. PICK d \in 0 .. PageSize - 1 : d = a - b /\ b + d = a /\ d + 1 \in 1 .. PageSize
                                     /\ (d + 1) - 1 = d
  <2>1. /\ a - b \in 0 .. PageSize - 1 /\ b + (a - b) = a
        /\ (a - b) + 1 \in 1 .. PageSize /\ ((a - b) + 1) - 1 = a - b
    BY <1>1, SMT
  <2> QED
    BY <2>1
<1>3. Leaves(k, a) = Script[k].data[d + 1]
  BY <1>1, <1>2 DEF Leaves
<1>4. Leaves(k, a) = flash_pages[b][d]
  BY <1>1, <1>2, <1>3
<1>5. flash_pages[b][d] = LastByteAt(FlashSeen, b + d)
  BY <1>1 DEF PlanFacts, PageInv, PagesHoldImage
<1>6. flash_pages[b][d] \in Byte
  BY <1>1 DEF PlanFacts, PlanInv, PlanTypeOK, Page
<1> QED
  BY <1>2, <1>4, <1>5, <1>6

\* What an accepted command of the script leaves is never the mark of a byte
\* that was programmed without an erase.
LEMMA LeavesByte ==
  ASSUME PlanFacts, NEW k \in DOMAIN Script, Accepted(k),
         NEW a \in Int, Touches(k, a)
  PROVE  Leaves(k, a) \in Byte /\ Leaves(k, a) # Mixed
<1>1. ASSUME NEW m, IsErase(k, m) PROVE Leaves(k, a) \in Byte /\ Leaves(k, a) # Mixed
  <2>1. Leaves(k, a) = Erased
    BY <1>1, EraseBytes DEF Leaves
  <2> QED
    BY <2>1 DEF Erased, Mixed, Byte
<1>2. ASSUME NEW s, NEW c, IsChunk(k, s, c)
      PROVE  Leaves(k, a) \in Byte /\ Leaves(k, a) # Mixed
  <2>1. PICK i \in Nat \ {0} : i \in Claims(a) /\ Leaves(k, a) = <<i, a - Target(i)>>
    BY <1>2, ChunkBytes
  <2>2. a - Target(i) \in Nat
    <3>1. i = Source(ram_segments[s]) /\ s \in DOMAIN ram_segments
          /\ Target(i) = ram_segments[s].addr
      <4>1. s \in DOMAIN ram_segments
        BY <1>2 DEF IsChunk
      <4>2. Source(ram_segments[s]) \in Nat \ {0} /\ Target(Source(ram_segments[s])) = ram_segments[s].addr
        BY <4>1, RamImage
      <4>3. Leaves(k, a) = <<Source(ram_segments[s]), a - Target(Source(ram_segments[s]))>>
        BY <1>2, ChunkBytes
      <4> QED
        BY <2>1, <4>1, <4>2, <4>3
    <3>2. Target(i) \in Nat
      BY <3>1, RamSegmentType DEF PlanFacts
    <3>3. Target(i) <= a
      BY <2>1 DEF Claims
    <3> QED
      BY <3>2, <3>3, SMT
  <2> QED
    BY <2>1, <2>2 DEF Mixed, Byte
<1>3. ASSUME NEW b, IsPage(k, b) PROVE Leaves(k, a) \in Byte /\ Leaves(k, a) # Mixed
  <2>1. Leaves(k, a) = LastByteAt(FlashSeen, a) /\ Leaves(k, a) \in Byte
    BY <1>3, PageLeaves
  <2> QED
    BY <2>1, TopClaim DEF Mixed, Padding
<1> QED
  BY <1>1, <1>2, <1>3, ScriptKinds

DoneIsAcceptable == \A k \in Done : Acceptable(Script[k])

MemInv ==
  /\ SentInv
  /\ mem \in [FlashAddress \cup SramAddress -> Byte]
  /\ DoneIsAcceptable
  /\ MemoryFollowsScript

\* The device is at the last command of those it has taken: nothing that comes
\* later was carried out, and everything before was, when it carries that one out.
LEMMA AtTheCommand ==
  ASSUME SentInv, SentInv', DeviceExecutes, NEW k \in DOMAIN Script,
         dtoken = FirstToken + (k - 1)
  PROVE  /\ dcmd = Script[k] /\ dtoken # 0
         /\ \A l \in DOMAIN Script : l \in Done <=> l < k
         /\ \A l \in DOMAIN Script : l \in Done' <=> l <= k
<1>1. PICK n \in Nat : n = Len(Script) /\ DOMAIN Script = 1 .. n
  BY ScriptNumbers DEF SentInv
<1>2. PICK f \in {1, 2} : f = FirstToken
  BY ScriptNumbers DEF SentInv
<1>3. dtoken \in Nat /\ executed \subseteq Nat /\ dtoken \notin executed
      /\ \A t \in executed : t <= dtoken
  BY DEF SentInv, LoaderInv, LinkInv, LinkTypes, TokensInOrder, WorkIsNew,
         DeviceExecutes, Execute
<1>4. k \in 1 .. n /\ dtoken = f + (k - 1)
  BY <1>1, <1>2
<1>5. (dtoken - f) + 1 = k /\ ~ (dtoken < f) /\ dtoken > 0
  BY <1>2, <1>4, SMT
<1>6. dcmd = Script[k]
  <2>1. dcmd = Issued(dtoken)
    BY <1>5 DEF SentInv, SentAsPlanned
  <2> QED
    BY <1>1, <1>2, <1>4, <1>5, <2>1 DEF Issued
<1>7. executed' = executed \cup {dtoken} /\ UNCHANGED planVars
  BY <1>5 DEF DeviceExecutes, Execute
<1>8. Script' = Script /\ FirstToken' = f
  BY <1>2, <1>7, SameScript
<1>9. f .. dtoken \subseteq executed'
  BY <1>7, <1>8, <1>2 DEF SentInv, LoaderInv, PrefixCarriedOut, FirstToken
<1>10. ASSUME NEW l \in 1 .. n
       PROVE  /\ f + (l - 1) \in executed <=> l < k
              /\ f + (l - 1) \in executed' <=> l <= k
  <2>1. PICK t \in Nat : t = f + (l - 1)
    <3>1. f + (l - 1) \in Nat
      BY <1>2, SMT
    <3> QED
      BY <3>1
  <2>2. /\ l < k <=> t < dtoken
        /\ l <= k <=> t <= dtoken
        /\ f <= t
    BY <1>2, <1>4, <2>1, SMT
  <2>3. t <= dtoken => t \in executed'
    BY <1>2, <1>3, <1>9, <2>2
  <2>4. t \in executed => t <= dtoken /\ t # dtoken
    BY <1>3
  <2>5. t \in executed <=> t < dtoken
    BY <1>3, <1>7, <2>3, <2>4, SMT
  <2>6. t \in executed' <=> t <= dtoken
    BY <1>3, <1>7, <2>3, <2>4
  <2> QED
    BY <2>1, <2>2, <2>5, <2>6
<1>11. \A l \in 1 .. n : l \in Done <=> l < k
  BY <1>1, <1>2, <1>10, Zenon DEF Done
<1>12. \A l \in 1 .. n : l \in Done' <=> l <= k
  BY <1>1, <1>8, <1>10, Zenon DEF Done
<1>13. dtoken # 0
  BY <1>3, <1>5, SMT
<1> QED
  BY <1>1, <1>6, <1>11, <1>12, <1>13, Zenon

\* A page write that the device has accepted finds every one of its bytes erased.
LEMMA PageFindsErased ==
  ASSUME MemInv, NEW k, NEW b, IsPage(k, b), Accepted(k),
         \A l \in DOMAIN Script : l \in Done <=> l < k,
         NEW a \in DOMAIN mem, a \in Int, Touches(k, a)
  PROVE  mem[a] = Erased
<1>1. PlanFacts
  BY DEF MemInv, SentInv
<1>2. PICK m : IsErase(m, m) /\ m \in DOMAIN Script /\ m < k /\ Touches(m, a)
  BY <1>1, PageErased
<1>3. m \in Done
  BY <1>2
<1>4. PICK l \in Done : LastTouch(l, a) /\ mem[a] = Leaves(l, a)
  BY <1>2, <1>3 DEF MemInv, MemoryFollowsScript
<1>5. l \in DOMAIN Script /\ Touches(l, a) /\ l < k
  BY <1>4 DEF Done, LastTouch
<1>6. Accepted(l)
  <2>1. DOMAIN Script \subseteq Nat
    BY <1>1, ScriptIsTyped
  <2>2. k \in DOMAIN Script
    BY <1>1, PageBytesOf
  <2>3. \A j \in DOMAIN Script : j <= l => j <= k
    BY <1>5, <2>1, <2>2, SMT
  <2> QED
    BY <2>3 DEF Accepted
<1>7. a \in FlashAddress
  BY <1>1, PageErased
<1>8. ~ \E s, c : IsChunk(l, s, c)
  BY <1>1, <1>5, <1>6, <1>7, ChunkBytes, MemoryNumbers
<1>9. ~ \E c : IsPage(l, c)
  <2> SUFFICES ASSUME NEW c, IsPage(l, c) PROVE FALSE
    OBVIOUS
  <2>1. k = l
    BY <1>1, <1>5, PagesAreApart
  <2>2. l \in Nat
    BY <1>1, <1>5, ScriptIsTyped
  <2> QED
    BY <1>5, <2>1, <2>2, SMT
<1>10. PICK e : IsErase(l, e)
  BY <1>1, <1>5, <1>8, <1>9, ScriptKinds
<1>11. Leaves(l, a) = Erased
  BY <1>1, <1>10, EraseBytes DEF Leaves
<1> QED
  BY <1>4, <1>11

\* A command of the script changes the bytes it touches, to what it leaves.
LEMMA CommandDoes ==
  ASSUME MemInv, SentInv', DeviceExecutes, NEW k \in DOMAIN Script,
         dtoken = FirstToken + (k - 1)
  PROVE  /\ Accepted(k)
         /\ DOMAIN mem' = DOMAIN mem
         /\ mem' = [a \in DOMAIN mem |-> IF Touches(k, a) THEN Leaves(k, a) ELSE mem[a]]
<1>1. PlanFacts /\ SentInv
  BY DEF MemInv, SentInv
<1>2. /\ dcmd = Script[k] /\ dtoken # 0
      /\ \A l \in DOMAIN Script : l \in Done <=> l < k
  BY <1>1, AtTheCommand
<1>3. Acceptable(Script[k])
  BY <1>2 DEF DeviceExecutes
<1>4. Accepted(k)
  <2>1. DOMAIN Script \subseteq Nat
    BY <1>1, ScriptIsTyped
  <2>2. \A l \in DOMAIN Script : l <= k => l < k \/ l = k
    BY <2>1, SMT
  <2> QED
    BY <1>2, <1>3, <2>2 DEF Accepted, MemInv, DoneIsAcceptable
<1>5. Script[k].id \in {"FLASH_ERASE", "WRITE"}
  BY <1>1, ScriptCommands
<1>6. mem' = [a \in DOMAIN mem |-> ContentAfter(Script[k], a)]
  BY <1>2, <1>5 DEF DeviceExecutes
<1>7. ASSUME NEW a \in DOMAIN mem
      PROVE  ContentAfter(Script[k], a) = IF Touches(k, a) THEN Leaves(k, a) ELSE mem[a]
  <2>1. a \in Int
    BY MemoryNumbers DEF MemInv
  <2>2. CASE ~ Touches(k, a)
    BY <2>2 DEF ContentAfter, Touches
  <2>3. CASE Touches(k, a) /\ Script[k].id = "FLASH_ERASE"
    BY <1>2, <2>3 DEF ContentAfter, Touches, Leaves
  <2>4. CASE Touches(k, a) /\ Script[k].id # "FLASH_ERASE"
    <3>1. a \in FlashAddress => mem[a] = Erased
      <4> SUFFICES ASSUME a \in FlashAddress PROVE mem[a] = Erased
        OBVIOUS
      <4>1. ~ \E s, c : IsChunk(k, s, c)
        BY <1>1, <1>4, <2>1, <2>4, ChunkBytes, MemoryNumbers
      <4>2. ~ \E m : IsErase(k, m)
        BY <1>1, <2>4, EraseBytes
      <4>3. PICK b : IsPage(k, b)
        BY <1>1, <4>1, <4>2, ScriptKinds
      <4> QED
        BY <1>2, <1>4, <2>1, <2>4, <4>3, PageFindsErased
    <3> QED
      BY <1>2, <2>4, <3>1 DEF ContentAfter, Touches, Leaves
  <2> QED
    BY <2>2, <2>3, <2>4
<1>8. mem' = [a \in DOMAIN mem |-> IF Touches(k, a) THEN Leaves(k, a) ELSE mem[a]]
  BY <1>6, <1>7
<1> QED
  BY <1>4, <1>8

MemoryInv == /\ mem \in [FlashAddress \cup SramAddress -> Byte]
             /\ DoneIsAcceptable
             /\ MemoryFollowsScript

\* What the operators of this section are about does not change with the memory.
LEMMA SameScriptBytes ==
  ASSUME UNCHANGED planVars
  PROVE  /\ FlashAddress' = FlashAddress /\ SramAddress' = SramAddress
         /\ \A k : Acceptable(Script[k])' <=> Acceptable(Script[k])
         /\ \A k, a : Touches(k, a)' <=> Touches(k, a)
         /\ \A k, a : Leaves(k, a)' = Leaves(k, a)
<1>1. Script' = Script /\ layout' = layout
  BY SameScript
<1>2. FlashAddress' = FlashAddress /\ SramAddress' = SramAddress
  BY <1>1 DEF FlashAddress, SramAddress
<1>3. \A c : Acceptable(c)' <=> Acceptable(c)
  BY <1>2 DEF Acceptable
<1> QED
  BY <1>1, <1>2, <1>3 DEF Touches, Leaves, Acceptable

\* A step that leaves plan and memory alone and carries nothing of the script out.
LEMMA MemoryKept ==
  ASSUME MemInv, UNCHANGED <<planVars, mem>>, Done' = Done
  PROVE  MemoryInv'
<1>1. /\ DoneIsAcceptable /\ MemoryFollowsScript
      /\ mem \in [FlashAddress \cup SramAddress -> Byte]
  BY DEF MemInv
<1>2. (mem \in [FlashAddress \cup SramAddress -> Byte])'
  BY <1>1, SameScriptBytes
<1>3. DoneIsAcceptable'
  BY <1>1, SameScriptBytes DEF DoneIsAcceptable
<1>4. \A k, a : LastTouch(k, a)' <=> LastTouch(k, a)
  BY SameScriptBytes DEF LastTouch
<1>5. MemoryFollowsScript'
  BY <1>1, <1>4, SameScriptBytes DEF MemoryFollowsScript
<1> QED
  BY <1>2, <1>3, <1>5 DEF MemoryInv

\* While nothing of the script was carried out the memory is as it was, or as a
\* killed run's command leaves it.
LEMMA MemoryUntouched ==
  ASSUME MemInv, \A k \in DOMAIN Script : k \notin Done,
         \A k \in DOMAIN Script' : k \notin Done',
         layout' = layout, DOMAIN mem' = DOMAIN mem,
         mem' = [a \in DOMAIN mem |-> mem'[a]],
         \A a \in DOMAIN mem : mem'[a] \in {mem[a], Foreign}
  PROVE  MemoryInv'
<1>1. Done = {} /\ Done' = {}
  BY DEF Done
<1>2. FlashAddress' = FlashAddress /\ SramAddress' = SramAddress
  BY DEF FlashAddress, SramAddress
<1>3. \A a \in DOMAIN mem : mem[a] \in {Old, Foreign}
  BY <1>1 DEF MemInv, MemoryFollowsScript
<1>4. \A a \in DOMAIN mem' : mem'[a] \in {Old, Foreign}
  BY <1>3
<1>5. Old \in Byte /\ Foreign \in Byte
  BY DEF Old, Foreign, Byte
<1>6. DOMAIN mem' = FlashAddress' \cup SramAddress'
  BY <1>2 DEF MemInv
<1>7. (mem \in [FlashAddress \cup SramAddress -> Byte])'
  BY <1>4, <1>5, <1>6
<1>8. DoneIsAcceptable'
  BY <1>1 DEF DoneIsAcceptable
<1>9. MemoryFollowsScript'
  BY <1>1, <1>4 DEF MemoryFollowsScript
<1> QED
  BY <1>7, <1>8, <1>9 DEF MemoryInv

\* A command of the script is carried out.
LEMMA CommandKeepsMemory ==
  ASSUME MemInv, SentInv', DeviceExecutes, NEW k \in DOMAIN Script,
         dtoken = FirstToken + (k - 1)
  PROVE  MemoryInv'
<1>1. PlanFacts /\ SentInv
  BY DEF MemInv, SentInv
<1>2. /\ \A l \in DOMAIN Script : l \in Done <=> l < k
      /\ \A l \in DOMAIN Script : l \in Done' <=> l <= k
  BY <1>1, AtTheCommand
<1>3. /\ Accepted(k)
      /\ mem' = [a \in DOMAIN mem |-> IF Touches(k, a) THEN Leaves(k, a) ELSE mem[a]]
  BY CommandDoes
<1>4. UNCHANGED planVars
  BY DEF DeviceExecutes
<1>5. Script' = Script
  BY <1>4, SameScript
<1>6. mem \in [FlashAddress \cup SramAddress -> Byte]
  BY DEF MemInv
<1>7. \A a \in DOMAIN mem : a \in Int
  BY <1>6, MemoryNumbers
<1>8. (mem \in [FlashAddress \cup SramAddress -> Byte])'
  <2>1. \A a \in DOMAIN mem : (IF Touches(k, a) THEN Leaves(k, a) ELSE mem[a]) \in Byte
    BY <1>1, <1>3, <1>6, <1>7, LeavesByte
  <2>2. DOMAIN mem = FlashAddress' \cup SramAddress'
    BY <1>4, <1>6, SameScriptBytes
  <2> QED
    BY <1>3, <2>1, <2>2
<1>9. DoneIsAcceptable'
  <2> SUFFICES ASSUME NEW l \in Done' PROVE Acceptable(Script[l])'
    BY DEF DoneIsAcceptable
  <2>1. l \in DOMAIN Script
    BY <1>5 DEF Done
  <2>2. l <= k
    BY <1>2, <2>1
  <2> QED
    BY <1>3, <1>4, <2>1, <2>2, SameScriptBytes DEF Accepted
<1>10. \A l \in DOMAIN Script : l \in Nat
  BY <1>1, ScriptIsTyped
<1>11. \A l : l \in Done' => l \in DOMAIN Script
  BY <1>5 DEF Done
<1>12. \A l : l \in Done => l \in DOMAIN Script
  BY DEF Done
<1>13. ASSUME NEW a \in DOMAIN mem
       PROVE \/ mem'[a] \in {Old, Foreign} /\ \A l \in Done' : ~ Touches(l, a)
             \/ \E l \in Done' : /\ Touches(l, a) /\ mem'[a] = Leaves(l, a)
                                 /\ \A j \in Done' : Touches(j, a) => j <= l
  <2>1. CASE Touches(k, a)
    <3>1. k \in Done' /\ \A j \in Done' : j <= k
      BY <1>2, <1>10, <1>11, SMT
    <3> QED
      BY <1>3, <2>1, <3>1
  <2>2. CASE ~ Touches(k, a)
    <3>1. mem'[a] = mem[a]
      BY <1>3, <2>2
    <3>2. \A j \in Done' : Touches(j, a) => j \in Done
      <4>1. \A j \in DOMAIN Script : j <= k => j < k \/ j = k
        BY <1>10, SMT
      <4> QED
        BY <1>2, <1>11, <2>2, <4>1
    <3>3. \A j \in Done : j \in Done'
      <4>1. \A j \in DOMAIN Script : j < k => j <= k
        BY <1>10, SMT
      <4> QED
        BY <1>2, <1>12, <4>1
    <3>4. \/ mem[a] \in {Old, Foreign} /\ \A l \in Done : ~ Touches(l, a)
          \/ \E l \in Done : LastTouch(l, a) /\ mem[a] = Leaves(l, a)
      BY DEF MemInv, MemoryFollowsScript
    <3> QED
      BY <3>1, <3>2, <3>3, <3>4 DEF LastTouch
  <2> QED
    BY <2>1, <2>2
<1>14. DOMAIN mem' = DOMAIN mem
  BY <1>3
<1>15. MemoryFollowsScript'
  BY <1>4, <1>13, <1>14, SameScriptBytes DEF MemoryFollowsScript, LastTouch
<1> QED
  BY <1>8, <1>9, <1>15 DEF MemoryInv

\* What the device carries out that is not of the script: what a killed run left,
\* EXIT_XIP or EXEC.
LEMMA OtherExecution ==
  ASSUME MemInv, SentInv', DeviceExecutes,
         ~ \E k \in DOMAIN Script : dtoken = FirstToken + (k - 1)
  PROVE  MemoryInv'
<1>1. /\ dtoken \in Nat /\ \A t \in executed : 1 <= t /\ t <= dtoken
      /\ executed \subseteq Nat
  BY DEF MemInv, SentInv, LoaderInv, LinkInv, LinkTypes, TokensInOrder
<1>2. UNCHANGED planVars /\ executed' = executed \cup ({dtoken} \ {0})
  BY DEF DeviceExecutes, Execute
<1>3. Script' = Script /\ FirstToken' = FirstToken /\ layout' = layout
  BY <1>2, SameScript
<1>4. PICK n \in Nat : n = Len(Script) /\ DOMAIN Script = 1 .. n
  BY ScriptNumbers DEF MemInv, SentInv
<1>5. PICK f \in {1, 2} : f = FirstToken
  BY ScriptNumbers DEF MemInv, SentInv
<1>6. CASE dtoken = 0
  <2>1. executed = {} /\ executed' = {}
    BY <1>1, <1>2, <1>6, SMT
  <2>2. /\ \A k \in DOMAIN Script : k \notin Done
        /\ \A k \in DOMAIN Script' : k \notin Done'
    BY <2>1 DEF Done
  <2>3. /\ DOMAIN mem' = DOMAIN mem /\ mem' = [a \in DOMAIN mem |-> mem'[a]]
        /\ \A a \in DOMAIN mem : mem'[a] \in {mem[a], Foreign}
    <3>1. mem = [a \in DOMAIN mem |-> mem[a]]
      BY DEF MemInv
    <3>2. CASE mem' = mem
      BY <3>1, <3>2
    <3>3. CASE mem' = [a \in DOMAIN mem |-> ContentAfter(dcmd, a)]
      <4>1. \A a : ContentAfter(dcmd, a) \in {mem[a], Foreign}
        BY <1>6 DEF ContentAfter
      <4> HIDE DEF ContentAfter
      <4>2. \A a \in DOMAIN mem : mem'[a] = ContentAfter(dcmd, a)
        BY <3>3
      <4>3. DOMAIN mem' = DOMAIN mem
        BY <3>3
      <4> QED
        BY <3>3, <4>1, <4>2, <4>3
    <3> QED
      BY <3>2, <3>3 DEF DeviceExecutes
  <2> QED
    BY <1>3, <2>2, <2>3, MemoryUntouched
<1>7. CASE dtoken # 0
  <2>1. dcmd = Issued(dtoken)
    <3>1. dtoken > 0
      BY <1>1, <1>7, SMT
    <3> QED
      BY <3>1 DEF MemInv, SentInv, SentAsPlanned
  <2>2. dtoken < f \/ (dtoken - f) + 1 \notin 1 .. n
    <3>1. (dtoken - f) + 1 \in Int /\ dtoken = f + (((dtoken - f) + 1) - 1)
      BY <1>1, <1>5, SMT
    <3> QED
      BY <1>4, <1>5, <3>1
  <2>3. dcmd.id \in {"EXIT_XIP", "EXEC"}
    BY <1>4, <1>5, <2>1, <2>2 DEF Issued, ExitXip, NoCommand, Exec
  <2>4. mem' = mem
    BY <2>3 DEF DeviceExecutes
  <2>5. \A k \in 1 .. n : f + (k - 1) \in executed' <=> f + (k - 1) \in executed
    <3>1. \A k \in 1 .. n : f + (k - 1) # dtoken
      BY <1>4, <1>5
    <3> QED
      BY <1>2, <3>1
  <2>6. Done' = Done
    BY <1>3, <1>4, <1>5, <2>5, Zenon DEF Done
  <2> QED
    BY <1>2, <2>4, <2>6, MemoryKept
<1> QED
  BY <1>6, <1>7

\* The memory follows the script in every step.
LEMMA MemNextInv == MemInv /\ [Next]_vars => MemInv'
<1> SUFFICES ASSUME MemInv, [Next]_vars PROVE MemInv'
  OBVIOUS
<1>1. SentInv /\ SentInv'
  BY SentNextInv DEF MemInv
<1>2. CASE DeviceExecutes
  <2>1. MemoryInv'
    BY <1>1, <1>2, CommandKeepsMemory, OtherExecution
  <2> QED
    BY <1>1, <2>1 DEF MemInv, MemoryInv
<1>3. CASE Plan
  <2>1. executed = {} /\ executed' = executed /\ mem' = mem
    BY <1>1, <1>3, NothingCarriedOut
    DEF Plan, linkVars, deviceVars, SentInv, LoaderInv, NothingSent
  <2>2. layout' = layout
    BY <1>3 DEF Plan, PlanNext, ReadElf, RejectElf, FinishPlan, PlanSegment,
       SkipSegment, RejectSegment, RamSegment, MirrorSegment, SkipFlashSegment,
       FlashSegment, HasContent, Throw, input, layout
  <2>3. /\ \A k \in DOMAIN Script : k \notin Done
        /\ \A k \in DOMAIN Script' : k \notin Done'
    BY <2>1 DEF Done
  <2>4. MemoryInv'
    <3>1. mem = [a \in DOMAIN mem |-> mem[a]]
      BY DEF MemInv
    <3> QED
      BY <2>1, <2>2, <2>3, <3>1, MemoryUntouched
  <2> QED
    BY <1>1, <2>4 DEF MemInv, MemoryInv
<1>4. CASE UNCHANGED <<planVars, mem, executed>>
  <2>1. Script' = Script /\ FirstToken' = FirstToken
    BY <1>4, SameScript
  <2>2. Done' = Done
    BY <1>4, <2>1 DEF Done
  <2>3. MemoryInv'
    BY <1>4, <2>2, MemoryKept
  <2> QED
    BY <1>1, <2>3 DEF MemInv, MemoryInv
<1>5. DeviceExecutes \/ Plan \/ UNCHANGED <<planVars, mem, executed>>
  <2>1. CASE HostTransfer
    <3>1. executed' = executed
      BY <2>1 DEF HostTransfer, TransferSucceeds, TransferFails, TransferBreaks,
         Transfer, TakesCommand, TakesData, GivesAck, deviceVars
    <3> QED
      BY <2>1, <3>1 DEF HostTransfer
  <2>2. CASE CallExitXip \/ CallNext \/ CallExec \/ AfterExitXip \/ AfterNext
             \/ AfterExec
    BY <2>2 DEF CallExitXip, CallNext, CallExec, AfterExitXip, AfterNext, AfterExec,
       Call, Resume, deviceVars
  <2>3. CASE FindDevice \/ PlanEnds \/ ScriptEnds \/ QueryStatus \/ Close
             \/ UNCHANGED vars
    BY <2>3 DEF FindDevice, PlanEnds, ScriptEnds, QueryStatus, Close, vars,
       linkVars, deviceVars
  <2>4. CASE ResetInterface \/ DeviceRejects \/ DeviceUnplugged
    BY <2>4 DEF ResetInterface, IfReset, DeviceRejects, Reject, DeviceUnplugged,
       Unplug, linkVars, deviceVars
  <2> QED
    BY <2>1, <2>2, <2>3, <2>4 DEF Next, HostStep, DeviceStep
<1> QED
  BY <1>2, <1>3, <1>4, <1>5

LEMMA MemInit == Init => MemInv
<1> SUFFICES ASSUME Init PROVE MemInv
  OBVIOUS
<1>1. SentInv
  BY SentInit
<1>2. executed = {} /\ mem = [a \in FlashAddress \cup SramAddress |-> Old]
  BY DEF Init, LinkInit
<1>3. Done = {}
  BY <1>2 DEF Done
<1>4. Old \in Byte
  BY DEF Old, Byte
<1> QED
  BY <1>1, <1>2, <1>3, <1>4 DEF MemInv, DoneIsAcceptable, MemoryFollowsScript

\* What is known of the memory holds in every state.
LEMMA MemoryInvariant == Spec => []MemInv
  BY MemInit, MemNextInv, PTL DEF Spec

\* What was carried out is a beginning of the script, all of it acceptable.
LEMMA DoneUpTo ==
  ASSUME MemInv, NEW k \in Done
  PROVE  Accepted(k) /\ k \in DOMAIN Script /\ \A l \in DOMAIN Script : l <= k => l \in Done
<1>1. PICK n \in Nat : n = Len(Script) /\ DOMAIN Script = 1 .. n
  BY ScriptNumbers DEF MemInv, SentInv
<1>2. PICK f \in {1, 2} : f = FirstToken
  BY ScriptNumbers DEF MemInv, SentInv
<1>3. k \in 1 .. n /\ f + (k - 1) \in executed
  BY <1>1, <1>2 DEF Done
<1>4. f .. f + (k - 1) \subseteq executed
  BY <1>2, <1>3 DEF MemInv, SentInv, LoaderInv, PrefixCarriedOut, FirstToken
<1>5. ASSUME NEW l \in 1 .. n, l <= k PROVE l \in Done
  <2>1. f + (l - 1) \in f .. f + (k - 1)
    BY <1>2, <1>3, <1>5, SMT
  <2> QED
    BY <1>1, <1>2, <1>4, <2>1 DEF Done
<1> QED
  BY <1>1, <1>3, <1>5 DEF Accepted, MemInv, DoneIsAcceptable

\* No flash byte is ever programmed twice or without an erase: for every image,
\* every memory map and whatever fails, times out or finishes late.
THEOREM NoByteIsMixed == Spec => []NothingMixed
<1>1. MemInv => NothingMixed
  <2> SUFFICES ASSUME MemInv, NEW a \in DOMAIN mem PROVE mem[a] # Mixed
    BY DEF NothingMixed
  <2>1. a \in Int
    BY MemoryNumbers DEF MemInv
  <2>2. CASE mem[a] \in {Old, Foreign}
    BY <2>2 DEF Old, Foreign, Mixed
  <2>3. ASSUME NEW k \in Done, LastTouch(k, a), mem[a] = Leaves(k, a)
        PROVE  mem[a] # Mixed
    <3>1. k \in DOMAIN Script /\ Touches(k, a) /\ PlanFacts
      BY <2>3 DEF Done, LastTouch, MemInv, SentInv
    <3>2. Accepted(k)
      BY DoneUpTo
    <3> QED
      BY <2>1, <2>3, <3>1, <3>2, LeavesByte
  <2> QED
    BY <2>2, <2>3 DEF MemInv, MemoryFollowsScript
<1> QED
  BY <1>1, MemoryInvariant, PTL

\* A segment that was sent to the flash claims its bytes at their own address.
LEMMA SeenClaims ==
  ASSUME PlanFacts, NEW i \in FlashSeen, NEW a
  PROVE  /\ i \in LoadedSegments /\ Target(i) = segment_address(image.segments[i])
         /\ i \in Claims(a) <=> Covers(i, a)
<1>1. 1 .. next - 1 \subseteq DOMAIN image.segments
  BY DEF PlanFacts, PageInv, SeenIsImages
<1>2. i \in LoadedSegments /\ Target(i) = segment_address(image.segments[i])
  BY <1>1 DEF FlashSeen, LoadedSegments, Mirrored, Target
<1> QED
  BY <1>2 DEF Claims, Covers

\* An erase the device accepts is of flash, and of a sector with a byte of the image.
LEMMA EraseHasClaim ==
  ASSUME PlanFacts, NEW m, IsErase(m, m), Acceptable(Script[m]),
         NEW a \in Int, Touches(m, a)
  PROVE  /\ allow_flash /\ a \in FlashAddress
         /\ \E b \in align_down(a, SectorSize) ..
                     align_down(a, SectorSize) + SectorSize - 1 : Claims(b) # {}
<1>1. /\ m \in DOMAIN MergedRanges /\ Script[m].id = "FLASH_ERASE"
      /\ Script[m].addr = MergedRanges[m].start
      /\ In(a, MergedRanges[m])
  BY EraseBytes
<1>2. /\ Script[m].addr % SectorSize = 0
      /\ Bytes(Script[m]) \subseteq FlashAddress
  BY <1>1 DEF Acceptable
<1>3. a \in FlashAddress /\ a \in Nat
  BY <1>2, MemoryNumbers DEF Touches
<1>4. PICK from \in Nat, to \in Nat :
        from = MergedRanges[m].start /\ to = MergedRanges[m].end
  BY <1>1, EraseFacts
<1>5. from <= a /\ a < to /\ from % SectorSize = 0
  BY <1>1, <1>2, <1>4 DEF In
<1>6. PICK n \in Nat \ {0} : n = SectorSize
  BY MapNumbers
<1>7. PICK sector : sector = align_down(a, n)
  OBVIOUS
<1>8. sector \in Nat /\ sector <= a /\ \E k \in Nat : sector = n * k
  BY <1>3, <1>7, AlignDown
<1>9. sector % n = 0
  <2>1. PICK k \in Nat : sector = n * k
    BY <1>8
  <2> QED
    BY <2>1, Remainder
<1>10. from <= sector
  <2>1. PICK k \in Nat : from = n * k
    <3>1. align_down(from, n) = from
      BY <1>5, <1>6, SMT DEF align_down
    <3> QED
      BY <3>1, AlignDown
  <2>2. n * k <= align_down(a, n)
    BY <1>3, <1>5, <2>1, AlignDownIsGreatest
  <2> QED
    BY <1>7, <2>1, <2>2
<1>11. sector \in {x \in from .. to - 1 : x % SectorSize = 0}
  BY <1>5, <1>6, <1>8, <1>9, <1>10
<1>12. EraseIsTight
  BY RangesAreTight DEF PlanFacts, PageInv
<1>13. PICK b \in sector .. sector + SectorSize - 1, i \in FlashSeen : Covers(i, b)
  BY <1>1, <1>4, <1>11, <1>12 DEF EraseIsTight, MergedRanges
<1>14. i \in Claims(b)
  BY <1>13, SeenClaims
<1>15. allow_flash
  BY DEF FlashSeen
<1> QED
  BY <1>3, <1>6, <1>7, <1>13, <1>14, <1>15

\* At no time has a byte changed, but to what a killed run's command makes of it,
\* that is neither claimed by the image nor, with --flash, in a sector of a byte
\* that is: whatever fails, is rejected or finishes late.
THEOREM ForeignDataIsLeftAlone == Spec => []ForeignDataSurvives
<1>1. MemInv => ForeignDataSurvives
  <2> SUFFICES ASSUME MemInv, NEW a \in DOMAIN mem, mem[a] \notin {Old, Foreign}
               PROVE  \/ Claims(a) # {}
                      \/ /\ allow_flash /\ a \in FlashAddress
                         /\ \E b \in align_down(a, SectorSize) ..
                              align_down(a, SectorSize) + SectorSize - 1 : Claims(b) # {}
    BY DEF ForeignDataSurvives
  <2>1. a \in Int
    BY MemoryNumbers DEF MemInv
  <2>2. PICK k \in Done : LastTouch(k, a)
    BY DEF MemInv, MemoryFollowsScript
  <2>3. k \in DOMAIN Script /\ Touches(k, a) /\ PlanFacts /\ Accepted(k)
    BY <2>2, DoneUpTo DEF LastTouch, MemInv, SentInv
  <2>4. \A m \in DOMAIN Script : m <= k => Acceptable(Script[m])
    BY <2>3 DEF Accepted
  <2>5. DOMAIN Script \subseteq Nat
    BY <2>3, ScriptIsTyped
  <2>6. CASE \E s, c : IsChunk(k, s, c)
    BY <2>1, <2>3, <2>6, ChunkBytes
  <2>7. CASE \E m : IsErase(k, m)
    <3>1. IsErase(k, k) /\ k <= k
      BY <2>3, <2>5, <2>7 DEF IsErase
    <3> QED
      BY <2>1, <2>3, <2>4, <3>1, EraseHasClaim
  <2>8. CASE \E b : IsPage(k, b)
    <3>1. PICK m : IsErase(m, m) /\ m \in DOMAIN Script /\ m < k /\ Touches(m, a)
      BY <2>1, <2>3, <2>8, PageErased
    <3>2. Acceptable(Script[m])
      <4>1. m <= k
        BY <2>3, <2>5, <3>1, SMT
      <4> QED
        BY <2>4, <3>1, <4>1
    <3> QED
      BY <2>1, <2>3, <3>1, <3>2, EraseHasClaim
  <2> QED
    BY <2>3, <2>6, <2>7, <2>8, ScriptKinds
<1> QED
  BY <1>1, MemoryInvariant, PTL

\* The segments that are loaded are those that were seen, when all were.
LEMMA LoadedAreSeen ==
  ASSUME PlanFacts, plan = "planned", NEW i \in LoadedSegments
  PROVE  i \in FlashSeen \/ i \in RamSeen
<1>1. i \in 1 .. next - 1
  BY DEF LoadedSegments, PlanFacts, WholeImage
<1> QED
  BY <1>1 DEF LoadedSegments, FlashSeen, RamSeen, GoesToRam, Mirrored

\* Of the segments that claim an address, the last one gives the byte.
LEMMA LastImageByte ==
  ASSUME NEW a, NEW i \in Claims(a), Claims(a) \subseteq Nat,
         \A k \in Claims(a) : k <= i
  PROVE  ImageByte(a) = <<i, a - Target(i)>>
<1>1. \A t \in Claims(a) : (\A k \in Claims(a) : k <= t) => t = i
  BY SMT
<1>2. (CHOOSE t \in Claims(a) : \A k \in Claims(a) : k <= t) = i
  BY <1>1
<1> QED
  BY <1>2 DEF ImageByte

\* When all of the script was carried out, the image is in memory.
LEMMA ScriptLoadsImage ==
  ASSUME MemInv, plan = "planned", \A k \in DOMAIN Script : k \in Done
  PROVE  ImageInMemory
<1> SUFFICES ASSUME NEW a \in DOMAIN mem, Claims(a) # {}
             PROVE  mem[a] = ImageByte(a)
  BY DEF ImageInMemory
<1>1. PlanFacts
  BY DEF MemInv, SentInv
<1>2. a \in Int /\ a \in Nat
  BY MemoryNumbers DEF MemInv
<1>3. \A k \in DOMAIN Script : Acceptable(Script[k]) /\ Accepted(k)
  BY DoneUpTo DEF MemInv, DoneIsAcceptable
<1>4. DOMAIN Script \subseteq Nat
  BY <1>1, ScriptIsTyped
<1>5. Claims(a) \subseteq Nat
  <2>1. DOMAIN image.segments \subseteq Nat
    BY <1>1 DEF PlanFacts, PlanInv, PlanTypeOK, Image
  <2> QED
    BY <2>1 DEF Claims, LoadedSegments
\* a claim on the flash is that of a page
<1>6. ASSUME NEW i \in Claims(a), i \in FlashSeen
      PROVE  \E k, b : IsPage(k, b) /\ Touches(k, a) /\ a \in FlashAddress
  <2>1. Covers(i, a)
    BY <1>1, <1>6, SeenClaims
  <2>2. PICK b : b = align_down(a, PageSize) /\ b \in DOMAIN flash_pages
    BY <1>1, <1>2, <1>6, <2>1 DEF PlanFacts, PageInv, ClaimedIsPaged
  <2>3. PICK k : IsPage(k, b)
    BY <1>1, <2>2, ScriptKinds
  <2>4. b <= a /\ a < b + PageSize
    BY <1>2, <2>2, MapNumbers, AlignDown
  <2>5. Touches(k, a) /\ k \in DOMAIN Script
    BY <1>1, <1>2, <2>3, <2>4, PageBytesOf
  <2> QED
    BY <1>1, <1>2, <1>3, <2>3, <2>5, PageErased
\* a claim on the RAM is that of a chunk
<1>7. ASSUME NEW i \in Claims(a), i \in RamSeen
      PROVE  \E k, s, c : /\ IsChunk(k, s, c) /\ Touches(k, a) /\ k \in DOMAIN Script
                          /\ Source(ram_segments[s]) = i /\ s \in DOMAIN ram_segments
                          /\ a \in SramAddress
  <2>1. PICK s \in DOMAIN ram_segments : Source(ram_segments[s]) = i
    BY <1>1, <1>7 DEF PlanFacts, RamFollowsImage
  <2>2. /\ Target(i) = ram_segments[s].addr
        /\ image.segments[i].filez = Len(ram_segments[s].data)
    BY <1>1, <2>1, RamImage
  <2>3. /\ ram_segments[s].addr <= a
        /\ a < ram_segments[s].addr + Len(ram_segments[s].data)
    BY <1>7, <2>2 DEF Claims
  <2>4. PICK k, c : IsChunk(k, s, c) /\ k \in DOMAIN Script /\ Touches(k, a)
    BY <1>1, <1>2, <1>3, <2>3, ChunkForByte
  <2>5. a \in SramAddress
    BY <1>1, <1>2, <1>3, <2>4, ChunkBytes
  <2> QED
    BY <2>1, <2>4, <2>5
<1>8. \A i \in Claims(a) : i \in FlashSeen \/ i \in RamSeen
  BY <1>1, LoadedAreSeen DEF Claims
<1>9. PICK k \in Done : LastTouch(k, a) /\ mem[a] = Leaves(k, a)
  <2>1. \E k \in DOMAIN Script : Touches(k, a)
    BY <1>1, <1>6, <1>7, <1>8, PageBytesOf
  <2> QED
    BY <2>1 DEF MemInv, MemoryFollowsScript
<1>10. /\ k \in DOMAIN Script /\ Touches(k, a) /\ k \in Nat
       /\ \A l \in DOMAIN Script : Touches(l, a) => l <= k
  BY <1>4, <1>9 DEF Done, LastTouch
<1>11. ASSUME NEW l \in DOMAIN Script, k < l, Touches(l, a) PROVE FALSE
  BY <1>4, <1>10, <1>11, SMT
<1>12. CASE a \in FlashAddress
  <2>1. \A i \in Claims(a) : i \in FlashSeen
    BY <1>7, <1>8, <1>12, MemoryNumbers
  <2>2. PICK l, b : IsPage(l, b) /\ Touches(l, a)
    BY <1>6, <2>1
  <2>3. l \in DOMAIN Script
    BY <1>1, <2>2, PageBytesOf
  <2>4. ~ (k < l)
    BY <1>11, <2>2, <2>3
  <2>5. IsPage(k, b)
    <3>1. CASE \E m : IsErase(k, m)
      BY <1>1, <2>2, <2>4, <3>1, ScriptOrder
    <3>2. CASE \E s, c : IsChunk(k, s, c)
      BY <1>1, <2>2, <2>4, <3>2, ScriptOrder
    <3>3. CASE \E c : IsPage(k, c)
      BY <1>1, <1>2, <1>10, <2>2, <3>3, PagesAreApart
    <3> QED
      BY <1>1, <1>10, <3>1, <3>2, <3>3, ScriptKinds
  <2>6. mem[a] = LastByteAt(FlashSeen, a)
    BY <1>1, <1>2, <1>9, <1>10, <2>5, PageLeaves
  <2>7. Claims(a) = {i \in FlashSeen : Covers(i, a)}
    BY <1>1, <2>1, SeenClaims
  <2>8. LastByteAt(FlashSeen, a) = ImageByte(a)
    <3>1. PICK top : top = CHOOSE i \in Claims(a) : \A j \in Claims(a) : j <= i
      OBVIOUS
    <3>2. PICK i \in Claims(a) : \A j \in Claims(a) : j <= i
      <4>1. PICK n \in Nat : Claims(a) \in SUBSET (0 .. n)
        <5>1. /\ Claims(a) \subseteq 1 .. next - 1 /\ next - 1 \in Nat
          BY <1>1, <2>1 DEF FlashSeen, PlanFacts, PlanInv, PlanTypeOK
        <5>2. Claims(a) \in SUBSET (0 .. next - 1)
          BY <5>1, SMT
        <5> QED
          BY <5>1, <5>2
      <4> QED
        BY <4>1, LastNumber
    <3>3. ImageByte(a) = <<i, a - Target(i)>>
      BY <1>5, <3>2, LastImageByte
    <3>4. /\ i \in FlashSeen /\ Covers(i, a)
          /\ \A j \in FlashSeen : Covers(j, a) => j <= i
      BY <2>7, <3>2
    <3>5. FlashSeen \in SUBSET Nat
      BY <1>1 DEF FlashSeen, PlanFacts, PlanInv, PlanTypeOK
    <3>6. LastByteAt(FlashSeen, a) = <<i, a - segment_address(image.segments[i])>>
      BY <3>4, <3>5, LastClaim
    <3>7. Target(i) = segment_address(image.segments[i])
      BY <1>1, <3>4, SeenClaims
    <3> QED
      BY <3>3, <3>6, <3>7
  <2> QED
    BY <2>6, <2>8
<1>13. CASE a \in SramAddress
  <2>1. \A i \in Claims(a) : i \in RamSeen
    BY <1>6, <1>8, <1>13, MemoryNumbers
  <2>2. PICK l, t, d : /\ IsChunk(l, t, d) /\ Touches(l, a) /\ l \in DOMAIN Script
    BY <1>7, <2>1
  <2>3. ~ (k < l)
    BY <1>11, <2>2
  <2>4. PICK s, c : IsChunk(k, s, c)
    <3>1. CASE \E m : IsErase(k, m)
      BY <1>1, <2>2, <2>3, <3>1, ScriptOrder
    <3>2. CASE \E b : IsPage(k, b)
      BY <1>1, <1>2, <1>3, <1>10, <1>13, <3>2, PageErased, MemoryNumbers
    <3> QED
      BY <1>1, <1>10, <3>1, <3>2, ScriptKinds
  <2>5. PICK i : i = Source(ram_segments[s])
    OBVIOUS
  <2>6. /\ i \in Claims(a) /\ s \in DOMAIN ram_segments
        /\ Leaves(k, a) = <<i, a - Target(i)>>
    BY <1>1, <1>2, <1>3, <1>10, <2>4, <2>5, ChunkBytes
  <2>7. ASSUME NEW j \in Claims(a) PROVE j <= i
    <3>1. PICK m, r, e : /\ IsChunk(m, r, e) /\ Touches(m, a) /\ m \in DOMAIN Script
                         /\ Source(ram_segments[r]) = j /\ r \in DOMAIN ram_segments
      BY <1>7, <2>1
    <3>2. ~ (k < m)
      BY <1>11, <3>1
    <3>3. ~ (s < r)
      BY <1>1, <2>4, <3>1, <3>2, ScriptOrder
    <3>4. s \in Nat /\ r \in Nat
      BY <1>1, <2>6, <3>1 DEF PlanFacts, PlanInv, PlanTypeOK
    <3>5. r = s \/ r < s
      BY <3>3, <3>4, SMT
    <3>6. r < s => j < i
      BY <1>1, <2>5, <2>6, <3>1 DEF PlanFacts, RamFollowsImage
    <3>7. i \in Nat /\ j \in Nat
      BY <1>5, <2>6
    <3> QED
      BY <2>5, <3>1, <3>5, <3>6, <3>7
  <2>8. ImageByte(a) = <<i, a - Target(i)>>
    BY <1>5, <2>6, <2>7, LastImageByte
  <2> QED
    BY <1>9, <2>6, <2>8
<1> QED
  BY <1>12, <1>13 DEF MemInv

\* Exit code 0 means that every byte of the image is where the image wants it,
\* whatever timed out, broke or was rejected on the way: for every image, every
\* memory map, every page, sector and chunk size and any number of faults.
THEOREM SuccessMeansLoaded == Spec => []LoadCompleteMeansLoaded
<1>1. MemInv => LoadCompleteMeansLoaded
  <2> SUFFICES ASSUME MemInv, Succeeded PROVE ImageInMemory
    BY DEF LoadCompleteMeansLoaded
  <2>1. Finished
    BY DEF Succeeded, Finished
  <2> QED
    BY <2>1, ScriptLoadsImage DEF MemInv, SentInv, AllDone
<1> QED
  BY <1>1, MemoryInvariant, PTL

\* No program is ever started on a memory that does not hold the whole image.
THEOREM StartsFindTheImage == Spec => StartsOnLoadedMemory
<1>1. ASSUME MemInv, MemInv', [Next]_vars, started' # started
      PROVE  ImageInMemory
  <2>1. SentInv /\ SentInv'
    BY <1>1 DEF MemInv
  <2>2. DeviceExecutes /\ dcmd.id = "EXEC" /\ dtoken # 0
    BY <1>1 DEF Next, vars, HostStep, DeviceStep, FindDevice, ResetInterface, Plan,
         PlanEnds, CallExitXip, AfterExitXip, CallNext, AfterNext, ScriptEnds,
         CallExec, AfterExec, QueryStatus, Close, HostTransfer, DeviceExecutes,
         DeviceRejects, DeviceUnplugged
  <2>3. PICK n \in Nat : n = Len(Script) /\ DOMAIN Script = 1 .. n
    BY <2>1, ScriptNumbers DEF SentInv
  <2>4. PICK f \in {1, 2} : f = FirstToken
    BY <2>1, ScriptNumbers DEF SentInv
  <2>5. /\ dtoken \in Nat \ {0} /\ dtoken > 0 /\ dtoken < token /\ token \in Nat
    BY <2>1, <2>2, SMT DEF SentInv, LoaderInv, LinkInv, LinkTypes, TokensInOrder
  <2>6. dcmd = Issued(dtoken)
    BY <2>1, <2>5 DEF SentInv, SentAsPlanned
  <2>7. ~ (dtoken < f) /\ (dtoken - f) + 1 \notin 1 .. n
    <3>1. CASE dtoken < f
      BY <2>2, <2>4, <2>6, <3>1 DEF Issued, ExitXip, NoCommand
    <3>2. CASE ~ (dtoken < f) /\ (dtoken - f) + 1 \in 1 .. n
      <4>1. dcmd = Script[(dtoken - f) + 1]
        BY <2>3, <2>4, <2>6, <3>2 DEF Issued
      <4>2. dcmd.id \in {"FLASH_ERASE", "WRITE"}
        BY <2>1, <2>3, <3>2, <4>1, ScriptCommands DEF SentInv
      <4> QED
        BY <2>2, <4>2
    <3> QED
      BY <3>1, <3>2
  <2>8. /\ executed' = executed \cup {dtoken} /\ UNCHANGED planVars
    BY <2>2 DEF DeviceExecutes, Execute
  <2>9. FirstToken' = f
    BY <2>4, <2>8, SameScript
  <2>10. f .. dtoken \subseteq executed'
    BY <2>1, <2>8, <2>9 DEF SentInv, LoaderInv, PrefixCarriedOut, FirstToken
  <2>11. \A k \in 1 .. n : f + (k - 1) \in f .. dtoken /\ f + (k - 1) # dtoken
    BY <2>3, <2>4, <2>5, <2>7, SMT
  <2>12. \A k \in DOMAIN Script : k \in Done
    BY <2>3, <2>4, <2>8, <2>10, <2>11 DEF Done
  <2>13. plan = "planned"
    <3>1. token # 1
      BY <2>5, SMT
    <3> QED
      BY <2>1, <3>1 DEF SentInv, UnplannedUnsent
  <2> QED
    BY <1>1, <2>12, <2>13, ScriptLoadsImage
<1>2. MemInv /\ MemInv' /\ [Next]_vars => [started' # started => ImageInMemory]_vars
  BY <1>1
<1> QED
  BY <1>2, MemoryInvariant, PTL DEF Spec, StartsOnLoadedMemory

-----------------------------------------------------------------------------
(* LoaderTypeOK: what the sections above have not typed yet.               *)
RestTyped ==
  /\ exec_after \in BOOLEAN
  /\ op \in Nat \ {0}
  /\ result \in {"ok", "failed"}
  /\ open \in BOOLEAN
  /\ cmd \in Command /\ dcmd \in Command
  /\ dcode \in {"ok", "error"}
  /\ started \subseteq Nat
  /\ faults \in 0 .. MaxFaults

\* Whatever is called is a command.
LEMMA CalledIsCommand ==
  ASSUME PlanFacts
  PROVE  /\ ExitXip \in Command /\ Exec(exec_addr) \in Command
         /\ \A k \in DOMAIN Script : Script[k] \in Command
<1>1. <<>> \in Seq(Nat \X Nat)
  OBVIOUS
<1>2. ExitXip \in Command
  BY <1>1 DEF ExitXip, NoCommand, Command, CommandId
<1>3. exec_addr \in Nat
  <2>1. /\ image.entry \in Address /\ Address \subseteq Nat
    BY MapNumbers DEF PlanFacts, PlanInv, PlanTypeOK, Image, Address
  <2>2. FlashStart <= image.entry => sram_mirror(image.entry) \in Nat
    <3>1. PICK e \in Nat : e = image.entry
      BY <2>1
    <3>2. FlashStart <= e => (SramStart + (e - FlashStart)) % Word \in Nat
      BY MapNumbers, SMT
    <3> QED
      BY <3>1, <3>2 DEF sram_mirror, Plus
  <2> QED
    BY <2>1, <2>2 DEF exec_addr, entry_in_flash, is_flash_address
<1>4. Exec(exec_addr) \in Command
  BY <1>1, <1>3 DEF Exec, Command, CommandId
<1>5. ASSUME NEW k \in DOMAIN Script PROVE Script[k] \in Command
  <2>1. Script[k] \in ScriptCommand
    BY <1>5, ScriptCommands
  <2>2. ScriptCommand \subseteq Command
    BY DEF ScriptCommand, Command, CommandId, Byte
  <2> QED
    BY <2>1, <2>2
<1> QED
  BY <1>2, <1>4, <1>5

\* The device's and the host's commands stay commands.
LEMMA CommandsStayTyped ==
  ASSUME MemInv, RestTyped, [Next]_vars
  PROVE  cmd' \in Command /\ dcmd' \in Command /\ dcode' \in {"ok", "error"}
<1> USE DEF RestTyped
<1>1. PlanFacts /\ SentInv
  BY DEF MemInv, SentInv
<1>2. ASSUME NEW c \in Command, Call(c)
      PROVE  cmd' \in Command /\ dcmd' \in Command /\ dcode' \in {"ok", "error"}
  BY <1>2 DEF Call, deviceVars
<1>3. CASE CallExitXip
  BY <1>1, <1>2, <1>3, CalledIsCommand DEF CallExitXip
<1>4. CASE CallNext
  <2>1. PICK n \in Nat : n = Len(Script) /\ DOMAIN Script = 1 .. n
    BY <1>1, ScriptNumbers
  <2>2. op \in DOMAIN Script
    BY <1>4, <2>1 DEF CallNext
  <2> QED
    BY <1>1, <1>2, <1>4, <2>2, CalledIsCommand DEF CallNext
<1>5. CASE CallExec
  BY <1>1, <1>2, <1>5, CalledIsCommand DEF CallExec
<1>6. CASE HostTransfer
  <2>1. cmd' = cmd
    BY <1>6 DEF HostTransfer, TransferSucceeds, TransferFails, TransferBreaks, Fails
  <2>2. dcmd' \in {dcmd, cmd} /\ dcode' \in {dcode, "ok", "error"}
    BY <1>6 DEF HostTransfer, TransferSucceeds, TransferFails, TransferBreaks,
       Transfer, TakesCommand, TakesData, GivesAck, deviceVars
  <2> QED
    BY <2>1, <2>2
<1>7. CASE ResetInterface \/ DeviceStep
  BY <1>7 DEF ResetInterface, IfReset, DeviceStep, DeviceExecutes, Execute,
     DeviceRejects, Reject, DeviceUnplugged, Unplug, linkVars, hostVars, deviceVars
<1>8. CASE AfterExitXip \/ AfterNext \/ AfterExec
  BY <1>8 DEF AfterExitXip, AfterNext, AfterExec, Resume, deviceVars
<1>9. CASE FindDevice \/ Plan \/ PlanEnds \/ ScriptEnds \/ QueryStatus \/ Close
           \/ UNCHANGED vars
  BY <1>9 DEF FindDevice, Plan, PlanEnds, ScriptEnds, QueryStatus, Close, vars,
     linkVars, hostVars, deviceVars
<1> QED
  BY <1>3, <1>4, <1>5, <1>6, <1>7, <1>8, <1>9 DEF Next, HostStep

\* What RestTyped says is kept.
LEMMA RestStaysTyped ==
  ASSUME MemInv, RestTyped, [Next]_vars
  PROVE  RestTyped'
<1> USE DEF RestTyped, Goto
<1>1. cmd' \in Command /\ dcmd' \in Command /\ dcode' \in {"ok", "error"}
  BY CommandsStayTyped
<1>2. exec_after' = exec_after
  BY DEF Next, HostStep, DeviceStep, vars, mainVars, FindDevice, ResetInterface,
     Plan, PlanEnds, CallExitXip, AfterExitXip, CallNext, AfterNext, ScriptEnds,
     CallExec, AfterExec, QueryStatus, Close, HostTransfer, DeviceExecutes,
     DeviceRejects, DeviceUnplugged
<1>3. op' \in {op, op + 1}
  BY DEF Next, HostStep, DeviceStep, vars, mainVars, FindDevice, ResetInterface,
     Plan, PlanEnds, CallExitXip, AfterExitXip, CallNext, AfterNext, ScriptEnds,
     CallExec, AfterExec, QueryStatus, Close, HostTransfer, DeviceExecutes,
     DeviceRejects, DeviceUnplugged
<1>4. result' \in {result, "ok", "failed"} /\ open' \in {open, TRUE, FALSE}
  BY DEF Next, HostStep, DeviceStep, vars, mainVars, FindDevice, ResetInterface,
     Plan, PlanEnds, CallExitXip, AfterExitXip, CallNext, AfterNext, ScriptEnds,
     CallExec, AfterExec, QueryStatus, Close, HostTransfer, DeviceExecutes,
     DeviceRejects, DeviceUnplugged
<1>5. started' \in {started, started \cup {dcmd.addr}}
  BY DEF Next, HostStep, DeviceStep, vars, mainVars, FindDevice, ResetInterface,
     Plan, PlanEnds, CallExitXip, AfterExitXip, CallNext, AfterNext, ScriptEnds,
     CallExec, AfterExec, QueryStatus, Close, HostTransfer, DeviceExecutes,
     DeviceRejects, DeviceUnplugged
<1>6. faults' = faults \/ Fault
  BY DEF Next, HostStep, DeviceStep, vars, mainVars, FindDevice, ResetInterface,
     Plan, PlanEnds, CallExitXip, AfterExitXip, CallNext, AfterNext, ScriptEnds,
     CallExec, AfterExec, QueryStatus, Close, HostTransfer, DeviceExecutes,
     DeviceRejects, DeviceUnplugged, NoFault
<1>7. faults' \in 0 .. MaxFaults
  BY <1>6, FaultsAreBounded, SMT DEF Fault
<1>8. op' \in Nat \ {0}
  BY <1>3, SMT
<1>9. started' \subseteq Nat
  <2>1. dcmd.addr \in Nat
    BY DEF Command
  <2> QED
    BY <1>5, <2>1
<1> QED
  BY <1>1, <1>2, <1>4, <1>7, <1>8, <1>9

\* Every variable of the loader, the device's memory included, keeps its type.
THEOREM LoaderIsTyped == Spec => []LoaderTypeOK
<1>1. Init => RestTyped
  <2> SUFFICES ASSUME Init PROVE RestTyped
    OBVIOUS
  <2>1. NoCommand \in Command
    BY DEF NoCommand, Command, CommandId
  <2>2. cmd \in Command /\ dcmd \in Command /\ dcode \in {"ok", "error"}
    BY <2>1, LeftoversAreCommands, Zenon DEF Init, LinkInit
  <2>3. /\ exec_after \in BOOLEAN /\ op = 1 /\ result = "ok" /\ open = FALSE
        /\ started = {} /\ faults = 0
    BY DEF Init
  <2>4. faults \in 0 .. MaxFaults
    BY <2>3, FaultsAreBounded, SMT
  <2>5. op \in Nat \ {0} /\ result \in {"ok", "failed"} /\ started \subseteq Nat
    BY <2>3
  <2>6. open \in BOOLEAN
    BY <2>3, Zenon
  <2> QED
    BY <2>2, <2>3, <2>4, <2>5, <2>6, Zenon DEF RestTyped
<1>2. MemInv /\ RestTyped /\ [Next]_vars => RestTyped'
  BY RestStaysTyped
<1>3. MemInv /\ RestTyped => LoaderTypeOK
  BY DEF MemInv, SentInv, PlanFacts, PlanInv, LoaderInv, LinkInv, LinkTypes,
     RestTyped, LoaderTypeOK, LinkTypeOK, Places, Working
<1> QED
  BY <1>1, <1>2, <1>3, MemoryInvariant, PTL DEF Spec

=============================================================================
