-------------------------- MODULE DeviceScanProofs --------------------------
(***************************************************************************)
(* The scans of both tools hold exactly what they matched, for every list  *)
(* of devices and interfaces and every handle that cannot be opened.       *)
(*                                                                         *)
(* The invariant says which handles may be matched at all: those of the    *)
(* device the inner loop is in, below the interface it looks at next, and  *)
(* none while the outer loop runs.  That an interface is not matched twice *)
(* rests on ResetInterfaceIsTheSdks.                                       *)
(***************************************************************************)
EXTENDS DeviceScan, TLAPS

\* nothing is matched between two devices; what is matched was looked at
MatchesAreBehind ==
  /\ phase \in {"devices", "none"} => picoboot = 0 /\ reset = 0
  /\ phase = "interfaces" => picoboot < iface /\ reset < iface

\* a match is an interface of the device, and of the kind it is kept as
MatchesFit ==
  phase \in {"interfaces", "found", "closed"} =>
    /\ picoboot # 0 => picoboot \in DOMAIN interfaces /\ is_picoboot(picoboot)
    /\ reset # 0 => reset \in DOMAIN interfaces /\ is_reset(reset)

HandlesAreAll ==
  DOMAIN opened = UNION {{d} \X (0 .. Len(bus[d].interfaces)) : d \in DOMAIN bus}

ScanInv ==
  /\ ScanTypeOK
  /\ HandlesAreAll
  /\ MatchesAreBehind
  /\ MatchesFit
  /\ HoldsWhatItMatched

\* The registry's list as a sequence of devices, each with its interfaces.
LEMMA BusIsABus ==
  ASSUME bus \in Buses
  PROVE  /\ bus \in Seq(UsbDevice)
         /\ Len(bus) \in Nat /\ DOMAIN bus = 1 .. Len(bus)
         /\ \A d \in DOMAIN bus :
              /\ bus[d].interfaces \in Seq(Interface)
              /\ Len(bus[d].interfaces) \in Nat
              /\ DOMAIN bus[d].interfaces = 1 .. Len(bus[d].interfaces)
<1>1. bus \in Seq(UsbDevice)
  BY BusesAreBuses
<1>2. ASSUME NEW d \in DOMAIN bus PROVE bus[d].interfaces \in Seq(Interface)
  <2>1. bus[d] \in UsbDevice
    BY <1>1
  <2> QED
    BY <2>1 DEF UsbDevice
<1> QED
  BY <1>1, <1>2

\* The handles of a device on the bus are handles.
LEMMA HandlesOfDevice ==
  ASSUME ScanInv, NEW d \in DOMAIN bus
  PROVE  /\ <<d, 0>> \in DOMAIN opened
         /\ \A i \in DOMAIN bus[d].interfaces : <<d, i>> \in DOMAIN opened
<1>1. bus \in Buses
  BY DEF ScanInv, ScanTypeOK
<1>2. /\ 0 \in 0 .. Len(bus[d].interfaces)
      /\ DOMAIN bus[d].interfaces \subseteq 0 .. Len(bus[d].interfaces)
  BY <1>1, BusIsABus
<1> QED
  BY <1>2 DEF ScanInv, HandlesAreAll

\* No interface is both the reset interface and the PICOBOOT interface, and a
\* device has one reset interface.
LEMMA MatchesDiffer ==
  ASSUME bus \in Buses, device \in DOMAIN bus,
         NEW i \in DOMAIN interfaces, NEW k \in DOMAIN interfaces, is_reset(i)
  PROVE  /\ ~ is_picoboot(i)
         /\ is_reset(k) => k = i
  BY ResetInterfaceIsTheSdks DEF is_reset, is_picoboot, interfaces

LEMMA ScanInitInv == ScanInit => ScanInv
<1> SUFFICES ASSUME ScanInit PROVE ScanInv
  OBVIOUS
<1> USE DEF ScanInit
<1>1. /\ bus \in Seq(UsbDevice)
      /\ Len(bus) \in Nat /\ DOMAIN bus = 1 .. Len(bus)
      /\ \A d \in DOMAIN bus : Len(bus[d].interfaces) \in Nat
  BY BusIsABus
<1>2. DOMAIN opened \subseteq (1 .. Len(bus)) \X Nat
  BY <1>1
<1>3. opened \in [DOMAIN opened -> Int] /\ device \in 1 .. Len(bus) + 1
  BY <1>1
<1> QED
  BY <1>2, <1>3 DEF ScanInv, ScanTypeOK, HandlesAreAll, MatchesAreBehind,
     MatchesFit, HoldsWhatItMatched

\* Steps that look at a device or an interface and open nothing.
LEMMA LookingKeepsInv ==
  ASSUME ScanInv, \/ SkipDevice \/ RefuseDevice \/ NotFound
                  \/ SkipInterface \/ RefuseInterface
  PROVE  ScanInv'
<1>1. /\ bus \in Buses /\ Len(bus) \in Nat /\ DOMAIN bus = 1 .. Len(bus)
      /\ device \in 1 .. Len(bus) + 1 /\ iface \in Nat \ {0}
      /\ picoboot \in Nat /\ reset \in Nat
  BY BusIsABus DEF ScanInv, ScanTypeOK
<1>2. CASE SkipDevice \/ RefuseDevice \/ NotFound
  <2>1. /\ phase = "devices" /\ phase' \in {"devices", "none"}
        /\ device' \in {device, device + 1}
        /\ device' = device + 1 => device <= Len(bus)
        /\ UNCHANGED <<tool, bus, iface, picoboot, reset, opened>>
    BY <1>1, <1>2 DEF SkipDevice, RefuseDevice, NotFound, AtDevice, matchVars
  <2>2. device' \in 1 .. Len(bus) + 1
    BY <1>1, <2>1, SMT
  <2>3. refused' \subseteq DOMAIN opened
    <3>1. CASE RefuseDevice
      <4>1. device \in DOMAIN bus
        BY <1>1, <3>1, SMT DEF RefuseDevice, AtDevice
      <4> QED
        BY <3>1, <4>1, HandlesOfDevice DEF RefuseDevice, ScanInv, ScanTypeOK
    <3>2. CASE SkipDevice \/ NotFound
      BY <3>2 DEF SkipDevice, NotFound, ScanInv, ScanTypeOK
    <3> QED
      BY <1>2, <3>1, <3>2
  <2>4. ScanTypeOK'
    BY <1>1, <2>1, <2>2, <2>3 DEF ScanInv, ScanTypeOK
  <2> QED
    BY <2>1, <2>4 DEF ScanInv, HandlesAreAll, MatchesAreBehind, MatchesFit,
       HoldsWhatItMatched
<1>3. CASE SkipInterface \/ RefuseInterface
  <2>1. /\ phase = "interfaces" /\ phase' = phase
        /\ iface <= Len(interfaces) /\ iface' = iface + 1
        /\ UNCHANGED <<tool, bus, device, picoboot, reset, opened>>
    BY <1>3 DEF SkipInterface, RefuseInterface, AtInterface, matchVars
  <2>2. device \in DOMAIN bus
    BY <1>1, <2>1, SMT DEF ScanInv, ScanTypeOK
  <2>3. iface \in DOMAIN interfaces
    BY <1>1, <2>1, <2>2, BusIsABus DEF interfaces
  <2>4. refused' \subseteq DOMAIN opened
    <3>1. <<device, iface>> \in DOMAIN opened
      BY <2>2, <2>3, HandlesOfDevice DEF interfaces
    <3>2. refused' \in {refused, refused \cup {<<device, iface>>}}
      BY <1>3 DEF SkipInterface, RefuseInterface
    <3> QED
      BY <3>1, <3>2 DEF ScanInv, ScanTypeOK
  <2>5. ScanTypeOK'
    BY <1>1, <2>1, <2>4 DEF ScanInv, ScanTypeOK
  <2>6. MatchesAreBehind'
    BY <1>1, <2>1, SMT DEF ScanInv, MatchesAreBehind
  <2> QED
    BY <2>1, <2>5, <2>6 DEF ScanInv, HandlesAreAll, MatchesFit, HoldsWhatItMatched,
       is_picoboot, is_reset, interfaces
<1> QED
  BY <1>2, <1>3

\* Opening a device: nothing of it is matched yet.
LEMMA OpenKeepsInv ==
  ASSUME ScanInv, OpenDevice
  PROVE  ScanInv'
<1>1. /\ bus \in Buses /\ Len(bus) \in Nat /\ DOMAIN bus = 1 .. Len(bus)
      /\ device \in 1 .. Len(bus) + 1
  BY BusIsABus DEF ScanInv, ScanTypeOK
<1>2. /\ phase = "devices" /\ device <= Len(bus)
      /\ phase' = "interfaces" /\ iface' = 1
      /\ opened' = [opened EXCEPT ![<<device, 0>>] = @ + 1]
      /\ UNCHANGED <<tool, bus, device, picoboot, reset, refused>>
  BY DEF OpenDevice, AtDevice, matchVars
<1>3. picoboot = 0 /\ reset = 0
  BY <1>2 DEF ScanInv, MatchesAreBehind
<1>4. device \in DOMAIN bus /\ <<device, 0>> \in DOMAIN opened
  BY <1>1, <1>2, HandlesOfDevice
<1>5. opened \in [DOMAIN opened -> Int] /\ \A h \in DOMAIN opened : opened[h] = 0
  BY <1>2 DEF ScanInv, ScanTypeOK, HoldsWhatItMatched
<1>6. /\ DOMAIN opened' = DOMAIN opened
      /\ opened' \in [DOMAIN opened' -> Int]
      /\ \A h \in DOMAIN opened' : opened'[h] = IF h = <<device, 0>> THEN 1 ELSE 0
  BY <1>2, <1>4, <1>5
<1>7. ScanTypeOK'
  BY <1>1, <1>2, <1>3, <1>6 DEF ScanInv, ScanTypeOK
<1> QED
  BY <1>2, <1>3, <1>6, <1>7 DEF ScanInv, HandlesAreAll, MatchesAreBehind,
     MatchesFit, HoldsWhatItMatched

\* Looking at an interface: it was not matched before, and is kept at most as
\* one of the two.
LEMMA ExamineKeepsInv ==
  ASSUME ScanInv, ExamineInterface
  PROVE  ScanInv'
<1>1. /\ bus \in Buses /\ Len(bus) \in Nat /\ DOMAIN bus = 1 .. Len(bus)
      /\ device \in 1 .. Len(bus) + 1 /\ iface \in Nat \ {0}
      /\ picoboot \in Nat /\ reset \in Nat
  BY BusIsABus DEF ScanInv, ScanTypeOK
<1>2. /\ phase = "interfaces" /\ phase' = phase
      /\ iface <= Len(interfaces) /\ iface' = iface + 1
      /\ reset' = IF is_reset(iface) THEN iface ELSE reset
      /\ picoboot' = IF is_picoboot(iface) /\ picoboot = 0 THEN iface ELSE picoboot
      /\ opened' = IF iface \in {reset', picoboot'}
                     THEN [opened EXCEPT ![<<device, iface>>] = @ + 1] ELSE opened
      /\ UNCHANGED <<tool, bus, device, refused>>
  BY DEF ExamineInterface, AtInterface
<1>3. device \in DOMAIN bus
  BY <1>1, <1>2, SMT DEF ScanInv, ScanTypeOK
<1>4. iface \in DOMAIN interfaces
  BY <1>1, <1>2, <1>3, BusIsABus DEF interfaces
<1>5. picoboot < iface /\ reset < iface
  BY <1>2 DEF ScanInv, MatchesAreBehind
<1>6. is_reset(iface) => reset = 0
  BY <1>1, <1>2, <1>3, <1>4, <1>5, MatchesDiffer DEF ScanInv, MatchesFit
<1>7. <<device, iface>> \in DOMAIN opened
  BY <1>3, <1>4, HandlesOfDevice DEF interfaces
<1>8. opened[<<device, iface>>] = 0
  BY <1>1, <1>5, <1>7 DEF ScanInv, HoldsWhatItMatched
<1>9. /\ DOMAIN opened' = DOMAIN opened
      /\ opened' \in [DOMAIN opened' -> Int]
  BY <1>2, <1>7 DEF ScanInv, ScanTypeOK
<1>10. ScanTypeOK'
  BY <1>1, <1>2, <1>9 DEF ScanInv, ScanTypeOK
<1>11. HoldsWhatItMatched'
  <2> SUFFICES ASSUME NEW h \in DOMAIN opened'
               PROVE  opened'[h] =
                        IF h \in {<<device, 0>>, <<device, picoboot'>>,
                                  <<device, reset'>>} THEN 1 ELSE 0
    BY <1>2 DEF HoldsWhatItMatched
  <2>1. opened[h] = IF h \in {<<device, 0>>, <<device, picoboot>>, <<device, reset>>}
                      THEN 1 ELSE 0
    BY <1>2, <1>9 DEF ScanInv, HoldsWhatItMatched
  <2>2. CASE h = <<device, iface>>
    BY <1>1, <1>2, <1>5, <1>7, <1>8, <2>2
  <2>3. CASE h # <<device, iface>>
    BY <1>1, <1>2, <1>6, <1>9, <2>1, <2>3
  <2> QED
    BY <2>2, <2>3
<1>12. MatchesAreBehind'
  BY <1>1, <1>2, <1>5, SMT DEF MatchesAreBehind
<1>13. MatchesFit'
  BY <1>2, <1>4 DEF ScanInv, MatchesFit, is_picoboot, is_reset, interfaces
<1> QED
  BY <1>2, <1>9, <1>10, <1>11, <1>12, <1>13 DEF ScanInv, HandlesAreAll

\* The end of the inner loop: with a match the device stays open, without one
\* it is closed.
LEMMA EndKeepsInv ==
  ASSUME ScanInv, EndInterfaces
  PROVE  ScanInv'
<1>1. /\ bus \in Buses /\ Len(bus) \in Nat /\ DOMAIN bus = 1 .. Len(bus)
      /\ device \in 1 .. Len(bus) + 1
  BY BusIsABus DEF ScanInv, ScanTypeOK
<1>2. phase = "interfaces" /\ UNCHANGED <<tool, bus, iface, picoboot, reset, refused>>
  BY DEF EndInterfaces, matchVars
<1>3. device <= Len(bus) /\ device \in DOMAIN bus
  BY <1>1, <1>2, SMT DEF ScanInv, ScanTypeOK
<1>4. CASE picoboot # 0 \/ reset # 0
  <2>1. phase' = "found" /\ UNCHANGED <<device, opened>>
    BY <1>4 DEF EndInterfaces
  <2> QED
    BY <1>2, <1>3, <2>1 DEF ScanInv, ScanTypeOK, HandlesAreAll, MatchesAreBehind,
       MatchesFit, HoldsWhatItMatched, is_picoboot, is_reset, interfaces
<1>5. CASE picoboot = 0 /\ reset = 0
  <2>1. /\ phase' = "devices" /\ device' = device + 1
        /\ opened' = [opened EXCEPT ![<<device, 0>>] = @ - 1]
    BY <1>5 DEF EndInterfaces
  <2>2. <<device, 0>> \in DOMAIN opened
    BY <1>3, HandlesOfDevice
  <2>3. /\ DOMAIN opened' = DOMAIN opened
        /\ opened' \in [DOMAIN opened' -> Int]
        /\ \A h \in DOMAIN opened' : opened'[h] = 0
    <3>1. \A h \in DOMAIN opened : opened[h] = IF h = <<device, 0>> THEN 1 ELSE 0
      BY <1>2, <1>5 DEF ScanInv, HoldsWhatItMatched
    <3>2. opened \in [DOMAIN opened -> Int]
      BY DEF ScanInv, ScanTypeOK
    <3> QED
      BY <2>1, <2>2, <3>1, <3>2
  <2>4. device' \in 1 .. Len(bus) + 1
    BY <1>1, <1>3, <2>1, SMT
  <2>5. ScanTypeOK'
    BY <1>2, <2>1, <2>3, <2>4 DEF ScanInv, ScanTypeOK
  <2> QED
    BY <1>2, <1>5, <2>1, <2>3, <2>5 DEF ScanInv, HandlesAreAll, MatchesAreBehind,
       MatchesFit, HoldsWhatItMatched
<1> QED
  BY <1>1, <1>4, <1>5

\* The closing calls of main() close each handle that is held, once.
LEMMA CloseKeepsInv ==
  ASSUME ScanInv, CloseAll
  PROVE  ScanInv'
<1>1. /\ bus \in Buses /\ Len(bus) \in Nat /\ DOMAIN bus = 1 .. Len(bus)
      /\ device \in 1 .. Len(bus) + 1 /\ picoboot \in Nat /\ reset \in Nat
  BY BusIsABus DEF ScanInv, ScanTypeOK
<1>2. /\ phase = "found" /\ phase' = "closed"
      /\ opened' = [h \in DOMAIN opened |-> opened[h] - Closings(h)]
      /\ UNCHANGED <<tool, bus, device, iface, picoboot, reset, refused>>
  BY DEF CloseAll, matchVars
<1>3. device <= Len(bus) /\ device \in DOMAIN bus
  BY <1>1, <1>2, SMT DEF ScanInv, ScanTypeOK
<1>4. picoboot # 0 /\ reset # 0 => picoboot # reset
  BY <1>1, <1>2, <1>3, MatchesDiffer DEF ScanInv, MatchesFit
<1>5. ASSUME NEW h \in DOMAIN opened PROVE opened[h] = Closings(h)
  <2>1. opened[h] = IF h \in {<<device, 0>>, <<device, picoboot>>, <<device, reset>>}
                      THEN 1 ELSE 0
    BY <1>2 DEF ScanInv, HoldsWhatItMatched
  <2>2. CASE h = <<device, 0>>
    BY <2>1, <2>2 DEF Closings, Once
  <2>3. CASE h # <<device, 0>> /\ h = <<device, picoboot>>
    BY <1>4, <2>1, <2>3 DEF Closings, Once
  <2>4. CASE h # <<device, 0>> /\ h # <<device, picoboot>>
    BY <2>1, <2>4 DEF Closings, Once
  <2> QED
    BY <2>2, <2>3, <2>4
<1>6. /\ DOMAIN opened' = DOMAIN opened
      /\ opened' \in [DOMAIN opened' -> Int]
      /\ \A h \in DOMAIN opened' : opened'[h] = 0
  BY <1>2, <1>5 DEF ScanInv, ScanTypeOK
<1>7. ScanTypeOK'
  BY <1>2, <1>3, <1>6 DEF ScanInv, ScanTypeOK
<1>8. MatchesFit'
  BY <1>2 DEF ScanInv, MatchesFit, is_picoboot, is_reset, interfaces
<1>9. HandlesAreAll' /\ MatchesAreBehind' /\ HoldsWhatItMatched'
  BY <1>2, <1>6 DEF ScanInv, HandlesAreAll, MatchesAreBehind, HoldsWhatItMatched
<1> QED
  BY <1>7, <1>8, <1>9 DEF ScanInv

LEMMA ScanNextInv == ScanInv /\ [ScanNext]_scanVars => ScanInv'
<1> SUFFICES ASSUME ScanInv, [ScanNext]_scanVars PROVE ScanInv'
  OBVIOUS
<1>1. CASE UNCHANGED scanVars
  BY <1>1 DEF scanVars, matchVars, ScanInv, ScanTypeOK, HandlesAreAll,
     MatchesAreBehind, MatchesFit, HoldsWhatItMatched, is_picoboot, is_reset, interfaces
<1> QED
  BY <1>1, LookingKeepsInv, OpenKeepsInv, ExamineKeepsInv, EndKeepsInv,
     CloseKeepsInv DEF ScanNext, ScanStep

\* The scan is typed: the loops never leave the bus, and every handle that is
\* refused is a handle.
THEOREM ScanIsTyped == ScanSpec => []ScanTypeOK
<1>1. ScanInv => ScanTypeOK
  BY DEF ScanInv
<1> QED
  BY <1>1, ScanInitInv, ScanNextInv, PTL DEF ScanSpec

\* No handle is lost and none is closed twice: on every path through the loops
\* of either tool, what is open is the device and what was matched in it.
THEOREM ScanHoldsWhatItMatched == ScanSpec => []HoldsWhatItMatched
<1>1. ScanInv => HoldsWhatItMatched
  BY DEF ScanInv
<1> QED
  BY <1>1, ScanInitInv, ScanNextInv, PTL DEF ScanSpec

-----------------------------------------------------------------------------
(***************************************************************************)
(* FindsFirstUsable.  What was refused lies behind the scan, so that what  *)
(* is matched was not refused; a device is left behind only when it is of  *)
(* no use, and that stays so when more is refused.                         *)
(***************************************************************************)
InDevice == phase \in {"interfaces", "found", "closed"}

NoneBefore == \A d \in 1 .. device - 1 : ~ Usable(d)

RefusedAreBehind ==
  \A d, i \in Nat : <<d, i>> \in refused =>
    d < device \/ (d = device /\ InDevice /\ 0 < i /\ i < iface)

IsSupported == InDevice => is_supported_product(bus[device].product)

MatchedNotRefused ==
  InDevice => /\ picoboot # 0 => <<device, picoboot>> \notin refused
              /\ reset # 0 => <<device, reset>> \notin refused

Seen(i) ==
  <<device, i>> \notin refused =>
    /\ is_reset(i) => reset # 0
    /\ is_picoboot(i) => picoboot # 0

NothingOverlooked ==
  InDevice => \A i \in DOMAIN interfaces : i < iface => Seen(i)

FoundWithMatch ==
  phase \in {"found", "closed"} =>
    /\ Complete \/ iface > Len(interfaces)
    /\ picoboot # 0 \/ reset # 0

EndedPast == phase = "none" => device > Len(bus)

FirstInv ==
  /\ NoneBefore
  /\ EndedPast
  /\ RefusedAreBehind
  /\ IsSupported
  /\ MatchedNotRefused
  /\ NothingOverlooked
  /\ FoundWithMatch

\* The scan's place as numbers.
LEMMA ScanNumbers ==
  ASSUME ScanInv
  PROVE  /\ bus \in Buses /\ Len(bus) \in Nat /\ DOMAIN bus = 1 .. Len(bus)
         /\ device \in Nat \ {0} /\ device <= Len(bus) + 1
         /\ iface \in Nat \ {0} /\ picoboot \in Nat /\ reset \in Nat
         /\ InDevice => device \in DOMAIN bus
<1>1. /\ bus \in Buses /\ Len(bus) \in Nat /\ DOMAIN bus = 1 .. Len(bus)
      /\ device \in 1 .. Len(bus) + 1
      /\ InDevice => device <= Len(bus)
      /\ iface \in Nat \ {0} /\ picoboot \in Nat /\ reset \in Nat
  BY BusIsABus DEF ScanInv, ScanTypeOK, InDevice
<1>2. device \in Nat \ {0} /\ device <= Len(bus) + 1
  BY <1>1, SMT
<1>3. InDevice => device \in 1 .. Len(bus)
  BY <1>1, <1>2, SMT
<1> QED
  BY <1>1, <1>2, <1>3

LEMMA ScanTools == ScanInv => tool \in {"load", "reboot"}
  BY DEF ScanInv, ScanTypeOK

\* A device that is of no use stays so when more handles are refused.
LEMMA RefusalHelpsNobody ==
  ASSUME UNCHANGED <<tool, bus>>, refused \subseteq refused', NEW d, ~ Usable(d)
  PROVE  ~ Usable(d)'
  BY DEF Usable, is_supported_product

\* Leaving a device that is of no use behind.
LEMMA NoneBeforeNext ==
  ASSUME ScanInv, NoneBefore, UNCHANGED <<tool, bus>>, refused \subseteq refused',
         NEW left, left = device,
         device' = left \/ (device' = left + 1 /\ ~ Usable(left)')
  PROVE  NoneBefore'
<1>1. device \in Nat \ {0}
  BY ScanNumbers
<1>2. SUFFICES ASSUME NEW d \in 1 .. device' - 1 PROVE ~ Usable(d)'
  BY DEF NoneBefore
<1>3. CASE d \in 1 .. device - 1
  BY <1>3, RefusalHelpsNobody DEF NoneBefore
<1>4. CASE d \notin 1 .. device - 1
  <2>1. d = left /\ device' = left + 1 /\ device' # left
    BY <1>1, <1>4, SMT
  <2>2. ~ Usable(left)'
    BY <2>1
  <2> QED
    BY <2>1, <2>2
<1> QED
  BY <1>3, <1>4

\* The outer loop, up to opening a device.
LEMMA OuterKeepsFirst ==
  ASSUME ScanInv, FirstInv, SkipDevice \/ RefuseDevice \/ NotFound
  PROVE  FirstInv'
<1>1. /\ phase = "devices" /\ phase' \in {"devices", "none"}
      /\ UNCHANGED <<tool, bus, iface, picoboot, reset>>
      /\ refused' \in {refused, refused \cup {<<device, 0>>}}
      /\ device' \in {device, device + 1}
      /\ refused' # refused => device' = device + 1
  BY DEF SkipDevice, RefuseDevice, NotFound, AtDevice, matchVars
<1>2. device \in Nat \ {0}
  BY ScanNumbers
<1>3. PICK left : left = device
  OBVIOUS
<1>4. NoneBefore'
  <2>1. CASE SkipDevice
    <3>1. device' = left + 1 /\ ~ Usable(left)'
      BY <1>3, <2>1 DEF SkipDevice, Usable, is_supported_product
    <3> QED
      BY <1>1, <1>3, <3>1, NoneBeforeNext DEF FirstInv
  <2>2. CASE RefuseDevice
    <3>1. device' = left + 1 /\ ~ Usable(left)'
      BY <1>3, <2>2 DEF RefuseDevice, Usable
    <3> QED
      BY <1>1, <1>3, <3>1, NoneBeforeNext DEF FirstInv
  <2>3. CASE NotFound
    BY <1>1, <1>3, <2>3, NoneBeforeNext DEF NotFound, FirstInv
  <2> QED
    BY <2>1, <2>2, <2>3
<1>5. RefusedAreBehind'
  <2> SUFFICES ASSUME NEW d \in Nat, NEW i \in Nat, <<d, i>> \in refused'
               PROVE  d < device'
    BY DEF RefusedAreBehind
  <2>1. CASE <<d, i>> \in refused
    <3>1. d < device
      BY <1>1, <2>1 DEF FirstInv, RefusedAreBehind, InDevice
    <3> QED
      BY <1>1, <1>2, <3>1, SMT
  <2>2. CASE <<d, i>> \notin refused
    <3>1. d = device /\ device' = device + 1
      BY <1>1, <2>2
    <3> QED
      BY <1>2, <3>1, SMT
  <2> QED
    BY <2>1, <2>2
<1>6. EndedPast'
  BY <1>1 DEF SkipDevice, RefuseDevice, NotFound, EndedPast
<1> QED
  BY <1>1, <1>4, <1>5, <1>6 DEF FirstInv, InDevice, IsSupported,
     MatchedNotRefused, NothingOverlooked, FoundWithMatch

LEMMA OpenKeepsFirst ==
  ASSUME ScanInv, FirstInv, OpenDevice
  PROVE  FirstInv'
<1>1. /\ phase = "devices" /\ phase' = "interfaces" /\ iface' = 1
      /\ UNCHANGED <<tool, bus, device, picoboot, reset, refused>>
      /\ is_supported_product(bus[device].product)
  BY DEF OpenDevice, AtDevice, matchVars
<1>2. picoboot = 0 /\ reset = 0
  BY <1>1 DEF ScanInv, MatchesAreBehind
<1>3. /\ bus \in Buses /\ device \in DOMAIN bus
  BY <1>1, ScanNumbers, SMT DEF OpenDevice, AtDevice
<1>4. \A i \in DOMAIN interfaces : ~ (i < 1)
  BY <1>3, BusIsABus, SMT DEF interfaces
<1>5. NothingOverlooked'
  BY <1>1, <1>4 DEF NothingOverlooked, interfaces
<1>6. NoneBefore'
  BY <1>1, NoneBeforeNext DEF FirstInv
<1>7. RefusedAreBehind' /\ IsSupported'
  BY <1>1 DEF FirstInv, RefusedAreBehind, IsSupported, InDevice,
     is_supported_product
<1> QED
  BY <1>1, <1>2, <1>5, <1>6, <1>7
  DEF FirstInv, MatchedNotRefused, FoundWithMatch, EndedPast

\* The inner loop: an interface is passed over, refused or examined.
LEMMA InnerKeepsFirst ==
  ASSUME ScanInv, FirstInv, SkipInterface \/ RefuseInterface \/ ExamineInterface
  PROVE  FirstInv'
<1>1. /\ phase = "interfaces" /\ phase' = phase /\ iface' = iface + 1
      /\ UNCHANGED <<tool, bus, device>>
      /\ iface <= Len(interfaces)
      /\ refused' \in {refused, refused \cup {<<device, iface>>}}
  BY DEF SkipInterface, RefuseInterface, ExamineInterface, AtInterface, matchVars
<1>2. /\ device \in Nat \ {0} /\ device \in DOMAIN bus
      /\ iface \in Nat \ {0} /\ picoboot \in Nat /\ reset \in Nat
      /\ bus \in Buses
  BY <1>1, ScanNumbers DEF InDevice
<1>3. picoboot < iface /\ reset < iface
  BY <1>1 DEF ScanInv, MatchesAreBehind
<1>4. <<device, iface>> \notin refused
  BY <1>2, SMT DEF FirstInv, RefusedAreBehind
<1>5. NoneBefore'
  BY <1>1, NoneBeforeNext DEF FirstInv
<1>6. RefusedAreBehind'
  <2> SUFFICES ASSUME NEW d \in Nat, NEW i \in Nat, <<d, i>> \in refused'
               PROVE  d < device \/ (d = device /\ 0 < i /\ i < iface + 1)
    BY <1>1 DEF RefusedAreBehind, InDevice
  <2>1. CASE <<d, i>> \in refused
    BY <1>2, <2>1, SMT DEF FirstInv, RefusedAreBehind
  <2>2. CASE <<d, i>> \notin refused
    <3>1. d = device /\ i = iface
      BY <1>1, <2>2
    <3> QED
      BY <1>2, <3>1, SMT
  <2> QED
    BY <2>1, <2>2
<1>7. /\ picoboot' \in {picoboot, iface} /\ reset' \in {reset, iface}
      /\ iface \in {picoboot', reset'} => refused' = refused
      /\ picoboot # 0 => picoboot' # 0
      /\ reset # 0 => reset' # 0
  <2>1. CASE SkipInterface \/ RefuseInterface
    BY <1>2, <1>3, <2>1 DEF SkipInterface, RefuseInterface, matchVars
  <2>2. CASE ExamineInterface
    BY <1>2, <2>2 DEF ExamineInterface
  <2> QED
    BY <2>1, <2>2
<1>8. MatchedNotRefused'
  <2>1. ASSUME NEW m, m # 0 => <<device, m>> \notin refused, m < iface,
               m \in Nat
        PROVE  m # 0 => <<device, m>> \notin refused'
    BY <1>1, <1>2, <2>1
  <2>2. /\ picoboot # 0 => <<device, picoboot>> \notin refused'
        /\ reset # 0 => <<device, reset>> \notin refused'
    BY <1>1, <1>2, <1>3, <2>1 DEF FirstInv, MatchedNotRefused, InDevice
  <2> QED
    BY <1>1, <1>4, <1>7, <2>2 DEF MatchedNotRefused
<1>9. PICK here : here = iface
  OBVIOUS
<1>10. Seen(here)'
  <2>1. CASE SkipInterface
    BY <1>9, <2>1, <1>1 DEF SkipInterface, Seen, is_reset, is_picoboot, interfaces
  <2>2. CASE RefuseInterface
    BY <1>9, <2>2 DEF RefuseInterface, Seen
  <2>3. CASE ExamineInterface
    BY <1>9, <2>3, <1>1, <1>2
    DEF ExamineInterface, Seen, is_reset, is_picoboot, interfaces
  <2> QED
    BY <2>1, <2>2, <2>3
<1>11. NothingOverlooked'
  <2>1. \A i \in DOMAIN interfaces : i < iface' => i < iface \/ i = iface
    BY <1>1, <1>2, BusIsABus, SMT DEF interfaces
  <2>2. \A i : Seen(i) => Seen(i)'
    BY <1>1, <1>7 DEF Seen, is_reset, is_picoboot, interfaces
  <2>3. \A i \in DOMAIN interfaces : i < iface => Seen(i)
    BY <1>1 DEF FirstInv, NothingOverlooked, InDevice
  <2> QED
    BY <1>1, <1>9, <1>10, <2>1, <2>2, <2>3 DEF NothingOverlooked, interfaces
<1>12. IsSupported' /\ FoundWithMatch' /\ EndedPast'
  BY <1>1 DEF EndedPast, FirstInv, IsSupported, FoundWithMatch, InDevice, is_supported_product
<1> QED
  BY <1>5, <1>6, <1>8, <1>11, <1>12 DEF FirstInv

\* The end of the inner loop: what was overlooked would have been a match.
LEMMA EndKeepsFirst ==
  ASSUME ScanInv, FirstInv, EndInterfaces
  PROVE  FirstInv'
<1>1. /\ phase = "interfaces" /\ InDevice
      /\ UNCHANGED <<tool, bus, iface, picoboot, reset, refused>>
  BY DEF EndInterfaces, matchVars, InDevice
<1>2. /\ device \in Nat \ {0} /\ device \in DOMAIN bus
      /\ iface \in Nat \ {0} /\ bus \in Buses
  BY <1>1, ScanNumbers
<1>3. Complete \/ iface > Len(interfaces)
  BY DEF EndInterfaces
<1>4. CASE picoboot # 0 \/ reset # 0
  <2>1. phase' = "found" /\ UNCHANGED device
    BY <1>4 DEF EndInterfaces
  <2>2. NoneBefore'
    BY <1>1, <2>1, NoneBeforeNext DEF FirstInv
  <2>3. InDevice'
    BY <2>1 DEF InDevice
  <2>4. RefusedAreBehind'
    BY <1>1, <2>1, <2>3 DEF FirstInv, RefusedAreBehind
  <2>5. IsSupported' /\ MatchedNotRefused'
    BY <1>1, <2>1 DEF FirstInv, IsSupported, MatchedNotRefused,
       is_supported_product
  <2>6. NothingOverlooked'
    BY <1>1, <2>1, <2>3 DEF FirstInv, NothingOverlooked, Seen, is_reset,
       is_picoboot, interfaces
  <2>7. FoundWithMatch'
    BY <1>3, <1>1, <1>4, <2>1 DEF FoundWithMatch, Complete, interfaces
  <2> QED
    BY <2>1, <2>2, <2>4, <2>5, <2>6, <2>7 DEF FirstInv, EndedPast
<1>5. CASE picoboot = 0 /\ reset = 0
  <2>1. phase' = "devices" /\ device' = device + 1
    BY <1>5 DEF EndInterfaces
  <2>2. \A i \in DOMAIN interfaces : Seen(i)
    <3>1. iface > Len(interfaces)
      BY <1>3, <1>5 DEF Complete
    <3>2. \A i \in DOMAIN interfaces : i < iface
      BY <1>2, <3>1, BusIsABus, SMT DEF interfaces
    <3> QED
      BY <1>1, <3>2 DEF FirstInv, NothingOverlooked
  <2>3. ~ Usable(device)
    BY <1>1, <1>5, <2>2, ScanTools
    DEF Usable, Seen, is_reset, is_picoboot, interfaces
  <2>4. NoneBefore'
    <3>1. PICK left : left = device
      OBVIOUS
    <3>2. ~ Usable(left)'
      BY <1>1, <2>3, <3>1, RefusalHelpsNobody
    <3> QED
      BY <1>1, <2>1, <3>1, <3>2, NoneBeforeNext DEF FirstInv
  <2>5. RefusedAreBehind'
    <3> SUFFICES ASSUME NEW d \in Nat, NEW i \in Nat, <<d, i>> \in refused
                 PROVE  d < device + 1
      BY <1>1, <2>1 DEF RefusedAreBehind
    <3>1. d < device \/ d = device
      BY DEF FirstInv, RefusedAreBehind
    <3> QED
      BY <1>2, <3>1, SMT
  <2> QED
    BY <2>1, <2>4, <2>5 DEF FirstInv, InDevice, IsSupported, MatchedNotRefused,
       NothingOverlooked, FoundWithMatch, EndedPast
<1> QED
  BY <1>1, <1>4, <1>5, ScanNumbers

LEMMA CloseKeepsFirst ==
  ASSUME ScanInv, FirstInv, CloseAll \/ UNCHANGED scanVars
  PROVE  FirstInv'
<1>1. /\ UNCHANGED <<tool, bus, device, iface, picoboot, reset, refused>>
      /\ phase' = phase \/ (phase = "found" /\ phase' = "closed")
  BY DEF CloseAll, scanVars, matchVars
<1>2. NoneBefore'
  BY <1>1, NoneBeforeNext DEF FirstInv
<1>3. RefusedAreBehind' /\ IsSupported' /\ MatchedNotRefused'
  BY <1>1 DEF FirstInv, RefusedAreBehind, IsSupported, MatchedNotRefused,
     InDevice, is_supported_product
<1>4. NothingOverlooked'
  BY <1>1 DEF FirstInv, NothingOverlooked, InDevice, Seen, is_reset,
     is_picoboot, interfaces
<1>5. FoundWithMatch'
  BY <1>1 DEF FirstInv, FoundWithMatch, Complete, interfaces
<1>6. EndedPast'
  BY <1>1 DEF FirstInv, EndedPast
<1> QED
  BY <1>2, <1>3, <1>4, <1>5, <1>6 DEF FirstInv

\* What the invariant says of a scan that has ended.
LEMMA FirstIsFound ==
  ASSUME ScanInv, FirstInv
  PROVE  FindsFirstUsable
<1>1. ASSUME phase \in {"found", "closed"}
      PROVE  /\ Usable(device)
             /\ \A d \in 1 .. device - 1 : ~ Usable(d)
             /\ \A i \in DOMAIN interfaces : Seen(i)
  <2>1. /\ InDevice /\ device \in DOMAIN bus /\ bus \in Buses
        /\ device \in Nat /\ iface \in Nat
    BY <1>1, ScanNumbers DEF InDevice
  <2>2. \A i \in DOMAIN interfaces : Seen(i)
    <3>1. CASE Complete
      BY <3>1, ScanTools DEF Complete, Seen, is_reset
    <3>2. CASE iface > Len(interfaces)
      <4>1. \A i \in DOMAIN interfaces : i < iface
        BY <2>1, <3>2, BusIsABus, SMT DEF interfaces
      <4> QED
        BY <2>1, <4>1 DEF FirstInv, NothingOverlooked
    <3> QED
      BY <1>1, <3>1, <3>2 DEF FirstInv, FoundWithMatch
  <2>3. <<device, 0>> \notin refused
    BY <2>1, SMT DEF FirstInv, RefusedAreBehind
  <2>4. Usable(device)
    <3>1. is_supported_product(bus[device].product)
      BY <2>1 DEF FirstInv, IsSupported
    <3>2. CASE picoboot # 0
      BY <1>1, <2>1, <2>3, <3>1, <3>2
      DEF FirstInv, MatchedNotRefused, ScanInv, MatchesFit, is_picoboot,
          interfaces, Usable
    <3>3. CASE reset # 0
      BY <1>1, <2>1, <2>3, <3>1, <3>3
      DEF FirstInv, MatchedNotRefused, ScanInv, MatchesFit, is_reset,
          interfaces, Usable
    <3> QED
      BY <1>1, <3>2, <3>3 DEF FirstInv, FoundWithMatch
  <2> QED
    BY <2>2, <2>4 DEF FirstInv, NoneBefore
<1>2. ASSUME phase = "none" PROVE \A d \in DOMAIN bus : ~ Usable(d)
  <2>1. DOMAIN bus \subseteq 1 .. device - 1
    BY <1>2, ScanNumbers, SMT DEF FirstInv, EndedPast
  <2> QED
    BY <2>1 DEF FirstInv, NoneBefore
<1> QED
  BY <1>1, <1>2 DEF FindsFirstUsable, Seen

\* Whatever the bus lists and whatever cannot be opened, either tool ends with
\* the first usable device, and with none only if there is none; in the device
\* it found it overlooks no interface that decides which request is sent.
THEOREM ScanFindsFirstUsable == ScanSpec => []FindsFirstUsable
<1>1. ScanInit => FirstInv
  <2> SUFFICES ASSUME ScanInit PROVE FirstInv
    OBVIOUS
  <2>1. phase = "devices" /\ device = 1 /\ refused = {}
    BY DEF ScanInit
  <2>2. 1 .. device - 1 = {}
    BY <2>1, SMT
  <2> QED
    BY <2>1, <2>2 DEF FirstInv, NoneBefore, RefusedAreBehind, IsSupported,
       MatchedNotRefused, NothingOverlooked, FoundWithMatch, InDevice, EndedPast
<1>2. ScanInv /\ FirstInv /\ [ScanNext]_scanVars => FirstInv'
  BY OuterKeepsFirst, OpenKeepsFirst, InnerKeepsFirst, EndKeepsFirst,
     CloseKeepsFirst DEF ScanNext, ScanStep
<1>3. ScanInv /\ FirstInv => FindsFirstUsable
  BY FirstIsFound
<1> QED
  BY <1>1, <1>2, <1>3, ScanInitInv, ScanNextInv, PTL DEF ScanSpec

=============================================================================
