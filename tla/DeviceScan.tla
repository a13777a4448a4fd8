----------------------------- MODULE DeviceScan -----------------------------
(***************************************************************************)
(* find_device of dapico-load and of dapico-reboot: two nested loops over  *)
(* the USB devices and their interfaces, which open what they look at and  *)
(* have to close whatever they do not keep.                                *)
(*                                                                         *)
(* The two functions have the same skeleton.  dapico-load wants a BOOTSEL  *)
(* product and stops at the first vendor interface with two bulk pipes;    *)
(* dapico-reboot takes two more products, also looks for the reset         *)
(* interface and goes on until it has both.                                *)
(*                                                                         *)
(* A handle is <<d, i>>: interface i of device d, or the device itself     *)
(* for i = 0.                                                              *)
(***************************************************************************)
EXTENDS Integers, Sequences

CONSTANT Buses   \* the sequences of devices the registry may list

\* vendor: class 0xff; reset_protocol: the reset subclass and protocol;
\* bulk: a bulk IN and a bulk OUT pipe
Interface  == [vendor: BOOLEAN, reset_protocol: BOOLEAN, bulk: BOOLEAN]
BootProduct == {"rp2040_boot", "rp2350_boot"}
AppProduct == {"rp2040_stdio", "rp2350_stdio"}
UsbDevice ==
  [product: BootProduct \cup AppProduct \cup {"other"}, interfaces: Seq(Interface)]

ASSUME BusesAreBuses == \A b \in Buses : b \in Seq(UsbDevice)

(***************************************************************************)
(* The reset interface is the one of pico_stdio_usb, which has no pipes    *)
(* and which a firmware contains once.  dapico-reboot relies on both: it   *)
(* keeps the last reset interface only, and closes an interface that       *)
(* matches twice two times.                                                *)
(***************************************************************************)
ASSUME ResetInterfaceIsTheSdks ==
  \A b \in Buses : \A d \in DOMAIN b :
    LET f == b[d].interfaces
    IN  \A i, k \in DOMAIN f :
          f[i].reset_protocol =>
            /\ f[i].vendor /\ ~ f[i].bulk
            /\ f[k].reset_protocol => i = k

VARIABLES
  tool,       \* "load" or "reboot"
  bus,        \* the registry's list of devices
  phase,      \* which loop is running, or how the scan ended
  device,     \* the device the outer loop looks at
  iface,      \* the interface the inner loop looks at
  picoboot,   \* the matched PICOBOOT interface, 0 for none
  reset,      \* the matched reset interface, 0 for none
  opened,     \* for every handle, how often it was opened but not closed
  refused     \* the handles IOKit would not open

matchVars == <<picoboot, reset>>
scanVars  == <<tool, bus, phase, device, iface, matchVars, opened, refused>>

is_supported_product(product_id) ==
  product_id \in IF tool = "load" THEN BootProduct ELSE BootProduct \cup AppProduct

interfaces == bus[device].interfaces

ScanInit ==
  /\ tool \in {"load", "reboot"}
  /\ bus \in Buses
  /\ phase = "devices"
  /\ device = 1
  /\ iface = 1
  /\ picoboot = 0
  /\ reset = 0
  /\ opened = [h \in UNION {{d} \X (0 .. Len(bus[d].interfaces)) : d \in DOMAIN bus}
                 |-> 0]
  /\ refused = {}

-----------------------------------------------------------------------------
(* The outer loop. *)

AtDevice == phase = "devices" /\ device <= Len(bus)

SkipDevice ==
  /\ AtDevice
  /\ ~ is_supported_product(bus[device].product)
  /\ device' = device + 1
  /\ UNCHANGED <<tool, bus, phase, iface, matchVars, opened, refused>>

\* no plug-in, held by another program, or no iterator over its interfaces (and
\* then it is closed again)
RefuseDevice ==
  /\ AtDevice
  /\ is_supported_product(bus[device].product)
  /\ refused' = refused \cup {<<device, 0>>}
  /\ device' = device + 1
  /\ UNCHANGED <<tool, bus, phase, iface, matchVars, opened>>

OpenDevice ==
  /\ AtDevice
  /\ is_supported_product(bus[device].product)
  /\ opened' = [opened EXCEPT ![<<device, 0>>] = @ + 1]
  /\ phase' = "interfaces"
  /\ iface' = 1
  /\ UNCHANGED <<tool, bus, device, matchVars, refused>>

\* Mutant of NotFound: main() does not check for a missing match.
NotFoundUnchecked ==
  /\ phase = "devices"
  /\ device > Len(bus)
  /\ phase' = "found"
  /\ UNCHANGED <<tool, bus, device, iface, matchVars, opened, refused>>

NotFound ==
  /\ phase = "devices"
  /\ device > Len(bus)
  /\ phase' = "none"
  /\ UNCHANGED <<tool, bus, device, iface, matchVars, opened, refused>>

-----------------------------------------------------------------------------
(* The inner loop. *)

\* Mutant of Complete: both tools stop at the PICOBOOT interface.
CompleteWithPicoboot == picoboot # 0

\* the loop breaks here
Complete == picoboot # 0 /\ (tool = "load" \/ reset # 0)

AtInterface ==
  /\ phase = "interfaces"
  /\ ~ Complete
  /\ iface <= Len(interfaces)
  /\ iface' = iface + 1

\* dapico-load asks the iterator for vendor interfaces only
SkipInterface ==
  /\ AtInterface
  /\ tool = "load" /\ ~ interfaces[iface].vendor
  /\ UNCHANGED <<tool, bus, phase, device, matchVars, opened, refused>>

Visited == tool = "reboot" \/ interfaces[iface].vendor

RefuseInterface ==
  /\ AtInterface
  /\ Visited
  /\ refused' = refused \cup {<<device, iface>>}
  /\ UNCHANGED <<tool, bus, phase, device, matchVars, opened>>

is_reset(i) ==
  /\ tool = "reboot"
  /\ interfaces[i].vendor /\ interfaces[i].reset_protocol

is_picoboot(i) == interfaces[i].vendor /\ interfaces[i].bulk

ExamineInterface ==
  /\ AtInterface
  /\ Visited
  /\ reset' = IF is_reset(iface) THEN iface ELSE reset
  /\ picoboot' = IF is_picoboot(iface) /\ picoboot = 0 THEN iface ELSE picoboot
  /\ opened' = IF iface \in {reset', picoboot'}
                 THEN [opened EXCEPT ![<<device, iface>>] = @ + 1] ELSE opened
  /\ UNCHANGED <<tool, bus, phase, device, refused>>

\* Mutant of EndInterfaces: a device without a match stays open.
EndInterfacesOpen ==
  /\ phase = "interfaces"
  /\ Complete \/ iface > Len(interfaces)
  /\ IF picoboot # 0 \/ reset # 0
       THEN phase' = "found" /\ UNCHANGED device
       ELSE phase' = "devices" /\ device' = device + 1
  /\ UNCHANGED <<tool, bus, iface, matchVars, opened, refused>>

EndInterfaces ==
  /\ phase = "interfaces"
  /\ Complete \/ iface > Len(interfaces)
  /\ IF picoboot # 0 \/ reset # 0
       THEN phase' = "found" /\ UNCHANGED <<device, opened>>
       ELSE /\ phase' = "devices"
            /\ device' = device + 1
            /\ opened' = [opened EXCEPT ![<<device, 0>>] = @ - 1]
  /\ UNCHANGED <<tool, bus, iface, matchVars, refused>>

ScanStep ==
  \/ SkipDevice \/ RefuseDevice \/ OpenDevice \/ NotFound
  \/ SkipInterface \/ RefuseInterface \/ ExamineInterface \/ EndInterfaces

Once(closing) == IF closing THEN 1 ELSE 0

\* Mutant of Closings: the reset interface is forgotten.
ClosingsWithoutReset(h) ==
  Once(picoboot # 0 /\ h = <<device, picoboot>>) + Once(h = <<device, 0>>)

\* how often the end of main() closes a handle: what was kept, and the device
Closings(h) ==
  Once(picoboot # 0 /\ h = <<device, picoboot>>)
    + Once(reset # 0 /\ h = <<device, reset>>)
    + Once(h = <<device, 0>>)

CloseAll ==
  /\ phase = "found"
  /\ phase' = "closed"
  /\ opened' = [h \in DOMAIN opened |-> opened[h] - Closings(h)]
  /\ UNCHANGED <<tool, bus, device, iface, matchVars, refused>>

ScanNext == ScanStep \/ CloseAll

ScanSpec == ScanInit /\ [][ScanNext]_scanVars

-----------------------------------------------------------------------------
(* Properties. *)

ScanTypeOK ==
  /\ tool \in {"load", "reboot"}
  /\ bus \in Buses
  /\ phase \in {"devices", "interfaces", "found", "none", "closed"}
  /\ device \in 1 .. Len(bus) + 1
  /\ phase \in {"interfaces", "found", "closed"} => device <= Len(bus)
  /\ iface \in Nat \ {0}
  /\ picoboot \in Nat /\ reset \in Nat
  /\ DOMAIN opened \subseteq (1 .. Len(bus)) \X Nat
  /\ opened \in [DOMAIN opened -> Int]
  /\ refused \subseteq DOMAIN opened

\* Whatever cannot be opened, and however the loops break and continue, the tool
\* holds exactly the device it looks at and the interfaces it matched, each
\* once, and nothing when it ends.
HoldsWhatItMatched ==
  \A h \in DOMAIN opened :
    opened[h] =
      IF /\ phase \in {"interfaces", "found"}
         /\ h \in {<<device, 0>>, <<device, picoboot>>, <<device, reset>>}
        THEN 1 ELSE 0

\* what find_device should have seen in a device
Usable(d) ==
  LET Offers(i) ==
        LET f == bus[d].interfaces[i]
        IN  /\ <<d, i>> \notin refused
            /\ f.vendor
            /\ f.bulk \/ (tool = "reboot" /\ f.reset_protocol)
  IN  /\ is_supported_product(bus[d].product)
      /\ <<d, 0>> \notin refused
      /\ \E i \in DOMAIN bus[d].interfaces : Offers(i)

\* The scan ends with the first usable device, with none only if there is none,
\* and does not overlook an interface of the device it found: "no device" and
\* the choice between the reset request and PICOBOOT depend on it.
FindsFirstUsable ==
  /\ phase \in {"found", "closed"} =>
       /\ Usable(device)
       /\ \A d \in 1 .. device - 1 : ~ Usable(d)
       /\ \A i \in DOMAIN interfaces : <<device, i>> \notin refused =>
            /\ is_reset(i) => reset # 0
            /\ is_picoboot(i) => picoboot # 0
  /\ phase = "none" => \A d \in DOMAIN bus : ~ Usable(d)

=============================================================================
