------------------------------ MODULE MCReboot ------------------------------
(***************************************************************************)
(* dapico-reboot on buses of up to two devices, with the interfaces of     *)
(* MCFrontEnd that its dispatch tells apart.                             *)
(***************************************************************************)
EXTENDS Reboot

Class  == [vendor |-> FALSE, reset_protocol |-> FALSE, bulk |-> TRUE]
Vendor == [vendor |-> TRUE, reset_protocol |-> FALSE, bulk |-> TRUE]
Reset  == [vendor |-> TRUE, reset_protocol |-> TRUE, bulk |-> FALSE]

Boot(p) == [product |-> p, interfaces |-> <<Class, Vendor>>]
App(i)  == [product |-> "rp2040_stdio", interfaces |-> i]

MCDevices ==
  {Boot("rp2040_boot"), Boot("rp2350_boot"), App(<<Class, Reset>>), App(<<Vendor, Reset>>),
   App(<<Class>>), App(<<Class, Vendor>>)}

MCBuses == {<<>>} \cup {<<d>> : d \in MCDevices}
             \cup {<<d, e>> : d \in MCDevices, e \in MCDevices}

\* what a run of either tool that was killed may have left the device at
MCLeftovers == {[id |-> "FLASH_ERASE", addr |-> 8, data |-> <<>>, size |-> 4],
                [NoCommand EXCEPT !.id = "REBOOT"]}
NoLeftovers == {}

=============================================================================
