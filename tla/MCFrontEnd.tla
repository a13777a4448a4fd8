----------------------------- MODULE MCFrontEnd -----------------------------
(***************************************************************************)
(* Buses of up to two devices, with the interfaces the boot ROM and Pico   *)
(* SDK firmware expose: mass storage or CDC (not a vendor interface), the  *)
(* reset interface (no pipes), and PICOBOOT or another vendor interface    *)
(* with bulk pipes.  Every command line of up to three words: the switches *)
(* of both programs (so that each meets unknown ones), help, a file and an *)
(* empty word.                                                             *)
(***************************************************************************)
EXTENDS FrontEnd

MCOthers == {"", "fw.elf"}

Class  == [vendor |-> FALSE, reset_protocol |-> FALSE, bulk |-> TRUE]
Vendor == [vendor |-> TRUE, reset_protocol |-> FALSE, bulk |-> TRUE]
Quiet  == [vendor |-> TRUE, reset_protocol |-> FALSE, bulk |-> FALSE]
Reset  == [vendor |-> TRUE, reset_protocol |-> TRUE, bulk |-> FALSE]

MCDevices ==
  {[product |-> "rp2040_boot", interfaces |-> i] :
     i \in {<<Class, Vendor>>, <<Class>>, <<Quiet, Vendor, Vendor>>}}
    \cup
  {[product |-> "rp2350_stdio", interfaces |-> i] :
     i \in {<<Class, Reset>>, <<Vendor, Reset, Class>>, <<Reset, Quiet, Vendor>>,
            <<>>}}
    \cup
  {[product |-> "other", interfaces |-> <<Vendor>>]}

MCBuses == {<<>>} \cup {<<d>> : d \in MCDevices}
             \cup {<<d, e>> : d \in MCDevices, e \in MCDevices}

=============================================================================
