--------------------------- MODULE CommandService ---------------------------
(***************************************************************************)
(* What send_picoboot_command promises main(): an abstract remote command. *)
(*                                                                         *)
(* Calls are numbered from 1.  A command is carried out at most once, and  *)
(* commands are carried out in the order of the calls; an "ok" is given    *)
(* only for a command that was carried out.  A "failed" promises nothing:  *)
(* the command may have been carried out, or may be carried out later.     *)
(***************************************************************************)
EXTENDS Naturals

VARIABLES
  calling,   \* a call is in progress
  serial,    \* number of the last call
  answer,    \* what the last call returned, "none" while it runs
  carried    \* the calls the device has carried out

serviceVars == <<calling, serial, answer, carried>>

Init ==
  /\ calling = FALSE
  /\ serial = 0
  /\ answer = "none"
  /\ carried = {}

Call ==
  /\ ~ calling
  /\ calling' = TRUE
  /\ serial' = serial + 1
  /\ answer' = "none"
  /\ UNCHANGED carried

CarryOut ==
  /\ \E s \in 1 .. serial :
       /\ \A earlier \in carried : earlier < s
       /\ carried' = carried \cup {s}
  /\ UNCHANGED <<calling, serial, answer>>

Answer ==
  /\ calling
  /\ calling' = FALSE
  /\ \/ answer' = "ok" /\ serial \in carried
     \/ answer' = "failed"
  /\ UNCHANGED <<serial, carried>>

Next == Call \/ CarryOut \/ Answer

Spec == Init /\ [][Next]_serviceVars

=============================================================================
