--------------------------- MODULE PicobootProofs ---------------------------
(***************************************************************************)
(* The PICOBOOT link implements CommandService, for every sequence of      *)
(* calls and any number of faults.                                         *)
(*                                                                         *)
(* The invariant ties the device's last token to the host's counter: while *)
(* the host writes a command the device has not taken it, afterwards it    *)
(* has (or is stalled), and an acknowledgement is offered only for a       *)
(* command that was carried out.                                           *)
(***************************************************************************)
EXTENDS Picoboot, TLAPS

LinkTypes ==
  /\ stage \in {"idle", "command", "data", "ack", "returned"}
  /\ token \in Nat \ {0}
  /\ ret \in {"none", "ok", "error", "nodevice"}
  /\ dpc \in {"ready", "data", "busy", "ack", "stalled", "gone"}
  /\ dtoken \in Nat
  /\ executed \subseteq Nat

\* the device has carried out nothing it has not taken, and took nothing unsent
TokensInOrder ==
  /\ dtoken < token
  /\ \A t \in executed : 1 <= t /\ t <= dtoken

\* a command being written is a new one; one that was written was taken
TakenOnce ==
  /\ stage = "command" => dtoken < token - 1
  /\ stage \in {"data", "ack"} => /\ token > 1
                                  /\ \/ dtoken = token - 1
                                     \/ dpc \in {"stalled", "gone"}

\* a command in progress was not carried out before
WorkIsNew == dpc \in {"data", "busy"} => dtoken \notin executed

\* an acknowledgement is offered after the command was carried out
AckIsEarned == dpc = "ack" /\ dtoken > 0 => dtoken \in executed

LinkInv ==
  /\ LinkTypes
  /\ TokensInOrder
  /\ TakenOnce
  /\ WorkIsNew
  /\ AckIsEarned

\* The link starts in the invariant, whatever an earlier run left behind.
LEMMA LinkInitInv == LinkInit => LinkInv
  BY SMT DEF LinkInit, LinkInv, LinkTypes, TokensInOrder, TakenOnce, WorkIsNew,
             AckIsEarned

\* What a transfer can do to the device.
LEMMA TransferInv ==
  ASSUME LinkInv, Transfer, token' = token
  PROVE  /\ executed' = executed
         /\ dpc' \in {"ready", "data", "busy", "stalled"}
         /\ dtoken' \in Nat
         /\ TokensInOrder'
         /\ WorkIsNew'
         /\ stage = "ack" => /\ dpc = "ack"
                             /\ token - 1 \in executed
         /\ stage # "ack" => /\ token > 1
                             /\ dtoken' = token - 1 \/ dpc' = "stalled"
<1> USE DEF LinkInv, LinkTypes, TokensInOrder, TakenOnce, WorkIsNew, AckIsEarned
<1>1. CASE stage = "command" /\ TakesCommand
  <2>1. CASE dpc = "ready"
    <3>1. /\ dpc' \in {"data", "busy"}
          /\ dtoken' = token - 1 /\ executed' = executed
      BY <1>1, <2>1 DEF TakesCommand
    <3>2. /\ token - 1 \in Nat /\ dtoken < token - 1 /\ token - 1 > 0
          /\ token - 1 < token
      BY <1>1, SMT
    <3>3. \A t \in executed : 1 <= t /\ t <= token - 1 /\ t # token - 1
      BY <3>2, SMT
    <3>4. token - 1 \notin executed /\ token > 1
      BY <3>2, <3>3, SMT
    <3> QED
      BY <1>1, <3>1, <3>2, <3>3, <3>4
  <2>2. CASE dpc = "data"
    <3>1. dpc' = "stalled" /\ dtoken' = dtoken /\ executed' = executed
      BY <1>1, <2>2 DEF TakesCommand
    <3>2. token > 1
      BY <1>1, SMT
    <3> QED
      BY <1>1, <3>1, <3>2
  <2> QED
    BY <1>1, <2>1, <2>2 DEF TakesCommand
<1>2. CASE stage = "data" /\ TakesData
  BY <1>2, SMT DEF TakesData
<1>3. CASE stage = "ack" /\ GivesAck
  BY <1>3, SMT DEF GivesAck
<1> QED
  BY <1>1, <1>2, <1>3 DEF Transfer

\* Every step keeps the invariant.
LEMMA LinkNextInv == LinkInv /\ [LinkNext]_linkVars => LinkInv'
<1> SUFFICES ASSUME LinkInv, [LinkNext]_linkVars PROVE LinkInv'
  OBVIOUS
<1> USE DEF LinkInv, LinkTypes, TokensInOrder, TakenOnce, WorkIsNew, AckIsEarned
<1>1. CASE UNCHANGED linkVars
  BY <1>1, SMT DEF linkVars, hostVars, deviceVars
<1>2. ASSUME NEW c, Call(c) PROVE LinkInv'
  BY <1>2, SMT DEF Call, deviceVars
<1>3. CASE TransferSucceeds
  <2>1. token' = token /\ Transfer
    BY <1>3 DEF TransferSucceeds
  <2>2. /\ stage = "command" => stage' \in {"data", "ack"}
        /\ stage = "data" => stage' = "ack"
        /\ stage = "ack" => stage' = "returned"
        /\ stage \in {"command", "data", "ack"}
        /\ ret' \in {"none", "ok", "error", "nodevice"}
    BY <1>3 DEF TransferSucceeds, Transfer
  <2>3. /\ LinkTypes'
        /\ TokensInOrder' /\ WorkIsNew' /\ AckIsEarned'
    BY <2>1, <2>2, TransferInv
  <2>4. TakenOnce'
    BY <2>1, <2>2, TransferInv
  <2> QED
    BY <2>3, <2>4
<1>4. CASE TransferFails
  BY <1>4, SMT DEF TransferFails, Fails, Transferring, deviceVars
<1>5. CASE TransferBreaks
  <2>1. token' = token /\ stage' = "returned" /\ ret' = "error"
    BY <1>5 DEF TransferBreaks, Fails
  <2>2. CASE Transfer
    BY <2>1, <2>2, TransferInv
  <2>3. CASE UNCHANGED deviceVars
    BY <2>1, <2>3, SMT DEF deviceVars
  <2> QED
    BY <1>5, <2>2, <2>3 DEF TransferBreaks
<1>6. CASE Resume
  BY <1>6, SMT DEF Resume, deviceVars
<1>7. CASE Execute
  BY <1>7, SMT DEF Execute, hostVars
<1>8. CASE Reject
  BY <1>8, SMT DEF Reject, hostVars
<1>9. CASE Unplug
  BY <1>9, SMT DEF Unplug, hostVars
<1>10. CASE IfReset
  BY <1>10, SMT DEF IfReset, hostVars
<1> QED
  BY <1>1, <1>2, <1>3, <1>4, <1>5, <1>6, <1>7, <1>8, <1>9, <1>10 DEF LinkNext

\* Every step of the link is a step of the service or leaves it alone.
LEMMA LinkStepServes ==
  LinkInv /\ [LinkNext]_linkVars => [Service!Next]_(Service!serviceVars)
<1> SUFFICES ASSUME LinkInv, [LinkNext]_linkVars
             PROVE  [Service!Next]_(Service!serviceVars)
  OBVIOUS
<1> USE DEF LinkInv, LinkTypes, Transferring
<1>1. CASE UNCHANGED linkVars
  BY <1>1 DEF linkVars, hostVars, deviceVars, Service!serviceVars
<1>2. ASSUME NEW c, Call(c) PROVE Service!Call
  BY <1>2, SMT DEF Call, deviceVars, Service!Call
<1>3. CASE TransferSucceeds
  <2>1. token' = token /\ Transfer
    BY <1>3 DEF TransferSucceeds
  <2>2. CASE stage \in {"command", "data"}
    BY <2>1, <2>2, <1>3, TransferInv DEF TransferSucceeds, Service!serviceVars
  <2>3. CASE stage = "ack"
    BY <2>1, <2>3, <1>3, TransferInv
    DEF TransferSucceeds, Service!Next, Service!Answer
  <2> QED
    BY <2>1, <2>2, <2>3 DEF Transfer
<1>4. CASE TransferFails
  BY <1>4 DEF TransferFails, Fails, deviceVars, Service!Next, Service!Answer
<1>5. CASE TransferBreaks
  <2>1. /\ token' = token /\ Transferring /\ stage' = "returned" /\ ret' = "error"
    BY <1>5 DEF TransferBreaks, Fails
  <2>2. executed' = executed
    BY <1>5, <2>1, TransferInv DEF TransferBreaks, deviceVars
  <2> QED
    BY <2>1, <2>2 DEF Service!Next, Service!Answer
<1>6. CASE Resume
  BY <1>6 DEF Resume, deviceVars, Service!serviceVars
<1>7. CASE Execute
  <2>1. UNCHANGED <<stage, token, ret>> /\ executed' = executed \cup ({dtoken} \ {0})
    BY <1>7 DEF Execute, hostVars
  <2>2. CASE dtoken = 0
    BY <2>1, <2>2 DEF Service!serviceVars
  <2>3. CASE dtoken # 0
    <3>1. /\ dtoken \in 1 .. token - 1
          /\ \A earlier \in executed : earlier < dtoken
      BY <1>7, <2>3, SMT DEF Execute, TokensInOrder, WorkIsNew
    <3>2. executed' = executed \cup {dtoken}
      BY <2>1, <2>3
    <3> QED
      BY <2>1, <3>1, <3>2 DEF Service!Next, Service!CarryOut
  <2> QED
    BY <2>2, <2>3
<1>8. CASE Reject \/ Unplug \/ IfReset
  BY <1>8 DEF Reject, Unplug, IfReset, hostVars, Service!serviceVars
<1> QED
  BY <1>1, <1>2, <1>3, <1>4, <1>5, <1>6, <1>7, <1>8 DEF LinkNext, Service!Next

\* The initial states of the link are those of the service.
LEMMA LinkInitServes == LinkInit => Service!Init
  BY DEF LinkInit, Transferring, Service!Init

\* send_picoboot_command and the device are an at-most-once, in-order command
\* service: an answer of success is never given for a command that was not
\* carried out, however transfers fail, time out or finish late.
THEOREM LinkImplementsService == LinkSpec => LinkIsService
<1>1. LinkSpec => []LinkInv
  BY LinkInitInv, LinkNextInv, PTL DEF LinkSpec
<1> QED
  BY <1>1, LinkInitServes, LinkStepServes, PTL
  DEF LinkSpec, LinkIsService, Service!Spec

=============================================================================
