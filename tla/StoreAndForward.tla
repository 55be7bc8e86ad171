-------------------------- MODULE StoreAndForward --------------------------
(***************************************************************************)
(* What a raw LoRa repeater promises, with no radio in sight: it owes the  *)
(* air a sequence of packets and sends exactly these, in order, each once. *)
(* It accepts a packet only when it owes nothing, since it has one radio   *)
(* and no queue.  A restart forgets everything.                            *)
(***************************************************************************)
EXTENDS Naturals, Sequences

CONSTANT Packets

VARIABLES
  owed,   \* the packets accepted for sending, in order
  sent    \* the packets sent

Init == owed = <<>> /\ sent = <<>>

Accept ==
  /\ sent = owed
  /\ \E p \in Packets : owed' = Append(owed, p)
  /\ UNCHANGED sent

Transmit ==
  /\ Len(sent) < Len(owed)
  /\ sent' = Append(sent, owed[Len(sent) + 1])
  /\ UNCHANGED owed

Restart == owed' = <<>> /\ sent' = <<>>

Next == Accept \/ Transmit \/ Restart

Spec == Init /\ [][Next]_<<owed, sent>>
=============================================================================
