---------------------------- MODULE SpiTransfers ----------------------------
(***************************************************************************)
(* What the driver takes Sx1276::transfer() for, and what the steps of     *)
(* module Sx1276 are: the chip executes the command of a call at most once *)
(* and within the call, and a call that succeeds was executed.             *)
(***************************************************************************)
VARIABLES
  call,      \* "running", or how the last one ended: "succeeded", "failed"
  executed   \* how often the chip has executed its command

Init == call = "failed" /\ executed = 0

Begin == call # "running" /\ call' = "running" /\ executed' = 0

Execute == call = "running" /\ executed = 0 /\ executed' = 1 /\ UNCHANGED call

Succeed == call = "running" /\ executed = 1 /\ call' = "succeeded" /\ UNCHANGED executed

\* A failed call, or one that the process does not survive, may have been
\* executed or not.
Fail == call = "running" /\ call' = "failed" /\ UNCHANGED executed

Next == Begin \/ Execute \/ Succeed \/ Fail

Spec == Init /\ [][Next]_<<call, executed>>
=============================================================================
