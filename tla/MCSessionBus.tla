---------------------------- MODULE MCSessionBus ----------------------------
(* Instances of SessionBus for TLC, and what comments in the source say of  *)
(* the bus that the code does not quite keep.                               *)
EXTENDS SessionBus

(* message-log.ts:28 of refusedAt: "The message will never be delivered".   *)
RefusedIsNeverDelivered ==
  \A m \in Msgs : "refused" \in stamps[m] => ~Applied(m)
=============================================================================
