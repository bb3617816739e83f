----------------------------- MODULE AtLeastOnce -----------------------------
(***************************************************************************)
(* What the session bus promises a sender, with outbox, relay, links and   *)
(* crashes left out: the contract stated at the top of                     *)
(* bridge/src/session-bus/held-store.ts and relay-transport.ts.            *)
(*                                                                         *)
(* A written message is pending until it is settled for good, delivered or *)
(* refused.  It is reported delivered only when the receiving session      *)
(* holds it, and nothing is folded into that session once it has been      *)
(* reported delivered.  A refusal promises less: the receiver may hold a   *)
(* message its sender reports refused.                                     *)
(***************************************************************************)
EXTENDS Integers, Sequences

CONSTANT Msg

VARIABLES rung,    \* what the sender is told of each message
          inbox    \* what the receiving session holds, in order of arrival

vars == <<rung, inbox>>

Rungs == {"unsent", "pending", "delivered", "refused"}

Init ==
  /\ rung = [m \in Msg |-> "unsent"]
  /\ inbox = <<>>

Holds(m) == \E i \in DOMAIN inbox : inbox[i] = m

(* The moves one message may make.  One pass over the outbox may move       *)
(* several messages.                                                        *)
MayBecome(m, r) ==
  \/ r = rung[m]
  \/ rung[m] = "unsent" /\ r \in {"pending", "refused"}
  \/ rung[m] = "pending" /\ r = "refused"
  \/ rung[m] = "pending" /\ r = "delivered" /\ Holds(m)

Report ==
  \E new \in [Msg -> Rungs] :
    /\ \A m \in Msg : MayBecome(m, new[m])
    /\ rung' = new
    /\ UNCHANGED inbox

Fold(m) ==
  /\ rung[m] \in {"pending", "refused"}
  /\ inbox' = Append(inbox, m)
  /\ UNCHANGED rung

Next == Report \/ \E m \in Msg : Fold(m)

Spec == Init /\ [][Next]_vars
=============================================================================
