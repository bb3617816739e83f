--------------------------- MODULE MCDeliveryQueue ---------------------------
(***************************************************************************)
(* Instances of DeliveryQueue: two sessions, two lines for the first and   *)
(* one for the second; for liveness the first session alone.               *)
(***************************************************************************)
EXTENDS DeliveryQueue

CONSTANTS s1, s2, a, b, c

TwoSessions == {s1, s2}
ThreeLines == {a, b, c}
LineSessions == (a :> s1) @@ (b :> s1) @@ (c :> s2)
OneSession == {s1}
TwoLines == {a, b}
OneSessionLines == (a :> s1) @@ (b :> s1)
=============================================================================
