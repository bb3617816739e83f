----------------------------- MODULE MCBusQueue -----------------------------
(* Instances of BusQueue for TLC.  Devices are interchangeable, so are      *)
(* accounts and message ids.                                                *)
EXTENDS BusQueue, TLC

Symmetry == Permutations(Uid) \cup Permutations(Device) \cup Permutations(Id)
=============================================================================
