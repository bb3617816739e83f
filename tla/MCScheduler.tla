----------------------------- MODULE MCScheduler -----------------------------
(***************************************************************************)
(* Two instances of Scheduler.  One-off: two things to ask for, an instant *)
(* or a timetable (0 is Recurring), so that edits move a schedule from one *)
(* to the other while its run is being prepared.  Recurring: one thing to  *)
(* ask for and two occurrences, with a catch-up lead that only the earlier *)
(* hours of a period leave; stopping a session may be rejected.            *)
(***************************************************************************)
EXTENDS Scheduler

CONSTANTS a, b

OneAsk == {a}
TwoAsks == {a, b}
=============================================================================
