------------------------------ MODULE Selection ------------------------------
(***************************************************************************)
(* Array.prototype.filter, which the queues and worklists of the bridge    *)
(* and the relay are edited with: the members of a sequence that are in a  *)
(* set, in the order they have in the sequence.  It is defined by counting *)
(* positions, so that what it returns can be reasoned about.               *)
(***************************************************************************)
EXTENDS Integers, Sequences, FiniteSets

(* How many positions of I are not past j, and the position with n of them. *)
Rank(I, j) == Cardinality({k \in I : k <= j})
Nth(I, n) == CHOOSE j \in I : Rank(I, j) = n

(* The subsequence of s at the positions I.                                 *)
At(s, I) == [n \in 1..Cardinality(I) |-> s[Nth(I, n)]]

Where(s, K) == {i \in DOMAIN s : s[i] \in K}

(* The members of s in K.  Sequence and set are bound, so that their values *)
(* are computed once and not at every position.                             *)
Only(s, K) == CHOOSE t \in {At(u, Where(u, L)) : u \in {s}, L \in {K}} : TRUE
=============================================================================
