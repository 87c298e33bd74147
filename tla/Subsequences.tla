---------------------------- MODULE Subsequences ----------------------------
(***************************************************************************)
(* The part of a sequence at some of its places, in its order: what is     *)
(* left of a linked list or a queue after entries are taken out, and what  *)
(* a filter keeps.  In place of SelectSeq, of which the prover knows       *)
(* nothing.                                                                *)
(***************************************************************************)
EXTENDS Integers, FiniteSets, Sequences

UpTo(places, i) == {j \in places : j <= i}

(* The k-th of a set of places. *)
Nth(places, k) == CHOOSE i \in places : Cardinality(UpTo(places, i)) = k

PartAt(s, places) == [k \in 1..Cardinality(places) |-> s[Nth(places, k)]]

(* What is left of s without the elements of S, and what s has of them. *)
Without(s, S) == PartAt(s, {i \in DOMAIN s : s[i] \notin S})
OnlyIn(s, S)  == PartAt(s, {i \in DOMAIN s : s[i] \in S})
=============================================================================
