---------------------------- MODULE Subsequences ----------------------------
(***************************************************************************)
(* The part of a sequence that a loop over it keeps: a filter of a queue,  *)
(* or the splices that take single entries out of a list.                  *)
(***************************************************************************)
EXTENDS Integers, Sequences, FiniteSets

(* The place of i among the positions I. *)
Rank(I, i) == Cardinality({j \in I : j <= i})

(* The entries of s at the positions I, in their order. *)
Pick(s, I) == [k \in 1..Cardinality(I) |-> s[CHOOSE i \in I : Rank(I, i) = k]]
=============================================================================
