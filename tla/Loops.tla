------------------------------- MODULE Loops -------------------------------
(***************************************************************************)
(* The loops over slices that the commands and the benchmark harness are   *)
(* made of: each round appends to the result.                              *)
(***************************************************************************)
EXTENDS Integers, Sequences

\* A finite list, whatever its elements are.
IsList(s) == Len(s) \in Nat /\ DOMAIN s = 1..Len(s)

\* What the rounds of a loop yield, one after the other.
Joined(rounds) ==
    LET done[i \in 0..Len(rounds)] == IF i = 0 THEN <<>> ELSE done[i - 1] \o rounds[i]
    IN  done[Len(rounds)]

\* Each(seq, Body) runs Body for the elements in order.
Each(seq, Body(_)) == Joined([i \in 1..Len(seq) |-> Body(seq[i])])

\* The elements at some places, in their order.
Picked(seq, places) == Joined([i \in 1..Len(seq) |-> IF i \in places THEN <<seq[i]>> ELSE <<>>])

\* A loop that appends the elements that pass the test.
Filter(seq, Test(_)) == Picked(seq, {i \in 1..Len(seq) : Test(seq[i])})

Upto(n) == [i \in 1..n |-> i]
=============================================================================
