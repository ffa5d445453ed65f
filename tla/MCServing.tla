------------------------------ MODULE MCServing ------------------------------
(* Two users; the first has the avatars to choose between. *)
EXTENDS Serving, TLC

CONSTANTS u1, u2

OneOwner == [a \in Avatars |-> u1]

Symmetry == Permutations(Requests)
=============================================================================
