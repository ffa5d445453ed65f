------------------------------ MODULE MCTable ------------------------------
(* Three avatars: the first and the last created are of one user. *)
EXTENDS Table

CONSTANTS u1, u2

TwoOwners == [a \in Avatars |-> IF a = 2 THEN u2 ELSE u1]
=============================================================================
