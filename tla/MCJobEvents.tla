----------------------------- MODULE MCJobEvents -----------------------------
(* Instances of JobEvents for TLC. *)
EXTENDS JobEvents

CONSTANTS a, b          \* two browsers

MCClients == {a, b}
MCRequests == [c \in MCClients |-> IF c = a THEN 2 ELSE 1]
=============================================================================
