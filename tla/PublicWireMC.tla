---------------------------- MODULE PublicWireMC ----------------------------
(* A small instance of PublicWire for TLC. *)
EXTENDS PublicWire

CONSTANTS s1, s2

\* The second headline is of the second source, the others of the first.
MCSourceOf == [i \in Items |-> IF i = 2 THEN s2 ELSE s1]
=============================================================================
