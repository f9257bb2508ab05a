-------------------------- MODULE SourceRegistryMC --------------------------
(* A small instance of SourceRegistry for TLC. *)
EXTENDS SourceRegistry, TLC

CONSTANTS site, name

MCNames == {name}
MCUrls == {site, name}

\* Two channels that show the same title.
MCIdentities == {[id |-> 1, title |-> "a"], [id |-> 2, title |-> "a"]}

Symmetric == Permutations(Handlers)
=============================================================================
