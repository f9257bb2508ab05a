-------------------------- MODULE FeedCollectionMC --------------------------
(* Small instances of FeedCollection for TLC. *)
EXTENDS FeedCollection, TLC

CONSTANTS v1, v2

\* The second body edits an entry of the first and adds one.
MCEntries ==
    (v1 :> <<[id |-> "a", digest |-> 1]>>)
    @@ (v2 :> <<[id |-> "b", digest |-> 1], [id |-> "a", digest |-> 2]>>)

HandlerSymmetry == Permutations(Handlers)
=============================================================================
