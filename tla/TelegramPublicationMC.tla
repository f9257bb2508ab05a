----------------------- MODULE TelegramPublicationMC -----------------------
(* Small instances of TelegramPublication for TLC. *)
EXTENDS TelegramPublication, TLC

MCPublishedAt == [i \in Items |-> 0]

\* One post leaves the publication window before the others.
MCStaggered ==
    LET first == CHOOSE i \in Items : TRUE
    IN  [i \in Items |-> IF i = first THEN 0 ELSE 1]

DeskSymmetry ==
    Permutations(Handlers) \cup Permutations(Headlines) \cup Permutations(Digests)

============================================================================
