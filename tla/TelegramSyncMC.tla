--------------------------- MODULE TelegramSyncMC ---------------------------
(* Small instances of TelegramSync for TLC. *)
EXTENDS TelegramSync

CONSTANTS c1, c2

\* All posts are of the first channel; the second only competes for turns.
MCHome == [p \in Posts |-> c1]

\* A post may lose its text and get one again.
MCLastVersion == [p \in Posts |-> 3]
MCInvalid == {<<1, 2>>}
=============================================================================
