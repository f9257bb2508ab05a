-------------------------- MODULE TelegramMediaMC --------------------------
(* A small instance of TelegramMedia for TLC. *)
EXTENDS TelegramMedia

MCHandlers == {"manual"}
=============================================================================
