----------------------------- MODULE SafeFetchMC -----------------------------
(* A small instance of SafeFetch for TLC. *)
EXTENDS SafeFetch

MCHandlers == {"manual"}
=============================================================================
