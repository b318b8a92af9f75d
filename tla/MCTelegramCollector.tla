------------------------ MODULE MCTelegramCollector ------------------------
(* Small instances of TelegramCollector for TLC. *)
EXTENDS TelegramCollector, TLC

CONSTANTS t1, t2
=============================================================================
