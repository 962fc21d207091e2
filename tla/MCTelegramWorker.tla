-------------------------- MODULE MCTelegramWorker --------------------------
(* Small instances of TelegramWorker for TLC. *)
EXTENDS TelegramWorker
=============================================================================
