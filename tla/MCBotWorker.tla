----------------------------- MODULE MCBotWorker -----------------------------
(* BotWorker for TLC: one bot, small bounds; see the .cfg files.            *)
EXTENDS BotWorker
=============================================================================
