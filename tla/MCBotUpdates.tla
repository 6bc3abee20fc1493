----------------------------- MODULE MCBotUpdates -----------------------------
(* BotUpdates on a small instance. *)
EXTENDS BotUpdates
=============================================================================
