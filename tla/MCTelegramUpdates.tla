--------------------------- MODULE MCTelegramUpdates ---------------------------
EXTENDS TelegramUpdates
===============================================================================
