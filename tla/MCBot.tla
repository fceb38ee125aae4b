------------------------------- MODULE MCBot -------------------------------
EXTENDS BotSystem
=============================================================================
