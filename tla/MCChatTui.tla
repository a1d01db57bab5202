------------------------------ MODULE MCChatTui ------------------------------
(* ChatTui with a small channel and few lines.                            *)
EXTENDS ChatTui
=============================================================================
