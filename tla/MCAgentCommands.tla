--------------------------- MODULE MCAgentCommands ---------------------------
(* Small instances of AgentCommands for TLC.                                *)
EXTENDS AgentCommands

\* Playback numbers apart from the command numbers that can occur, and not.
OtherIds == {9}
SameIds  == {2}
==============================================================================
