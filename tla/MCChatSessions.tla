---------------------------- MODULE MCChatSessions ----------------------------
(* Small instances of ChatSessions for TLC.                                 *)
EXTENDS ChatSessions, TLC

Symmetric == Permutations(Tasks)
==============================================================================
