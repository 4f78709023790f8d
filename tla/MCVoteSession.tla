---------------------------- MODULE MCVoteSession ----------------------------
(* Small instances of VoteSession for TLC.                                  *)
EXTENDS VoteSession

\* The code accepts 2..10 and starts with 5; of three films only 2 leaves one out.
MCTopNChoices == {2}
==============================================================================
