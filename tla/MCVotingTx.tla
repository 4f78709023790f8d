------------------------------ MODULE MCVotingTx -----------------------------
(* Small instances of VotingTx for TLC.                                     *)
EXTENDS VotingTx, TLC

\* Workers, members, titles and row ids are interchangeable.
Symmetric == Permutations(Workers) \union Permutations(Users)
             \union Permutations(Titles) \union Permutations(Rows)
==============================================================================
