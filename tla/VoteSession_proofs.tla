-------------------------- MODULE VoteSession_proofs -------------------------
(***************************************************************************)
(* Proofs about VoteSession, for every set of members and films, every     *)
(* quorum and every top-N.                                                 *)
(***************************************************************************)
EXTENDS VoteSession, FiniteSetTheorems, TLAPS

\* Every step is one of these; cited where a step is split by action.
LEMMA NextCases ==
  ASSUME Next
  PROVE  \/ \E m \in Movies : suggest_movie(m)
         \/ \E u \in Users, m \in Movies : add_fire_reaction(u, m)
         \/ \E u \in Users, m \in Movies : remove_fire_reaction(u, m)
         \/ \E n \in TopNChoices : set_top_n(n)
         \/ end_suggest /\ jobs' \subseteq jobs \union {"end_vote"}
         \/ \E u \in Users, m \in Movies : cast_final_vote(u, m)
         \/ \E w \in Movies : select_winner(w) /\ min_votes_met /\ state' = "downloading"
                              /\ jobs' \subseteq jobs
         \/ UNCHANGED <<top_n, rows>> /\ state' = state /\ jobs' \subseteq jobs
         \/ cancel_session
         \/ retry_vote
         \/ cmd_provide_link
         \/ cmd_retry_download
         \/ cmd_play
         \/ cmd_stop
<1>1. CASE cmd_end_suggest
  BY <1>1 DEF cmd_end_suggest
<1>2. CASE end_suggest_job
  BY <1>2 DEF end_suggest_job
<1>3. CASE end_final_vote_job
  <2>1. jobs' \subseteq jobs
    BY <1>3 DEF end_final_vote_job
  <2>2. CASE FinalVoteDecided
    BY <2>1, <2>2 DEF FinalVoteDecided
  <2>3. CASE QuorumMissed
    BY <2>1, <2>3 DEF QuorumMissed, can_transition, VALID_TRANSITIONS
  <2>4. CASE NothingToDecide
    BY <2>1, <2>4 DEF NothingToDecide
  <2>5. CASE UNCHANGED <<state, top_n, rows>>
    BY <2>1, <2>5
  <2>6. QED
    BY <1>3, <2>2, <2>3, <2>4, <2>5 DEF end_final_vote_job
<1>4. CASE cmd_retry_vote
  BY <1>4 DEF cmd_retry_vote
<1>5. QED
  BY <1>1, <1>2, <1>3, <1>4 DEF Next

------------------------------------------------------------------------------
\* Every transaction of the voting service leaves every column within its type.
THEOREM TypeCorrect == Spec => []TypeOK
<1>1. Init => TypeOK
  BY TopNIsNat DEF Init, TypeOK, States, MovieStatuses
<1>2. TypeOK /\ [Next]_vars => TypeOK'
  <2> SUFFICES ASSUME TypeOK, [Next]_vars PROVE TypeOK'
    OBVIOUS
  <2>0. CASE UNCHANGED vars
    BY <2>0 DEF TypeOK, vars, rows
  <2> SUFFICES ASSUME Next PROVE TypeOK'
    BY <2>0
  <2>1. ASSUME NEW m \in Movies, suggest_movie(m) PROVE TypeOK'
    BY <2>1 DEF TypeOK, suggest_movie, MovieStatuses
  <2>2. ASSUME NEW u \in Users, NEW m \in Movies, add_fire_reaction(u, m) PROVE TypeOK'
    BY <2>2 DEF TypeOK, add_fire_reaction, MovieStatuses
  <2>3. ASSUME NEW u \in Users, NEW m \in Movies, remove_fire_reaction(u, m) PROVE TypeOK'
    BY <2>3 DEF TypeOK, remove_fire_reaction, Max0
  <2>4. ASSUME NEW n \in TopNChoices, set_top_n(n) PROVE TypeOK'
    BY <2>4, TopNIsNat DEF TypeOK, set_top_n, rows
  <2>5. ASSUME end_suggest, jobs' \subseteq jobs \union {"end_vote"} PROVE TypeOK'
    BY <2>5 DEF TypeOK, end_suggest, run_filter_stage, MovieStatuses, States
  <2>6. ASSUME NEW u \in Users, NEW m \in Movies, cast_final_vote(u, m) PROVE TypeOK'
    BY <2>6 DEF TypeOK, cast_final_vote
  <2>7. ASSUME NEW w \in Movies, select_winner(w), state' = "downloading",
               jobs' \subseteq jobs
        PROVE TypeOK'
    BY <2>7 DEF TypeOK, select_winner, States, MovieStatuses
  <2>8. ASSUME UNCHANGED <<top_n, rows>>, state' = state, jobs' \subseteq jobs PROVE TypeOK'
    BY <2>8 DEF TypeOK, rows
  <2>9. ASSUME cancel_session PROVE TypeOK'
    BY <2>9 DEF TypeOK, cancel_session, rows, States
  <2>10. ASSUME retry_vote PROVE TypeOK'
    BY <2>10 DEF TypeOK, retry_vote, States, MovieStatuses
  <2>11. ASSUME cmd_provide_link PROVE TypeOK'
    BY <2>11 DEF TypeOK, cmd_provide_link, WithStatus, States
  <2>12. ASSUME cmd_retry_download \/ cmd_play \/ cmd_stop PROVE TypeOK'
    BY <2>12 DEF TypeOK, cmd_retry_download, cmd_play, cmd_stop, rows, States
  <2> HIDE DEF TypeOK
  <2>13. QED
    BY <2>1, <2>2, <2>3, <2>4, <2>5, <2>6, <2>7, <2>8, <2>9, <2>10, <2>11, <2>12, NextCases
<1>3. QED
  BY <1>1, <1>2, PTL DEF Spec

------------------------------------------------------------------------------
\* The part of the invariant that says where a winner, a ballot and a status
\* can come from; the others rest on it.
Shape == RoundStartsClean /\ WinnerIsUnique

\* A committed round starts clean, its winner is unique, and there is one
\* wherever the download and playback handlers look for it.
THEOREM RoundShape == Spec => []Shape
<1>1. Init => Shape
  BY NoneIsNoMovie DEF Init, Shape, RoundStartsClean, WinnerIsUnique, Decided
<1>2. TypeOK /\ Shape /\ [Next]_vars => Shape'
  <2> SUFFICES ASSUME TypeOK, Shape, [Next]_vars PROVE Shape'
    OBVIOUS
  <2> USE DEF Shape
  <2>0. CASE UNCHANGED vars
    BY <2>0 DEF vars, rows, RoundStartsClean, WinnerIsUnique, Decided
  <2> SUFFICES ASSUME Next PROVE Shape'
    BY <2>0
  <2>1. ASSUME NEW m \in Movies, suggest_movie(m) PROVE Shape'
    BY <2>1, NoneIsNoMovie DEF TypeOK, suggest_movie, RoundStartsClean, WinnerIsUnique, Decided
  <2>2. ASSUME NEW u \in Users, NEW m \in Movies, add_fire_reaction(u, m) PROVE Shape'
    BY <2>2, NoneIsNoMovie DEF TypeOK, add_fire_reaction, RoundStartsClean, WinnerIsUnique, Decided
  <2>3. ASSUME NEW u \in Users, NEW m \in Movies, remove_fire_reaction(u, m) PROVE Shape'
    BY <2>3 DEF TypeOK, remove_fire_reaction, RoundStartsClean, WinnerIsUnique, Decided
  <2>4. ASSUME NEW n \in TopNChoices, set_top_n(n) PROVE Shape'
    BY <2>4 DEF set_top_n, rows, RoundStartsClean, WinnerIsUnique, Decided
  <2>5. ASSUME end_suggest PROVE Shape'
    BY <2>5, NoneIsNoMovie
       DEF TypeOK, end_suggest, run_filter_stage, RoundStartsClean, WinnerIsUnique, Decided
  <2>6. ASSUME NEW u \in Users, NEW m \in Movies, cast_final_vote(u, m) PROVE Shape'
    BY <2>6 DEF TypeOK, cast_final_vote, RoundStartsClean, WinnerIsUnique, Decided
  <2>7. ASSUME NEW w \in Movies, select_winner(w), state' = "downloading" PROVE Shape'
    BY <2>7, NoneIsNoMovie
       DEF TypeOK, select_winner, WithStatus, RoundStartsClean, WinnerIsUnique, Decided
  <2>8. ASSUME UNCHANGED <<top_n, rows>>, state' = state PROVE Shape'
    BY <2>8 DEF rows, RoundStartsClean, WinnerIsUnique, Decided
  <2>9. ASSUME cancel_session PROVE Shape'
    BY <2>9 DEF cancel_session, rows, RoundStartsClean, WinnerIsUnique, Decided
  <2>10. ASSUME retry_vote PROVE Shape'
    BY <2>10, NoneIsNoMovie DEF TypeOK, retry_vote, RoundStartsClean, WinnerIsUnique, Decided
  <2>11. ASSUME cmd_provide_link PROVE Shape'
    BY <2>11 DEF cmd_provide_link, RoundStartsClean, WinnerIsUnique, Decided
  <2>12. ASSUME cmd_retry_download \/ cmd_play \/ cmd_stop PROVE Shape'
    BY <2>12
       DEF cmd_retry_download, cmd_play, cmd_stop, rows, RoundStartsClean, WinnerIsUnique, Decided
  <2> HIDE DEF Shape
  <2>13. QED
    BY <2>1, <2>2, <2>3, <2>4, <2>5, <2>6, <2>7, <2>8, <2>9, <2>10, <2>11, <2>12, NextCases
<1>3. QED
  BY <1>1, <1>2, TypeCorrect, PTL DEF Spec

------------------------------------------------------------------------------
\* The two facts about ballots go together: who has one, and for what.
Ballots == OneFinalVotePerUser /\ BallotsOnlyForFinalists

\* One ballot per member, and only for films that are still in the final.
THEOREM BallotsAreFair == Spec => []Ballots
<1>1. Init => Ballots
  BY DEF Init, Ballots, OneFinalVotePerUser, BallotsOnlyForFinalists
<1>2. TypeOK /\ Shape /\ Ballots /\ [Next]_vars => Ballots'
  <2> SUFFICES ASSUME TypeOK, Shape, Ballots, [Next]_vars PROVE Ballots'
    OBVIOUS
  <2> USE DEF Ballots
  <2>0. CASE UNCHANGED vars
    BY <2>0 DEF vars, rows, OneFinalVotePerUser, BallotsOnlyForFinalists
  <2> SUFFICES ASSUME Next PROVE Ballots'
    BY <2>0
  <2>1. ASSUME NEW m \in Movies, suggest_movie(m) PROVE Ballots'
    BY <2>1 DEF TypeOK, suggest_movie, Shape, RoundStartsClean, OneFinalVotePerUser, BallotsOnlyForFinalists
  <2>2. ASSUME NEW u \in Users, NEW m \in Movies, add_fire_reaction(u, m) PROVE Ballots'
    BY <2>2 DEF TypeOK, add_fire_reaction, Shape, RoundStartsClean, OneFinalVotePerUser, BallotsOnlyForFinalists
  <2>3. ASSUME NEW u \in Users, NEW m \in Movies, remove_fire_reaction(u, m) PROVE Ballots'
    BY <2>3 DEF remove_fire_reaction, OneFinalVotePerUser, BallotsOnlyForFinalists
  <2>4. ASSUME NEW n \in TopNChoices, set_top_n(n) PROVE Ballots'
    BY <2>4 DEF set_top_n, rows, OneFinalVotePerUser, BallotsOnlyForFinalists
  <2>5. ASSUME end_suggest PROVE Ballots'
    BY <2>5 DEF end_suggest, Shape, RoundStartsClean, OneFinalVotePerUser, BallotsOnlyForFinalists
  <2>6. ASSUME NEW u \in Users, NEW m \in Movies, cast_final_vote(u, m) PROVE Ballots'
    <3>1. m \in movies /\ status[m] = "finalist" /\ \A n \in Movies : <<u, n>> \notin ballots
      BY <2>6 DEF cast_final_vote, WithStatus
    <3>2. ballots' = ballots \union {<<u, m>>} /\ status' = status /\ movies' = movies
      BY <2>6 DEF cast_final_vote
    <3>3. OneFinalVotePerUser'
      BY <3>1, <3>2 DEF OneFinalVotePerUser
    <3>4. BallotsOnlyForFinalists'
      BY <3>1, <3>2 DEF BallotsOnlyForFinalists
    <3>5. QED
      BY <3>3, <3>4
  <2>7. ASSUME NEW w \in Movies, select_winner(w) PROVE Ballots'
    BY <2>7 DEF TypeOK, select_winner, OneFinalVotePerUser, BallotsOnlyForFinalists
  <2>8. ASSUME UNCHANGED <<top_n, rows>> PROVE Ballots'
    BY <2>8 DEF rows, OneFinalVotePerUser, BallotsOnlyForFinalists
  <2>9. ASSUME cancel_session \/ cmd_retry_download \/ cmd_play \/ cmd_stop PROVE Ballots'
    BY <2>9 DEF cancel_session, cmd_retry_download, cmd_play, cmd_stop, rows,
                OneFinalVotePerUser, BallotsOnlyForFinalists
  <2>10. ASSUME retry_vote PROVE Ballots'
    BY <2>10 DEF retry_vote, OneFinalVotePerUser, BallotsOnlyForFinalists
  <2>11. ASSUME cmd_provide_link PROVE Ballots'
    BY <2>11 DEF cmd_provide_link, OneFinalVotePerUser, BallotsOnlyForFinalists
  <2> HIDE DEF Ballots
  <2>12. QED
    BY <2>1, <2>2, <2>3, <2>4, <2>5, <2>6, <2>7, <2>8, <2>9, <2>10, <2>11, NextCases
<1>3. QED
  BY <1>1, <1>2, TypeCorrect, RoundShape, PTL DEF Spec

\* The first half on its own: no member is counted twice in the final vote.
COROLLARY OneVoteEach == Spec => []OneFinalVotePerUser
  BY BallotsAreFair, PTL DEF Ballots

------------------------------------------------------------------------------
Outcome == WinnerIsLegitimate /\ ReadyHasWinnersFile

\* The winner has the quorum and no finalist beats it, in every later state;
\* and a session is ready to play only with that film's file at hand.
THEOREM OutcomeIsLegitimate == Spec => []Outcome
<1>1. Init => Outcome
  BY DEF Init, Outcome, WinnerIsLegitimate, ReadyHasWinnersFile
<1>2. TypeOK /\ Shape /\ Outcome /\ [Next]_vars => Outcome'
  <2> SUFFICES ASSUME TypeOK, Shape, Outcome, [Next]_vars PROVE Outcome'
    OBVIOUS
  <2> USE DEF Outcome
  <2>0. CASE UNCHANGED vars
    BY <2>0 DEF vars, rows, WinnerIsLegitimate, ReadyHasWinnersFile, WithStatus, min_votes_met
  <2> SUFFICES ASSUME Next PROVE Outcome'
    BY <2>0
  <2>1. ASSUME NEW m \in Movies, suggest_movie(m) PROVE Outcome'
    BY <2>1 DEF suggest_movie, Shape, RoundStartsClean, WinnerIsLegitimate, ReadyHasWinnersFile
  <2>2. ASSUME NEW u \in Users, NEW m \in Movies, add_fire_reaction(u, m) PROVE Outcome'
    BY <2>2 DEF add_fire_reaction, Shape, RoundStartsClean, WinnerIsLegitimate, ReadyHasWinnersFile
  <2>3. ASSUME NEW u \in Users, NEW m \in Movies, remove_fire_reaction(u, m) PROVE Outcome'
    BY <2>3 DEF remove_fire_reaction, WinnerIsLegitimate, ReadyHasWinnersFile, WithStatus, min_votes_met
  <2>4. ASSUME NEW n \in TopNChoices, set_top_n(n) PROVE Outcome'
    BY <2>4 DEF set_top_n, rows, WinnerIsLegitimate, ReadyHasWinnersFile, WithStatus, min_votes_met
  <2>5. ASSUME end_suggest PROVE Outcome'
    BY <2>5 DEF end_suggest, Shape, RoundStartsClean, WinnerIsLegitimate, ReadyHasWinnersFile
  <2>6. ASSUME NEW u \in Users, NEW m \in Movies, cast_final_vote(u, m) PROVE Outcome'
    BY <2>6 DEF cast_final_vote, Shape, RoundStartsClean, WinnerIsLegitimate, ReadyHasWinnersFile
  <2>7. ASSUME NEW w \in Movies, select_winner(w), min_votes_met, state' = "downloading"
        PROVE Outcome'
    <3>1. WinnerIsLegitimate'
      BY <2>7 DEF TypeOK, select_winner, WinnerIsLegitimate, WithStatus, min_votes_met
    <3>2. ReadyHasWinnersFile'
      BY <2>7 DEF ReadyHasWinnersFile
    <3>3. QED
      BY <3>1, <3>2
  <2>8. ASSUME UNCHANGED <<top_n, rows>>, state' = state PROVE Outcome'
    BY <2>8 DEF rows, WinnerIsLegitimate, ReadyHasWinnersFile, WithStatus, min_votes_met
  <2>9. ASSUME cancel_session \/ cmd_retry_download PROVE Outcome'
    BY <2>9 DEF cancel_session, cmd_retry_download, rows, WinnerIsLegitimate,
                ReadyHasWinnersFile, WithStatus, min_votes_met
  <2>10. ASSUME retry_vote PROVE Outcome'
    BY <2>10 DEF retry_vote, WinnerIsLegitimate, ReadyHasWinnersFile
  <2>11. ASSUME cmd_provide_link PROVE Outcome'
    <3>1. WinnerIsLegitimate'
      BY <2>11 DEF cmd_provide_link, WinnerIsLegitimate, WithStatus, min_votes_met
    <3>2. winner_movie_id \in WithStatus("winner")
      BY <2>11 DEF cmd_provide_link, TypeOK, Shape, WinnerIsUnique, Decided, WithStatus
    <3>3. ReadyHasWinnersFile'
      BY <2>11, <3>2 DEF cmd_provide_link, ReadyHasWinnersFile
    <3>4. QED
      BY <3>1, <3>3
  <2>12. ASSUME cmd_play \/ cmd_stop PROVE Outcome'
    BY <2>12 DEF cmd_play, cmd_stop, rows, WinnerIsLegitimate, ReadyHasWinnersFile,
                 WithStatus, min_votes_met
  <2> HIDE DEF Outcome
  <2>13. QED
    BY <2>1, <2>2, <2>3, <2>4, <2>5, <2>6, <2>7, <2>8, <2>9, <2>10, <2>11, <2>12, NextCases
<1>3. QED
  BY <1>1, <1>2, TypeCorrect, RoundShape, PTL DEF Spec

------------------------------------------------------------------------------
(* Counters.                                                                *)

\* The voters of a film among finitely many members are finitely many.
LEMMA VotersFinite ==
  ASSUME NEW rel, NEW m
  PROVE  IsFiniteSet(VotersOf(rel, m)) /\ Cardinality(VotersOf(rel, m)) \in Nat
<1>1. VotersOf(rel, m) \subseteq Users
  BY DEF VotersOf
<1>2. QED
  BY <1>1, UsersFinite, FS_Subset, FS_CardinalityType

\* A new vote adds one to its film's voters and touches no other film's.
LEMMA VoteAdded ==
  ASSUME NEW rel, NEW u \in Users, NEW m, NEW n, <<u, m>> \notin rel
  PROVE  Cardinality(VotersOf(rel \union {<<u, m>>}, n)) =
           IF n = m THEN Cardinality(VotersOf(rel, n)) + 1
                    ELSE Cardinality(VotersOf(rel, n))
<1>1. CASE n = m
  <2>1. VotersOf(rel \union {<<u, m>>}, n) = VotersOf(rel, n) \union {u}
    BY <1>1 DEF VotersOf
  <2>2. u \notin VotersOf(rel, n)
    BY <1>1 DEF VotersOf
  <2>3. QED
    BY <1>1, <2>1, <2>2, VotersFinite, FS_AddElement
<1>2. CASE n # m
  <2>1. VotersOf(rel \union {<<u, m>>}, n) = VotersOf(rel, n)
    BY <1>2 DEF VotersOf
  <2>2. QED
    BY <1>2, <2>1
<1>3. QED
  BY <1>1, <1>2

\* A vote taken back subtracts one from its film's voters, who were not none.
LEMMA VoteRemoved ==
  ASSUME NEW rel, NEW u \in Users, NEW m, NEW n, <<u, m>> \in rel
  PROVE  Cardinality(VotersOf(rel \ {<<u, m>>}, n)) =
           IF n = m THEN Max0(Cardinality(VotersOf(rel, n)) - 1)
                    ELSE Cardinality(VotersOf(rel, n))
<1>1. CASE n = m
  <2> DEFINE left == VotersOf(rel \ {<<u, m>>}, n)
  <2>1. VotersOf(rel, n) = left \union {u} /\ u \notin left
    BY <1>1 DEF VotersOf
  <2>2. IsFiniteSet(left) /\ Cardinality(left) \in Nat
    BY VotersFinite
  <2>3. Cardinality(VotersOf(rel, n)) = Cardinality(left) + 1
    BY <2>1, <2>2, FS_AddElement
  <2>4. QED
    BY <1>1, <2>2, <2>3 DEF Max0
<1>2. CASE n # m
  <2>1. VotersOf(rel \ {<<u, m>>}, n) = VotersOf(rel, n)
    BY <1>2 DEF VotersOf
  <2>2. QED
    BY <1>2, <2>1
<1>3. QED
  BY <1>1, <1>2

\* Without votes nobody has voted.
LEMMA NoVotes ==
  ASSUME NEW m
  PROVE  Cardinality(VotersOf({}, m)) = 0
<1>1. VotersOf({}, m) = {}
  BY DEF VotersOf
<1>2. QED
  BY <1>1, FS_EmptySet

\* reaction_count and final_votes always equal the rows of the votes table.
THEOREM CountersCorrect == Spec => []CountersMatchVotes
<1>1. Init => CountersMatchVotes
  BY NoVotes DEF Init, CountersMatchVotes
<1>2. TypeOK /\ Shape /\ CountersMatchVotes /\ [Next]_vars => CountersMatchVotes'
  <2> SUFFICES ASSUME TypeOK, Shape, CountersMatchVotes, [Next]_vars
               PROVE CountersMatchVotes'
    OBVIOUS
  <2>0. CASE UNCHANGED vars
    BY <2>0 DEF vars, rows, CountersMatchVotes
  <2> SUFFICES ASSUME Next PROVE CountersMatchVotes'
    BY <2>0
  <2>1. ASSUME NEW m \in Movies, suggest_movie(m) PROVE CountersMatchVotes'
    <3>1. VotersOf(fires, m) = {}
      BY <2>1 DEF suggest_movie, Shape, RoundStartsClean, VotersOf
    <3>2. Cardinality(VotersOf(fires, m)) = 0
      BY <3>1, FS_EmptySet
    <3>3. QED
      BY <2>1, <3>2 DEF TypeOK, suggest_movie, CountersMatchVotes
  <2>2. ASSUME NEW u \in Users, NEW m \in Movies, add_fire_reaction(u, m)
        PROVE CountersMatchVotes'
    BY <2>2, VoteAdded DEF TypeOK, add_fire_reaction, CountersMatchVotes
  <2>3. ASSUME NEW u \in Users, NEW m \in Movies, remove_fire_reaction(u, m)
        PROVE CountersMatchVotes'
    BY <2>3, VoteRemoved DEF TypeOK, remove_fire_reaction, CountersMatchVotes
  <2>4. ASSUME NEW n \in TopNChoices, set_top_n(n) PROVE CountersMatchVotes'
    BY <2>4 DEF set_top_n, rows, CountersMatchVotes
  <2>5. ASSUME end_suggest PROVE CountersMatchVotes'
    BY <2>5 DEF end_suggest, CountersMatchVotes
  <2>6. ASSUME NEW u \in Users, NEW m \in Movies, cast_final_vote(u, m)
        PROVE CountersMatchVotes'
    <3>1. <<u, m>> \notin ballots
      BY <2>6 DEF cast_final_vote
    <3>2. QED
      BY <2>6, <3>1, VoteAdded DEF TypeOK, cast_final_vote, CountersMatchVotes
  <2>7. ASSUME NEW w \in Movies, select_winner(w) PROVE CountersMatchVotes'
    BY <2>7 DEF select_winner, CountersMatchVotes
  <2>8. ASSUME UNCHANGED <<top_n, rows>> PROVE CountersMatchVotes'
    BY <2>8 DEF rows, CountersMatchVotes
  <2>9. ASSUME cancel_session \/ cmd_retry_download \/ cmd_play \/ cmd_stop
        PROVE CountersMatchVotes'
    BY <2>9 DEF cancel_session, cmd_retry_download, cmd_play, cmd_stop, rows, CountersMatchVotes
  <2>10. ASSUME retry_vote PROVE CountersMatchVotes'
    BY <2>10, NoVotes DEF retry_vote, CountersMatchVotes
  <2>11. ASSUME cmd_provide_link PROVE CountersMatchVotes'
    BY <2>11 DEF cmd_provide_link, CountersMatchVotes
  <2>12. QED
    BY <2>1, <2>2, <2>3, <2>4, <2>5, <2>6, <2>7, <2>8, <2>9, <2>10, <2>11, NextCases
<1>3. QED
  BY <1>1, <1>2, TypeCorrect, RoundShape, PTL DEF Spec

------------------------------------------------------------------------------
(* The Top-N filter.                                                        *)

\* An order of the reacted films lists each of them exactly once.
LEMMA OrderListsAll ==
  ASSUME TypeOK, NEW order \in ReactionOrders
  PROVE  /\ IsFiniteSet(Reacted) /\ Cardinality(Reacted) \in Nat
         /\ order \in Bijection(1..Cardinality(Reacted), Reacted)
<1> DEFINE K == Cardinality(Reacted)
<1>1. IsFiniteSet(Reacted) /\ K \in Nat
  <2>1. Reacted \subseteq Movies
    BY DEF Reacted, TypeOK
  <2>2. QED
    BY <2>1, MoviesFinite, FS_Subset, FS_CardinalityType
<1>2. IsFiniteSet(1..K) /\ Cardinality(1..K) = K
  BY <1>1, FS_Interval
<1>3. order \in Injection(1..K, Reacted)
  <2>1. order \in [1..K -> Reacted]
    BY DEF ReactionOrders
  <2>2. ASSUME NEW i \in 1..K, NEW j \in 1..K, i # j PROVE order[i] # order[j]
    <3>1. i < j \/ j < i
      BY <1>1, <2>2
    <3>2. QED
      BY <3>1 DEF ReactionOrders
  <2>3. QED
    BY <2>1, <2>2 DEF Injection, IsInjective
<1>4. order \in Surjection(1..K, Reacted)
  BY <1>1, <1>2, <1>3, FS_Injection
<1>5. QED
  BY <1>1, <1>3, <1>4 DEF Bijection

\* The first n entries of such an order are n films, or all of them.
LEMMA PrefixSize ==
  ASSUME TypeOK, NEW order \in ReactionOrders, NEW n \in Nat
  PROVE  LET kept == {m \in Reacted : \E i \in DOMAIN order : i <= n /\ order[i] = m}
         IN  /\ Cardinality(kept) <= n
             /\ kept # Reacted => Cardinality(kept) = n
<1> DEFINE K == Cardinality(Reacted)
           L == IF n < K THEN n ELSE K
           kept == {m \in Reacted : \E i \in DOMAIN order : i <= n /\ order[i] = m}
           prefix == [i \in 1..L |-> order[i]]
<1>1. K \in Nat /\ order \in Bijection(1..K, Reacted)
  BY OrderListsAll
<1>2. /\ order \in [1..K -> Reacted]
      /\ \A i, j \in 1..K : order[i] = order[j] => i = j
      /\ \A m \in Reacted : \E i \in 1..K : order[i] = m
  BY <1>1 DEF Bijection, Injection, IsInjective, Surjection
<1>3. L \in Nat /\ L <= n /\ 1..L \subseteq 1..K
  BY <1>1
<1>4. prefix \in Bijection(1..L, kept)
  <2>1. \A i \in 1..L : order[i] \in kept
    BY <1>1, <1>2, <1>3
  <2>2. prefix \in [1..L -> kept]
    BY <2>1
  <2>3. \A i, j \in 1..L : prefix[i] = prefix[j] => i = j
    BY <1>2, <1>3
  <2>4. \A m \in kept : \E i \in 1..L : prefix[i] = m
    <3> SUFFICES ASSUME NEW m \in kept PROVE \E i \in 1..L : prefix[i] = m
      OBVIOUS
    <3>1. PICK i \in DOMAIN order : i <= n /\ order[i] = m
      OBVIOUS
    <3>2. i \in 1..L
      BY <1>1, <1>2, <3>1
    <3>3. QED
      BY <3>1, <3>2
  <2> HIDE DEF prefix, kept
  <2>5. QED
    BY <2>2, <2>3, <2>4 DEF Bijection, Injection, IsInjective, Surjection
<1>5. Cardinality(kept) = L
  <2>1. IsFiniteSet(1..L) /\ Cardinality(1..L) = L
    BY <1>3, FS_Interval
  <2>2. ExistsBijection(1..L, kept)
    BY <1>4 DEF ExistsBijection
  <2> HIDE DEF kept, L
  <2>3. QED
    BY <2>1, <2>2, FS_Bijection
<1>6. kept # Reacted => n < K
  <2>1. SUFFICES ASSUME ~(n < K) PROVE kept = Reacted
    OBVIOUS
  <2>2. \A i \in 1..K : i <= n
    BY <1>1, <2>1
  <2>3. QED
    BY <1>2, <2>2
<1>7. QED
  BY <1>1, <1>3, <1>5, <1>6

\* run_filter_stage keeps top_n films with the most reactions, or all that
\* have any when they are fewer, in every step that ends the suggestions.
THEOREM FilterCorrect == Spec => FilterKeepsTopN
<1>1. TypeOK /\ Shape /\ [Next]_vars => [TopNKept]_vars
  <2> SUFFICES ASSUME TypeOK, Shape, Next PROVE TopNKept
    OBVIOUS
  <2>1. ASSUME end_suggest PROVE TopNKept
    <3>1. PICK order \in ReactionOrders : run_filter_stage(order)
      BY <2>1 DEF end_suggest
    <3> DEFINE kept == {m \in Reacted : \E i \in DOMAIN order : i <= top_n /\ order[i] = m}
    <3>2. {m \in movies : status'[m] = "finalist"} = kept
      BY <2>1, <3>1
         DEF end_suggest, run_filter_stage, TypeOK, Shape, RoundStartsClean, Reacted
    <3>3. Cardinality(kept) <= top_n /\ (kept # Reacted => Cardinality(kept) = top_n)
      BY PrefixSize DEF TypeOK
    <3>4. ASSUME NEW m \in kept, NEW n \in Reacted \ kept
          PROVE  reaction_count[m] >= reaction_count[n]
      <4>1. PICK i \in DOMAIN order : i <= top_n /\ order[i] = m
        OBVIOUS
      <4>2. PICK j \in DOMAIN order : order[j] = n
        BY OrderListsAll DEF Bijection, Surjection
      <4>3. DOMAIN order = 1..Cardinality(Reacted) /\ Cardinality(Reacted) \in Nat
        BY OrderListsAll DEF ReactionOrders
      <4>4. ~(j <= top_n)
        BY <4>2
      <4>5. i < j
        BY <4>1, <4>2, <4>3, <4>4 DEF TypeOK
      <4>6. QED
        BY <4>1, <4>2, <4>3, <4>5 DEF ReactionOrders
    <3> HIDE DEF kept
    <3>5. kept \subseteq Reacted
      BY DEF kept
    <3>6. QED
      BY <3>2, <3>3, <3>4, <3>5 DEF TopNKept
  <2>2. ASSUME state' # "final_vote" \/ state # "suggestions" PROVE TopNKept
    BY <2>2 DEF TopNKept
  <2>3. \A m \in Movies : suggest_movie(m) => TopNKept
    BY <2>2 DEF suggest_movie
  <2>4. \A u \in Users, m \in Movies :
          /\ add_fire_reaction(u, m) => TopNKept
          /\ remove_fire_reaction(u, m) => TopNKept
          /\ cast_final_vote(u, m) => TopNKept
    BY <2>2 DEF add_fire_reaction, remove_fire_reaction, cast_final_vote
  <2>5. \A n \in TopNChoices : set_top_n(n) => TopNKept
    BY <2>2 DEF set_top_n
  <2>6. cancel_session \/ retry_vote \/ cmd_provide_link \/ cmd_retry_download
          \/ cmd_play \/ cmd_stop => TopNKept
    BY <2>2 DEF cancel_session, retry_vote, cmd_provide_link, cmd_retry_download,
                cmd_play, cmd_stop
  <2>7. state' = "downloading" \/ state' = state => TopNKept
    BY <2>2
  <2>8. QED
    BY <2>1, <2>3, <2>4, <2>5, <2>6, <2>7, NextCases
<1>2. QED
  BY <1>1, TypeCorrect, RoundShape, PTL DEF Spec, FilterKeepsTopN

------------------------------------------------------------------------------
\* A film with ballots in the final never loses its place there.
COROLLARY FinalistsStay == Spec => []BallotsOnlyForFinalists
  BY BallotsAreFair, PTL DEF Ballots

\* The winner's row and winner_movie_id agree, wherever a winner is looked up.
COROLLARY OneWinner == Spec => []WinnerIsUnique
  BY RoundShape, PTL DEF Shape

\* A session that was started over holds nothing of its earlier round.
COROLLARY CleanRounds == Spec => []RoundStartsClean
  BY RoundShape, PTL DEF Shape

\* The winner had the quorum and the most ballots, and still has.
COROLLARY RightWinner == Spec => []WinnerIsLegitimate
  BY OutcomeIsLegitimate, PTL DEF Outcome

\* No session is ready to play a film whose file it does not have.
COROLLARY FileAtHand == Spec => []ReadyHasWinnersFile
  BY OutcomeIsLegitimate, PTL DEF Outcome

\* However a session is driven, each of its rounds is fair to its members.
COROLLARY FairRoundsHold == Spec => []FairRounds
  BY OneVoteEach, FinalistsStay, CleanRounds, PTL DEF FairRounds

\* However a session is driven, what it downloads and plays is what was chosen.
COROLLARY LegitimateOutcomes == Spec => []LegitimateOutcome
  BY OneWinner, RightWinner, FileAtHand, PTL DEF LegitimateOutcome
==============================================================================
