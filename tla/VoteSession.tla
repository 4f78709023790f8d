----------------------------- MODULE VoteSession -----------------------------
(***************************************************************************)
(* One voting session of QueBaykal, from the moment /vote has created it   *)
(* until its film is played or the session is cancelled.                   *)
(*                                                                         *)
(* Every action is one committed database transaction: a bot handler, or a *)
(* scheduler job, run from beginning to end with nothing in between.  It   *)
(* is what the voting code promises to do when calls are served one at a   *)
(* time; VotingTx takes the transactions apart and lets them interleave.   *)
(*                                                                         *)
(* suggest_movie refuses a title the session already has, so here a movie  *)
(* is its normalized title.  The states CREATED, FILTER and                *)
(* WINNER_SELECTED are passed inside a transaction and never committed.    *)
(***************************************************************************)
EXTENDS Integers, FiniteSets

CONSTANTS
  Users,          \* members of the chat
  Movies,         \* normalized titles that can be suggested
  None,           \* winner_movie_id IS NULL
  MinVotes,       \* vote_sessions.min_votes, fixed when the session is created
  TopNChoices,    \* what /set_top_n accepts: 2..10 in the code
  TopN0,          \* top_n given by /vote: 5 in the code
  FactoryReady,   \* db.session.async_session_maker has been assigned
  ServiceCallers  \* the service layer is also called directly, not only by the bot

ASSUME UsersFinite  == IsFiniteSet(Users)
ASSUME MoviesFinite == IsFiniteSet(Movies)
ASSUME NoneIsNoMovie == None \notin Movies
ASSUME TopNIsNat    == TopNChoices \subseteq Nat /\ TopN0 \in Nat
ASSUME MinVotesIsInt == MinVotes \in Int
ASSUME SwitchesAreBoolean == FactoryReady \in BOOLEAN /\ ServiceCallers \in BOOLEAN

VARIABLES
  state,            \* vote_sessions.state
  top_n,            \* vote_sessions.top_n
  winner_movie_id,  \* vote_sessions.winner_movie_id
  movies,           \* the event_movies rows of the session
  status,           \* event_movies.status
  reaction_count,   \* event_movies.reaction_count
  final_votes,      \* event_movies.final_votes
  media,            \* movies whose media_file_id is set
  fires,            \* votes rows of type FIRE:  <<user, movie>>
  ballots,          \* votes rows of type FINAL: <<user, movie>>
  jobs              \* one-shot timers the scheduler still holds for the session

rows == <<winner_movie_id, movies, status, reaction_count, final_votes, media,
          fires, ballots>>
vars == <<state, top_n, jobs, rows>>

------------------------------------------------------------------------------
(* The state machine of models.VoteSessionState.                            *)

States == {"created", "suggestions", "filter", "final_vote", "winner_selected",
           "downloading", "ready", "playing", "completed", "download_failed",
           "cancelled"}

MovieStatuses == {"proposed", "filtered_in", "filtered_out", "finalist", "winner"}

VALID_TRANSITIONS ==
  { <<"created", "suggestions">>, <<"suggestions", "filter">>,
    <<"suggestions", "final_vote">>, <<"filter", "final_vote">>,
    <<"final_vote", "winner_selected">>, <<"winner_selected", "downloading">>,
    <<"downloading", "ready">>, <<"downloading", "download_failed">>,
    <<"ready", "playing">>, <<"playing", "completed">>,
    <<"download_failed", "suggestions">> }

can_transition(current, target) == <<current, target>> \in VALID_TRANSITIONS

\* The session the chat's commands work on: get_active_session_for_chat.
IsActive == state \notin {"completed", "cancelled", "download_failed"}

------------------------------------------------------------------------------
(* Queries.                                                                 *)

WithStatus(s) == {m \in movies : status[m] = s}
Reacted       == {m \in movies : reaction_count[m] > 0}

\* Orders in which ORDER BY reaction_count DESC may return the reacted movies.
ReactionOrders ==
  { order \in [1..Cardinality(Reacted) -> Reacted] :
      \A i, j \in 1..Cardinality(Reacted) :
        i < j => /\ order[i] # order[j]
                 /\ reaction_count[order[i]] >= reaction_count[order[j]] }

\* check_min_votes
min_votes_met == MinVotes <= 0 \/ Cardinality(ballots) >= MinVotes

Max0(n) == IF n > 0 THEN n ELSE 0

------------------------------------------------------------------------------
\* The session as /vote commits it: created, moved on to SUGGESTIONS, with
\* the timer that will end the suggestions.
Init ==
  /\ state = "suggestions"
  /\ top_n = TopN0
  /\ winner_movie_id = None
  /\ movies = {}
  /\ status = [m \in Movies |-> "proposed"]
  /\ reaction_count = [m \in Movies |-> 0]
  /\ final_votes = [m \in Movies |-> 0]
  /\ media = {}
  /\ fires = {}
  /\ ballots = {}
  /\ jobs = {"end_suggest"}

suggest_movie(m) ==
  /\ state = "suggestions"
  /\ m \notin movies
  /\ movies' = movies \union {m}
  /\ status' = [status EXCEPT ![m] = "proposed"]
  /\ reaction_count' = [reaction_count EXCEPT ![m] = 0]
  /\ UNCHANGED <<state, top_n, jobs, winner_movie_id, final_votes, media, fires, ballots>>

\* Mutant: the reactions stay open during the final vote.
add_fire_reaction_late(u, m) ==
  /\ state \in {"suggestions", "filter", "final_vote"}
  /\ m \in movies
  /\ <<u, m>> \notin fires
  /\ fires' = fires \union {<<u, m>>}
  /\ reaction_count' = [reaction_count EXCEPT ![m] = @ + 1]
  /\ status' = [status EXCEPT ![m] = "filtered_in"]
  /\ UNCHANGED <<state, top_n, jobs, winner_movie_id, movies, final_votes, media, ballots>>

add_fire_reaction(u, m) ==
  /\ state \in {"suggestions", "filter"}
  /\ m \in movies
  /\ <<u, m>> \notin fires
  /\ fires' = fires \union {<<u, m>>}
  /\ reaction_count' = [reaction_count EXCEPT ![m] = @ + 1]
  /\ status' = [status EXCEPT ![m] = "filtered_in"]
  /\ UNCHANGED <<state, top_n, jobs, winner_movie_id, movies, final_votes, media, ballots>>

\* Mutant: takes a reaction off the counter without looking for the vote.
remove_fire_reaction_blind(u, m) ==
  /\ m \in movies
  /\ fires' = fires \ {<<u, m>>}
  /\ reaction_count' = [reaction_count EXCEPT ![m] = @ - 1]
  /\ UNCHANGED <<state, top_n, jobs, winner_movie_id, movies, status, final_votes, media, ballots>>

\* No check of the state: an old message keeps its button for ever.
remove_fire_reaction(u, m) ==
  /\ m \in movies
  /\ <<u, m>> \in fires
  /\ fires' = fires \ {<<u, m>>}
  /\ reaction_count' = [reaction_count EXCEPT ![m] = Max0(@ - 1)]
  /\ UNCHANGED <<state, top_n, jobs, winner_movie_id, movies, status, final_votes, media, ballots>>

set_top_n(n) ==
  /\ IsActive
  /\ top_n' = n
  /\ UNCHANGED <<state, jobs, rows>>

------------------------------------------------------------------------------
(* End of the suggestions: end_suggest, and, when a movie has a reaction,   *)
(* run_filter_stage and the transition to FINAL_VOTE, in one transaction.   *)
(* Without reactions the session goes to FINAL_VOTE with no finalist.       *)

\* Mutant: one film too many.
run_filter_stage_plus_one(order) ==
  status' = [m \in Movies |->
               IF m \notin Reacted THEN status[m]
               ELSE IF \E i \in DOMAIN order : i <= top_n + 1 /\ order[i] = m
                    THEN "finalist" ELSE "filtered_out"]

run_filter_stage(order) ==
  status' = [m \in Movies |->
               IF m \notin Reacted THEN status[m]
               ELSE IF \E i \in DOMAIN order : i <= top_n /\ order[i] = m
                    THEN "finalist" ELSE "filtered_out"]

\* Mutant: raises when no film has a reaction.
end_suggest_needs_reactions ==
  /\ state = "suggestions"
  /\ Reacted # {}
  /\ state' = "final_vote"
  /\ \E order \in ReactionOrders : run_filter_stage(order)
  /\ UNCHANGED <<top_n, winner_movie_id, movies, reaction_count, final_votes,
                 media, fires, ballots>>

end_suggest ==
  /\ state = "suggestions"
  /\ state' = "final_vote"
  /\ \E order \in ReactionOrders : run_filter_stage(order)
  /\ UNCHANGED <<top_n, winner_movie_id, movies, reaction_count, final_votes,
                 media, fires, ballots>>

\* /end_suggest.  Only the branch that runs the filter arms the final timer.
cmd_end_suggest ==
  /\ end_suggest
  /\ jobs' = IF Reacted # {} THEN jobs \union {"end_vote"} ELSE jobs

\* The timer armed by /vote.  An exception rolls the transaction back.
end_suggest_job ==
  /\ "end_suggest" \in jobs
  /\ jobs' = jobs \ {"end_suggest"}
  /\ \/ FactoryReady /\ end_suggest
     \/ (~FactoryReady \/ state # "suggestions") /\ UNCHANGED <<state, top_n, rows>>

------------------------------------------------------------------------------
(* Final vote.                                                              *)

cast_final_vote(u, m) ==
  /\ state = "final_vote"
  /\ m \in WithStatus("finalist")
  /\ \A n \in Movies : <<u, n>> \notin ballots
  /\ ballots' = ballots \union {<<u, m>>}
  /\ final_votes' = [final_votes EXCEPT ![m] = @ + 1]
  /\ UNCHANGED <<state, top_n, jobs, winner_movie_id, movies, status, reaction_count, media, fires>>

\* Mutant: a tie has no winner.
select_winner_untied(w) ==
  /\ state = "final_vote"
  /\ w \in WithStatus("finalist")
  /\ \A m \in WithStatus("finalist") \ {w} : final_votes[m] < final_votes[w]
  /\ status' = [status EXCEPT ![w] = "winner"]
  /\ winner_movie_id' = w
  /\ UNCHANGED <<top_n, movies, reaction_count, final_votes, media, fires, ballots>>

select_winner(w) ==
  /\ state = "final_vote"
  /\ w \in WithStatus("finalist")
  /\ \A m \in WithStatus("finalist") : final_votes[m] <= final_votes[w]
  /\ status' = [status EXCEPT ![w] = "winner"]
  /\ winner_movie_id' = w
  /\ UNCHANGED <<top_n, movies, reaction_count, final_votes, media, fires, ballots>>

\* The job's outcomes: a winner whose download starts; too few ballots, where
\* transition_state(CANCELLED) must pass the table or raise; an exception.
\* Whatever is raised rolls the transaction back.
FinalVoteDecided ==
  /\ min_votes_met
  /\ \E w \in Movies : select_winner(w)
  /\ state' = "downloading"

QuorumMissed ==
  /\ ~min_votes_met
  /\ state' = IF can_transition(state, "cancelled") THEN "cancelled" ELSE state
  /\ UNCHANGED <<top_n, rows>>

NothingToDecide ==
  /\ min_votes_met
  /\ state # "final_vote" \/ WithStatus("finalist") = {}
  /\ UNCHANGED <<state, top_n, rows>>

end_final_vote_job ==
  /\ "end_vote" \in jobs
  /\ jobs' = jobs \ {"end_vote"}
  /\ \/ FactoryReady /\ (FinalVoteDecided \/ QuorumMissed \/ NothingToDecide)
     \/ ~FactoryReady /\ UNCHANGED <<state, top_n, rows>>

------------------------------------------------------------------------------
(* Cancelling and starting over.                                            *)

\* /cancel_vote and /end_vote, by the creator or an admin.  The service
\* function itself refuses COMPLETED and CANCELLED only.
cancel_session ==
  /\ state \notin {"completed", "cancelled"}
  /\ IsActive \/ ServiceCallers
  /\ state' = "cancelled"
  /\ UNCHANGED <<top_n, jobs, rows>>

\* Mutants: a round starts over with its counters or its winner kept.
retry_vote_keeps_counters ==
  /\ state \in {"download_failed", "cancelled"}
  /\ state' = "suggestions"
  /\ status' = [m \in Movies |-> "proposed"]
  /\ fires' = {} /\ ballots' = {} /\ winner_movie_id' = None
  /\ UNCHANGED <<top_n, jobs, movies, media, reaction_count, final_votes>>

retry_vote_keeps_winner ==
  /\ state \in {"download_failed", "cancelled"}
  /\ state' = "suggestions"
  /\ status' = [m \in Movies |-> "proposed"]
  /\ reaction_count' = [m \in Movies |-> 0] /\ final_votes' = [m \in Movies |-> 0]
  /\ fires' = {} /\ ballots' = {}
  /\ UNCHANGED <<top_n, jobs, movies, media, winner_movie_id>>

\* services.voting.retry_vote.  media_file_id is kept, no timer is armed.
retry_vote ==
  /\ state \in {"download_failed", "cancelled"}
  /\ state' = "suggestions"
  /\ status' = [m \in Movies |-> "proposed"]
  /\ reaction_count' = [m \in Movies |-> 0]
  /\ final_votes' = [m \in Movies |-> 0]
  /\ fires' = {}
  /\ ballots' = {}
  /\ winner_movie_id' = None
  /\ UNCHANGED <<top_n, jobs, movies, media>>

\* /retry_vote first looks for the chat's active session.
CmdRetryVoteAllowed == IsActive /\ state \in {"download_failed", "cancelled"}

cmd_retry_vote ==
  /\ CmdRetryVoteAllowed \/ ServiceCallers
  /\ retry_vote

------------------------------------------------------------------------------
(* Download and playback of the winner.                                     *)

\* /provide_link, from the query of the session to the end of the download.
cmd_provide_link ==
  /\ state \in {"downloading", "download_failed"}
  /\ WithStatus("winner") # {}
  /\ \/ state' = "ready" /\ media' = media \union WithStatus("winner")
     \/ state' = "download_failed" /\ media' = media
  /\ UNCHANGED <<top_n, jobs, winner_movie_id, movies, status, reaction_count,
                 final_votes, fires, ballots>>

cmd_retry_download ==
  /\ state = "download_failed"
  /\ state' = "downloading"
  /\ UNCHANGED <<top_n, jobs, rows>>

\* A delivery that fails changes nothing.
cmd_play ==
  /\ state \in {"ready", "playing"}
  /\ WithStatus("winner") \intersect media # {}
  /\ state' = "playing"
  /\ UNCHANGED <<top_n, jobs, rows>>

cmd_stop ==
  /\ state = "playing"
  /\ state' = "ready"
  /\ UNCHANGED <<top_n, jobs, rows>>

------------------------------------------------------------------------------
Next ==
  \/ \E m \in Movies : suggest_movie(m)
  \/ \E u \in Users, m \in Movies : add_fire_reaction(u, m)
  \/ \E u \in Users, m \in Movies : remove_fire_reaction(u, m)
  \/ \E n \in TopNChoices : set_top_n(n)
  \/ cmd_end_suggest
  \/ end_suggest_job
  \/ \E u \in Users, m \in Movies : cast_final_vote(u, m)
  \/ end_final_vote_job
  \/ cancel_session
  \/ cmd_retry_vote
  \/ cmd_provide_link
  \/ cmd_retry_download
  \/ cmd_play
  \/ cmd_stop

Spec == Init /\ [][Next]_vars

\* APScheduler runs a date job once its time has come.  Users owe nothing.
Fairness == WF_vars(end_suggest_job) /\ WF_vars(end_final_vote_job)

FairSpec == Spec /\ Fairness

------------------------------------------------------------------------------
(* Invariants.                                                              *)

\* Every column and table holds values of its type.
TypeOK ==
  /\ state \in States
  /\ top_n \in Nat
  /\ winner_movie_id \in Movies \union {None}
  /\ movies \subseteq Movies
  /\ status \in [Movies -> MovieStatuses]
  /\ reaction_count \in [Movies -> Nat]
  /\ final_votes \in [Movies -> Nat]
  /\ media \subseteq Movies
  /\ fires \subseteq Users \X Movies
  /\ ballots \subseteq Users \X Movies
  /\ jobs \subseteq {"end_suggest", "end_vote"}

VotersOf(rel, m) == {u \in Users : <<u, m>> \in rel}

\* The two counters kept beside the votes table agree with it, through
\* reactions taken back and rounds started over (docs/issues.md 2.7).
CountersMatchVotes ==
  \A m \in Movies : /\ reaction_count[m] = Cardinality(VotersOf(fires, m))
                    /\ final_votes[m] = Cardinality(VotersOf(ballots, m))

\* A member has at most one ballot in the final vote (voting.py:340,
\* models/__init__.py:517), whatever films it could have been for.
OneFinalVotePerUser ==
  \A u \in Users, m, n \in Movies :
    <<u, m>> \in ballots /\ <<u, n>> \in ballots => m = n

\* A film people voted for in the final stays in the final: nothing that
\* happens later takes its place away while its ballots are counted.
BallotsOnlyForFinalists ==
  \A u \in Users, m \in Movies :
    <<u, m>> \in ballots => m \in movies /\ status[m] \in {"finalist", "winner"}

\* A round starts clean and its steps stay committed as wholes: no winner
\* before the final vote is decided, no ballot before it opens, reactions for
\* films of the session only, and no state a transaction only passes through.
RoundStartsClean ==
  /\ state \in {"suggestions", "final_vote"} => winner_movie_id = None
  /\ state = "suggestions" =>
       ballots = {} /\ \A m \in Movies : status[m] \in {"proposed", "filtered_in"}
  /\ state \notin {"created", "filter", "winner_selected"}
  /\ \A u \in Users, m \in Movies : <<u, m>> \in fires => m \in movies

Decided == {"downloading", "download_failed", "ready", "playing"}

\* The WINNER status and winner_movie_id name the same film, and there is a
\* winner whenever the session is in a state that downloads or plays one.
\* /provide_link and /play look the winner up by status and need just one.
WinnerIsUnique ==
  /\ \A m \in Movies : status[m] = "winner" <=> winner_movie_id = m
  /\ state \in Decided => winner_movie_id \in movies

\* No finalist has more ballots than the winner, and the winner was chosen
\* with the quorum reached.
WinnerIsLegitimate ==
  winner_movie_id # None =>
    /\ min_votes_met
    /\ \A m \in WithStatus("finalist") :
         final_votes[m] <= final_votes[winner_movie_id]

\* A session is READY or PLAYING only with the winner's file downloaded,
\* also after earlier rounds left files of other films behind.
ReadyHasWinnersFile ==
  state \in {"ready", "playing"} => winner_movie_id \in media

\* However reactions, ballots, retries and cancellations follow one another, a
\* round is fair: members have one ballot each, for films that stay in the
\* final, and nothing of an earlier round is left in it.
FairRounds == OneFinalVotePerUser /\ BallotsOnlyForFinalists /\ RoundStartsClean

\* The film downloaded and played is the one the ballots chose: handlers that
\* set its status, its column and its file apart from each other agree on it.
LegitimateOutcome == WinnerIsUnique /\ WinnerIsLegitimate /\ ReadyHasWinnersFile

------------------------------------------------------------------------------
(* What a step may never do.                                                *)

\* Ending the suggestions sends at most top_n films to the final vote, never
\* leaves a place empty that a film with reactions could take, and never
\* prefers a film to one with more reactions.
TopNKept ==
  state = "suggestions" /\ state' = "final_vote" =>
    LET kept == {m \in movies : status'[m] = "finalist"} IN
    /\ kept \subseteq Reacted
    /\ Cardinality(kept) <= top_n
    /\ kept # Reacted => Cardinality(kept) = top_n
    /\ \A m \in kept, n \in Reacted \ kept : reaction_count[m] >= reaction_count[n]

FilterKeepsTopN == [][TopNKept]_vars

------------------------------------------------------------------------------
(* Liveness.                                                                *)

\* Suggestions that have their timer come to an end.  (A session started over
\* by retry_vote after its timer ran has none.)
SuggestionsEnd ==
  (state = "suggestions" /\ "end_suggest" \in jobs) ~> (state # "suggestions")

\* A final vote that has its timer, its quorum and a finalist is decided,
\* or cancelled by a person.
ArmedFinalVoteIsDecided ==
  (/\ state = "final_vote" /\ "end_vote" \in jobs
   /\ min_votes_met /\ WithStatus("finalist") # {}) ~> (state # "final_vote")

------------------------------------------------------------------------------
(* What the code's own words say and the code does not do.                  *)

\* bot/handlers/voting.py:403 "Schedule final vote end": a final vote ends.
FinalVoteEnds == (state = "final_vote") ~> (state # "final_vote")

\* bot/handlers/voting.py:451: without the quorum the vote is cancelled.
QuorumFailureCancels ==
  [][(state = "final_vote" /\ ~min_votes_met /\ jobs \ jobs' = {"end_vote"})
       => state' = "cancelled"]_vars

\* bot/handlers/voting.py:476: /retry_vote works after a failure or a cancel.
RetryCommandAvailable ==
  state \in {"download_failed", "cancelled"} => CmdRetryVoteAllowed

\* README.md:117: /retry_vote starts the final stage over.
RetryReopensFinalVote ==
  [][(state \in {"download_failed", "cancelled"} /\ ballots # {}) => state' # "suggestions"]_vars

\* services/voting.py:60: nothing follows CANCELLED.
CancelledIsFinal == [][state = "cancelled" => state' = "cancelled"]_vars
==============================================================================
