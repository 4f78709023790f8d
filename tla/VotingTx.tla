------------------------------ MODULE VotingTx -------------------------------
(***************************************************************************)
(* The handlers and jobs of a voting session as database transactions that *)
(* overlap.                                                                *)
(*                                                                         *)
(* aiogram serves every update in a task of its own, APScheduler runs jobs *)
(* beside them, and PostgreSQL works at READ COMMITTED.  A handler first   *)
(* reads and checks what was committed (begin), waits, and then writes     *)
(* what it decided (commit).  The ORM writes the columns whose value it    *)
(* changed, with values computed from what it had read; rows another task  *)
(* changed meanwhile are overwritten column by column.  The one constraint *)
(* the database enforces is the votes table's UNIQUE (session, user, type, *)
(* movie); breaking it rolls the transaction back.                         *)
(*                                                                         *)
(* All reads of a transaction are taken at one point.  With one worker the *)
(* transactions are serial and the module implements VoteSession, where    *)
(* the service functions the handlers call are translated one by one.      *)
(***************************************************************************)
EXTENDS Integers, FiniteSets

CONSTANTS
  Users, Titles, None, MinVotes, TopNChoices, TopN0, ServiceCallers, \* as in VoteSession
  Rows,     \* event_movies ids: bounds how many films are suggested
  MaxCount, \* bound: lost updates can push reaction_count up without end
  Workers   \* tasks that can have a transaction open at the same time

ASSUME NoneIsNoTitle == None \notin Titles
ASSUME NoneIsNoRow   == None \notin Rows
ASSUME TopNIsNat     == TopNChoices \subseteq Nat /\ TopN0 \in Nat

VARIABLES
  session,         \* the vote_sessions row: state, top_n, winner_movie_id
  title,           \* event_movies.normalized_title, None where there is no row
  status, reaction_count, final_votes,  \* the other columns of event_movies
  media,           \* rows with a media_file_id
  votes,           \* votes rows: <<user, type, movie row>>
  jobs,            \* one-shot timers the scheduler holds for the session
  tx               \* what each worker's open transaction is going to write

db   == <<session, title, status, reaction_count, final_votes, media, votes, jobs>>
vars == <<db, tx>>

Closed == [open |-> FALSE]

NoWrites == [open |-> TRUE,
             session |-> <<>>, status |-> <<>>, reaction_count |-> <<>>, final_votes |-> <<>>,
             media |-> {}, insert |-> {}, add |-> {}, del |-> {}, run |-> {}, arm |-> {}]

------------------------------------------------------------------------------
(* Queries on what is committed.                                            *)

Present       == {r \in Rows : title[r] # None}
WithStatus(s) == {r \in Present : status[r] = s}
Reacted       == {r \in Present : reaction_count[r] > 0}
Ballots       == {v \in votes : v[2] = "final"}
min_votes_met == MinVotes <= 0 \/ Cardinality(Ballots) >= MinVotes
IsActive      == session.state \notin {"completed", "cancelled", "download_failed"}

\* Choices of finalists that ORDER BY reaction_count DESC, cut at top_n, can make.
TopN == { F \in SUBSET Reacted :
            /\ Cardinality(F) = IF session.top_n < Cardinality(Reacted)
                                THEN session.top_n ELSE Cardinality(Reacted)
            /\ \A r \in F, s \in Reacted \ F : reaction_count[r] >= reaction_count[s] }

\* A column with a value in one row.
At(r, value) == [s \in {r} |-> value]

\* A column after an UPDATE of some of its rows; the session after one of some
\* of its columns.
Written(column, new) ==
  [x \in DOMAIN column |-> IF x \in DOMAIN new THEN new[x] ELSE column[x]]

\* The part of an assignment to a column that changes it, which is all the
\* unit of work sends to the database.
Changed(column, new) ==
  [r \in {r \in DOMAIN new : new[r] # column[r]} |-> new[r]]

------------------------------------------------------------------------------
Init ==
  /\ session = [state |-> "suggestions", top_n |-> TopN0, winner_movie_id |-> None]
  /\ title = [r \in Rows |-> None]
  /\ status = [r \in Rows |-> "proposed"]
  /\ reaction_count = [r \in Rows |-> 0]
  /\ final_votes = [r \in Rows |-> 0]
  /\ media = {}
  /\ votes = {}
  /\ jobs = {"end_suggest"}
  /\ tx = [w \in Workers |-> Closed]

begin(w, writes) ==
  /\ ~tx[w].open
  /\ tx' = [tx EXCEPT ![w] = writes]
  /\ UNCHANGED db

\* The films that transactions still open are going to insert.
Inserting == {v \in Workers : tx[v].open /\ tx[v].insert # {}}

begin_suggest_movie(w, t) ==
  /\ session.state = "suggestions"
  /\ \A r \in Rows : title[r] # t
  /\ Cardinality(Rows \ Present) > Cardinality(Inserting)  \* bound: Rows
  /\ begin(w, [NoWrites EXCEPT !.insert = {t}])

begin_add_fire_reaction(w, u, r) ==
  /\ session.state \in {"suggestions", "filter"}
  /\ r \in Present
  /\ <<u, "fire", r>> \notin votes
  /\ reaction_count[r] < MaxCount  \* bound: MaxCount
  /\ begin(w, [NoWrites EXCEPT
                !.add = {<<u, "fire", r>>},
                !.reaction_count = At(r, reaction_count[r] + 1),
                !.status = Changed(status, At(r, "filtered_in"))])

\* Mutant: forgets the counter.
begin_remove_fire_reaction_uncounted(w, u, r) ==
  /\ <<u, "fire", r>> \in votes
  /\ begin(w, [NoWrites EXCEPT !.del = {<<u, "fire", r>>}])

\* Mutant: removes the member's votes for the film, of either type.
begin_remove_fire_reaction_any_type(w, u, r) ==
  /\ <<u, "fire", r>> \in votes
  /\ begin(w, [NoWrites EXCEPT
                !.del = {<<u, "fire", r>>, <<u, "final", r>>},
                !.reaction_count =
                  Changed(reaction_count,
                          At(r, IF reaction_count[r] > 0 THEN reaction_count[r] - 1 ELSE 0))])

begin_remove_fire_reaction(w, u, r) ==
  /\ <<u, "fire", r>> \in votes
  /\ begin(w, [NoWrites EXCEPT
                !.del = {<<u, "fire", r>>},
                !.reaction_count =
                  Changed(reaction_count,
                          At(r, IF reaction_count[r] > 0 THEN reaction_count[r] - 1 ELSE 0))])

begin_set_top_n(w, n) ==
  /\ IsActive
  /\ begin(w, [NoWrites EXCEPT !.session = Changed(session, [top_n |-> n])])

\* end_suggest, run_filter_stage and transition_state for the finalists F.
EndSuggestWrites(F) ==
  [NoWrites EXCEPT
     !.session = [state |-> "final_vote"],
     !.status = Changed(status, [r \in Reacted |-> IF r \in F THEN "finalist" ELSE "filtered_out"])]

begin_cmd_end_suggest(w) ==
  /\ session.state = "suggestions"
  /\ \E F \in TopN :
       begin(w, [EndSuggestWrites(F) EXCEPT
                   !.arm = IF Reacted # {} THEN {"end_vote"} ELSE {}])

\* APScheduler starts a date job once.
CanRun(job) == job \in jobs /\ \A v \in Workers : tx[v].open => job \notin tx[v].run

begin_end_suggest_job(w) ==
  /\ CanRun("end_suggest")
  /\ \/ /\ session.state = "suggestions"
        /\ \E F \in TopN : begin(w, [EndSuggestWrites(F) EXCEPT !.run = {"end_suggest"}])
     \/ /\ session.state # "suggestions"
        /\ begin(w, [NoWrites EXCEPT !.run = {"end_suggest"}])

begin_cast_final_vote(w, u, r) ==
  /\ session.state = "final_vote"
  /\ r \in WithStatus("finalist")
  /\ \A v \in Ballots : v[1] # u
  /\ begin(w, [NoWrites EXCEPT
                !.add = {<<u, "final", r>>},
                !.final_votes = At(r, final_votes[r] + 1)])

\* Decides when it can; otherwise the transition to CANCELLED or the choice
\* among no finalists raises, and nothing is written.
begin_end_final_vote_job(w) ==
  LET decides == min_votes_met /\ session.state = "final_vote" /\ WithStatus("finalist") # {} IN
  /\ CanRun("end_vote")
  /\ \/ /\ decides
        /\ \E r \in WithStatus("finalist") :
             /\ \A s \in WithStatus("finalist") : final_votes[s] <= final_votes[r]
             /\ begin(w, [NoWrites EXCEPT
                           !.run = {"end_vote"},
                           !.status = At(r, "winner"),
                           !.session = [state |-> "downloading", winner_movie_id |-> r]])
     \/ ~decides /\ begin(w, [NoWrites EXCEPT !.run = {"end_vote"}])

begin_cancel_session(w) ==
  /\ session.state \notin {"completed", "cancelled"}
  /\ IsActive \/ ServiceCallers
  /\ begin(w, [NoWrites EXCEPT !.session = [state |-> "cancelled"]])

begin_retry_vote(w) ==
  /\ session.state \in {"download_failed", "cancelled"}
  /\ ServiceCallers
  /\ begin(w, [NoWrites EXCEPT
                !.session = Changed(session, [state |-> "suggestions", winner_movie_id |-> None]),
                !.status = Changed(status, [r \in Present |-> "proposed"]),
                !.reaction_count = Changed(reaction_count, [r \in Present |-> 0]),
                !.final_votes = Changed(final_votes, [r \in Present |-> 0]),
                !.del = votes])

\* The download runs between begin and commit.
begin_cmd_provide_link(w) ==
  /\ session.state \in {"downloading", "download_failed"}
  /\ Cardinality(WithStatus("winner")) = 1
  /\ \/ begin(w, [NoWrites EXCEPT
                   !.session = [state |-> "ready"],
                   !.media = WithStatus("winner")])
     \/ begin(w, [NoWrites EXCEPT !.session = [state |-> "download_failed"]])

\* Mutant: also takes up a cancelled session.
begin_cmd_retry_download_cancelled(w) ==
  /\ session.state \in {"download_failed", "cancelled"}
  /\ begin(w, [NoWrites EXCEPT !.session = [state |-> "downloading"]])

begin_cmd_retry_download(w) ==
  /\ session.state = "download_failed"
  /\ begin(w, [NoWrites EXCEPT !.session = [state |-> "downloading"]])

begin_cmd_play(w) ==
  /\ session.state \in {"ready", "playing"}
  /\ Cardinality(WithStatus("winner")) = 1
  /\ WithStatus("winner") \subseteq media
  /\ begin(w, [NoWrites EXCEPT !.session = Changed(session, [state |-> "playing"])])

begin_cmd_stop(w) ==
  /\ session.state = "playing"
  /\ begin(w, [NoWrites EXCEPT !.session = [state |-> "ready"]])

------------------------------------------------------------------------------
\* Rows that are to be deleted are deleted by id: of two transactions that
\* remove the same vote the second finds nothing, even if it was cast again.
Close(w, gone) ==
  tx' = [v \in Workers |-> IF v = w THEN Closed
                           ELSE IF tx[v].open THEN [tx[v] EXCEPT !.del = @ \ gone]
                           ELSE tx[v]]

commit(w) ==
  /\ tx[w].open
  /\ tx[w].add \intersect votes = {}
  /\ session' = Written(session, tx[w].session)
  /\ reaction_count' = Written(reaction_count, tx[w].reaction_count)
  /\ final_votes' = Written(final_votes, tx[w].final_votes)
  /\ status' = Written(status, tx[w].status)
  /\ \/ tx[w].insert = {} /\ UNCHANGED title
     \/ \E t \in tx[w].insert, r \in Rows \ Present : title' = [title EXCEPT ![r] = t]
  /\ media' = media \union tx[w].media
  /\ votes' = (votes \ tx[w].del) \union tx[w].add
  /\ jobs' = (jobs \ tx[w].run) \union tx[w].arm
  /\ Close(w, tx[w].del)

\* IntegrityError: the votes row is there already.
rollback(w) ==
  /\ tx[w].open
  /\ tx[w].add \intersect votes # {}
  /\ Close(w, {})
  /\ UNCHANGED db

Next == \E w \in Workers :
  \/ \E t \in Titles : begin_suggest_movie(w, t)
  \/ \E u \in Users, r \in Rows : begin_add_fire_reaction(w, u, r)
  \/ \E u \in Users, r \in Rows : begin_remove_fire_reaction(w, u, r)
  \/ \E n \in TopNChoices : begin_set_top_n(w, n)
  \/ begin_cmd_end_suggest(w)
  \/ begin_end_suggest_job(w)
  \/ \E u \in Users, r \in Rows : begin_cast_final_vote(w, u, r)
  \/ begin_end_final_vote_job(w)
  \/ begin_cancel_session(w)
  \/ begin_retry_vote(w)
  \/ begin_cmd_provide_link(w)
  \/ begin_cmd_retry_download(w)
  \/ begin_cmd_play(w)
  \/ begin_cmd_stop(w)
  \/ commit(w)
  \/ rollback(w)

Spec == Init /\ [][Next]_vars

------------------------------------------------------------------------------
(* One worker: the transactions implement VoteSession, with a film known by *)
(* its title instead of its row.                                            *)

Suggested == {title[r] : r \in Present}
RowOf(t)  == CHOOSE r \in Present : title[r] = t
ByTitle(column, default) ==
  [t \in Titles |-> IF t \in Suggested THEN column[RowOf(t)] ELSE default]
OfType(type) == {<<v[1], title[v[3]]>> : v \in {v \in votes : v[2] = type}}

VS == INSTANCE VoteSession WITH
        Movies <- Titles,
        FactoryReady <- TRUE,
        state <- session.state,
        top_n <- session.top_n,
        winner_movie_id <- IF session.winner_movie_id = None THEN None
                           ELSE title[session.winner_movie_id],
        movies <- Suggested,
        status <- ByTitle(status, "proposed"),
        reaction_count <- ByTitle(reaction_count, 0),
        final_votes <- ByTitle(final_votes, 0),
        media <- {title[r] : r \in media},
        fires <- OfType("fire"),
        ballots <- OfType("final")

\* Served one at a time, the handlers and jobs do exactly what VoteSession says.
ImplementsVoteSession == VS!Spec

------------------------------------------------------------------------------
(* What survives overlapping transactions.                                  *)

\* Every column and table, and every open transaction, holds what it should.
TypeOK ==
  /\ session.state \in VS!States
  /\ session.winner_movie_id \in Rows \union {None}
  /\ title \in [Rows -> Titles \union {None}]
  /\ status \in [Rows -> VS!MovieStatuses]
  /\ reaction_count \in [Rows -> Nat]
  /\ final_votes \in [Rows -> Nat]
  /\ media \subseteq Present
  /\ votes \subseteq Users \X {"fire", "final"} \X Present
  /\ \A w \in Workers : tx[w].open => DOMAIN tx[w] = DOMAIN NoWrites

BallotsFor(r) == {v \in Ballots : v[3] = r}

\* Overlapping ballots can be lost from final_votes, never invented: a film
\* is not credited with more votes than the votes table holds for it.
NoInventedBallots == \A r \in Rows : final_votes[r] <= Cardinality(BallotsFor(r))

\* Whatever overlaps, the bot never downloads or plays for a session whose
\* winner was not recorded, nor plays before some winner's file was there.
DecidedHasWinner ==
  /\ session.state \in VS!Decided => session.winner_movie_id \in Present
  /\ session.state \in {"ready", "playing"} => media # {}

------------------------------------------------------------------------------
(* What the code's words promise and overlapping transactions break.        *)

\* services/voting.py:164: no title is in a session twice.
TitlesAreUnique == \A r, s \in Present : title[r] = title[s] => r = s

\* services/voting.py:340: the UNIQUE constraint allows one final ballot.
OneFinalVotePerUser ==
  \A v, x \in Ballots : v[1] = x[1] => v = x

\* docs/issues.md 2.7: fire reactions are what reaction_count counts.
ReactionCountMatches ==
  \A r \in Rows : reaction_count[r] = Cardinality({v \in votes : v[2] = "fire" /\ v[3] = r})

\* services/voting.py:337: only finalists can be voted for.
BallotsOnlyForFinalists ==
  \A v \in Ballots : status[v[3]] \in {"finalist", "winner"}

\* services/voting.py:60: nothing follows CANCELLED.
CancelledIsFinal == [][session.state = "cancelled" => session'.state = "cancelled"]_vars
==============================================================================
