---------------------------- MODULE VotingTx_proofs ---------------------------
(***************************************************************************)
(* Proofs about VotingTx, for any number of overlapping transactions,      *)
(* members, titles and rows.                                               *)
(*                                                                         *)
(* A transaction writes what it has decided from what it read, so the      *)
(* argument is about what is still so of those writes when they are        *)
(* committed: ballots are only ever added and rows stay, hence a count of  *)
(* ballots that was right when it was read is no more than what is there.  *)
(* With one worker nothing comes between, and every commit is a step of    *)
(* VoteSession.                                                            *)
(***************************************************************************)
EXTENDS VotingTx, FiniteSetTheorems, TLAPS

\* What a transaction is going to write is of the columns' kinds, and about
\* rows that are there.
WritesAreTyped(x) ==
  /\ DOMAIN x = DOMAIN NoWrites
  /\ "state" \in DOMAIN x.session => x.session.state \in VS!States
  /\ "winner_movie_id" \in DOMAIN x.session => x.session.winner_movie_id \in Rows \union {None}
  /\ \A r \in DOMAIN x.status : x.status[r] \in VS!MovieStatuses
  /\ \A r \in DOMAIN x.reaction_count : x.reaction_count[r] \in Nat
  /\ \A r \in DOMAIN x.final_votes : x.final_votes[r] \in Nat
  /\ x.insert \subseteq Titles
  /\ x.media \subseteq Present
  /\ x.add \subseteq Users \X {"fire", "final"} \X Present

\* It adds one vote at most, credits a film only together with a final ballot
\* for it, with at most one more than the ballots there are, and removes none.
CreditsItsBallot(x) ==
  /\ x.add = {} \/ \E v \in x.add : x.add = {v}
  /\ \A r \in DOMAIN x.final_votes :
       /\ \E u \in Users : x.add = {<<u, "final", r>>}
       /\ x.final_votes[r] <= Cardinality(BallotsFor(r)) + 1
  /\ \A v \in x.del : v[2] = "fire"

\* When it moves the session to a decided state, the winner is there or it
\* writes one; when to a playable one, so is a file.
BringsWinner(x) ==
  /\ "winner_movie_id" \in DOMAIN x.session => x.session.winner_movie_id \in Present
  /\ "state" \in DOMAIN x.session =>
       /\ x.session.state \in VS!Decided =>
            session.winner_movie_id \in Present \/ "winner_movie_id" \in DOMAIN x.session
       /\ x.session.state \in {"ready", "playing"} => media # {} \/ x.media # {}

IInv ==
  /\ TypeOK
  /\ DOMAIN session = {"state", "top_n", "winner_movie_id"}
  /\ DOMAIN tx = Workers
  /\ \A w \in Workers : tx[w].open => WritesAreTyped(tx[w])

\* Without retry_vote, which removes ballots and the winner.
BInv ==
  /\ IsFiniteSet(votes)
  /\ NoInventedBallots
  /\ \A w \in Workers : tx[w].open => CreditsItsBallot(tx[w])

WInv ==
  /\ DecidedHasWinner
  /\ \A w \in Workers : tx[w].open => BringsWinner(tx[w])

------------------------------------------------------------------------------
(* What a statement does.                                                   *)

\* An UPDATE keeps a column of its kind.
LEMMA WrittenType ==
  ASSUME NEW S, NEW T, NEW f \in [S -> T], NEW g, \A s \in DOMAIN g : g[s] \in T
  PROVE  Written(f, g) \in [S -> T]
  BY DEF Written

\* An INSERT adds a row and leaves the others.
LEMMA RowsStay ==
  ASSUME TypeOK,
         NEW I \in SUBSET Titles,
         \/ UNCHANGED title
         \/ \E t \in I, r \in Rows \ Present : title' = [title EXCEPT ![r] = t]
  PROVE  title' \in [Rows -> Titles \union {None}] /\ Present \subseteq Present'
  BY NoneIsNoTitle DEF TypeOK, Present

\* The end of one transaction: of the others only del can shrink.
LEMMA Closes ==
  ASSUME IInv, NEW w \in Workers, NEW gone, Close(w, gone)
  PROVE  /\ DOMAIN tx' = Workers
         /\ \A v \in Workers : tx'[v].open =>
              /\ tx[v].open /\ DOMAIN tx'[v] = DOMAIN tx[v]
              /\ tx'[v].session = tx[v].session /\ tx'[v].status = tx[v].status
              /\ tx'[v].reaction_count = tx[v].reaction_count
              /\ tx'[v].final_votes = tx[v].final_votes
              /\ tx'[v].media = tx[v].media /\ tx'[v].insert = tx[v].insert
              /\ tx'[v].add = tx[v].add /\ tx'[v].del \subseteq tx[v].del
<1>1. DOMAIN tx' = Workers
  BY DEF Close
<1>2. ~Closed.open
  BY DEF Closed
<1>3. ASSUME NEW v \in Workers, tx[v].open, NEW y, y = [tx[v] EXCEPT !.del = @ \ gone]
      PROVE  /\ DOMAIN y = DOMAIN tx[v] /\ y.open = tx[v].open
             /\ y.session = tx[v].session /\ y.status = tx[v].status
             /\ y.reaction_count = tx[v].reaction_count
             /\ y.final_votes = tx[v].final_votes
             /\ y.media = tx[v].media /\ y.insert = tx[v].insert
             /\ y.add = tx[v].add /\ y.del \subseteq tx[v].del
  <2>1. DOMAIN tx[v] = {"open", "session", "status", "reaction_count", "final_votes", "media",
                        "insert", "add", "del", "run", "arm"}
    BY <1>3 DEF IInv, WritesAreTyped, NoWrites
  <2> QED
    BY <1>3, <2>1
<1> QED
  BY <1>1, <1>2, <1>3 DEF Close

------------------------------------------------------------------------------
(* The first half of a transaction: what it is going to write.              *)

LEMMA BeginKeeps ==
  ASSUME IInv, NEW w \in Workers, NEW x, begin(w, x)
  PROVE  /\ WritesAreTyped(x) => IInv'
         /\ BInv /\ CreditsItsBallot(x) => BInv'
         /\ WInv /\ BringsWinner(x) => WInv'
<1>1. DOMAIN tx' = Workers /\ \A v \in Workers : tx'[v] = IF v = w THEN x ELSE tx[v]
  BY DEF begin, IInv
<1>2. /\ TypeOK /\ (x.open => DOMAIN x = DOMAIN NoWrites) => TypeOK'
      /\ UNCHANGED <<session, media, votes, Present, Ballots>>
      /\ \A r : UNCHANGED BallotsFor(r)
      /\ NoInventedBallots => NoInventedBallots'
      /\ DecidedHasWinner => DecidedHasWinner'
  BY <1>1 DEF begin, db, TypeOK, Present, Ballots, BallotsFor, NoInventedBallots, DecidedHasWinner
<1>3. \A y : /\ WritesAreTyped(y) => WritesAreTyped(y)'
             /\ CreditsItsBallot(y) => CreditsItsBallot(y)'
             /\ BringsWinner(y) => BringsWinner(y)'
  BY <1>2 DEF WritesAreTyped, CreditsItsBallot, BringsWinner
<1>4. WritesAreTyped(x) => IInv'
  BY <1>1, <1>2, <1>3 DEF IInv, WritesAreTyped
<1>5. BInv /\ CreditsItsBallot(x) => BInv'
  BY <1>1, <1>2, <1>3 DEF BInv
<1>6. WInv /\ BringsWinner(x) => WInv'
  BY <1>1, <1>2, <1>3 DEF WInv
<1> QED
  BY <1>4, <1>5, <1>6

\* A transaction that writes what it may.
Begun(w) ==
  \E x : /\ begin(w, x)
         /\ WritesAreTyped(x)
         /\ ~ServiceCallers /\ BInv => CreditsItsBallot(x)
         /\ ~ServiceCallers /\ WInv => BringsWinner(x)

\* NoWrites, with some of its parts replaced, is NoWrites in the others.
LEMMA NoWritesParts ==
  /\ NoWrites.open /\ NoWrites.session = <<>> /\ NoWrites.status = <<>>
  /\ NoWrites.reaction_count = <<>> /\ NoWrites.final_votes = <<>>
  /\ NoWrites.media = {} /\ NoWrites.insert = {} /\ NoWrites.add = {} /\ NoWrites.del = {}
  /\ NoWrites.run = {} /\ NoWrites.arm = {}
  /\ DOMAIN NoWrites = {"open", "session", "status", "reaction_count", "final_votes", "media",
                        "insert", "add", "del", "run", "arm"}
  /\ DOMAIN <<>> = {}
  BY DEF NoWrites

\* The film suggested by on_suggest_movie is one new row.
LEMMA BeginSuggestMovie ==
  ASSUME IInv, NEW w \in Workers, NEW t \in Titles, begin_suggest_movie(w, t)
  PROVE  Begun(w)
<1> SUFFICES ASSUME NEW x, x = [NoWrites EXCEPT !.insert = {t}]
             PROVE  WritesAreTyped(x) /\ CreditsItsBallot(x) /\ BringsWinner(x)
  BY DEF Begun, begin_suggest_movie
<1>1. /\ DOMAIN x = DOMAIN NoWrites /\ x.session = <<>> /\ x.status = <<>>
      /\ x.reaction_count = <<>> /\ x.final_votes = <<>> /\ x.media = {}
      /\ x.insert = {t} /\ x.add = {} /\ x.del = {}
  BY NoWritesParts
<1> QED
  BY <1>1, NoWritesParts DEF WritesAreTyped, CreditsItsBallot, BringsWinner

\* What a change of one row says of its writes.
LEMMA ChangedPart ==
  ASSUME NEW column, NEW new
  PROVE  /\ DOMAIN Changed(column, new) \subseteq DOMAIN new
         /\ \A r \in DOMAIN Changed(column, new) : Changed(column, new)[r] = new[r]
  BY DEF Changed

\* cb_fire_vote writes one vote and the count it has read plus one.
LEMMA BeginAddFireReaction ==
  ASSUME IInv, NEW w \in Workers, NEW u \in Users, NEW r \in Rows,
         begin_add_fire_reaction(w, u, r)
  PROVE  Begun(w)
<1> SUFFICES ASSUME NEW x,
                    x = [NoWrites EXCEPT
                           !.add = {<<u, "fire", r>>},
                           !.reaction_count = At(r, reaction_count[r] + 1),
                           !.status = Changed(status, At(r, "filtered_in"))]
             PROVE  WritesAreTyped(x) /\ CreditsItsBallot(x) /\ BringsWinner(x)
  BY DEF Begun, begin_add_fire_reaction
<1>1. /\ DOMAIN x = DOMAIN NoWrites /\ x.session = <<>>
      /\ x.status = Changed(status, At(r, "filtered_in"))
      /\ x.reaction_count = At(r, reaction_count[r] + 1)
      /\ x.final_votes = <<>> /\ x.media = {}
      /\ x.insert = {} /\ x.add = {<<u, "fire", r>>} /\ x.del = {}
  BY NoWritesParts
<1>2. \A s \in DOMAIN x.status : x.status[s] \in VS!MovieStatuses
  BY <1>1, ChangedPart DEF At, VS!MovieStatuses
<1>3. \A s \in DOMAIN x.reaction_count : x.reaction_count[s] \in Nat
  BY <1>1 DEF At, IInv, TypeOK
<1>4. x.add \subseteq Users \X {"fire", "final"} \X Present
  BY <1>1 DEF begin_add_fire_reaction
<1> QED
  BY <1>1, <1>2, <1>3, <1>4, NoWritesParts DEF WritesAreTyped, CreditsItsBallot, BringsWinner

\* cb_unfire_vote deletes one vote and never counts below zero.
LEMMA BeginRemoveFireReaction ==
  ASSUME IInv, NEW w \in Workers, NEW u \in Users, NEW r \in Rows,
         begin_remove_fire_reaction(w, u, r)
  PROVE  Begun(w)
<1> DEFINE less == At(r, IF reaction_count[r] > 0 THEN reaction_count[r] - 1 ELSE 0)
<1> SUFFICES ASSUME NEW x,
                    x = [NoWrites EXCEPT !.del = {<<u, "fire", r>>},
                                         !.reaction_count = Changed(reaction_count, less)]
             PROVE  WritesAreTyped(x) /\ CreditsItsBallot(x) /\ BringsWinner(x)
  BY DEF Begun, begin_remove_fire_reaction
<1>1. /\ DOMAIN x = DOMAIN NoWrites /\ x.session = <<>> /\ x.status = <<>>
      /\ x.reaction_count = Changed(reaction_count, less)
      /\ x.final_votes = <<>> /\ x.media = {}
      /\ x.insert = {} /\ x.add = {} /\ x.del = {<<u, "fire", r>>}
  BY NoWritesParts
<1>2. \A s \in DOMAIN less : less[s] \in Nat
  BY DEF At, IInv, TypeOK
<1>3. \A s \in DOMAIN x.reaction_count : x.reaction_count[s] \in Nat
  BY <1>1, <1>2, ChangedPart
<1> QED
  BY <1>1, <1>3, NoWritesParts DEF WritesAreTyped, CreditsItsBallot, BringsWinner

\* A transaction that moves the session to another state, and may bring a file.
LEMMA MovesSession ==
  ASSUME IInv, NEW w \in Workers, NEW x, NEW writes, begin(w, x),
         DOMAIN x = DOMAIN NoWrites, x.session = writes,
         x.reaction_count = <<>>, x.final_votes = <<>>,
         x.insert = {}, x.add = {}, x.del = {},
         DOMAIN writes \subseteq {"state", "top_n"},
         "state" \in DOMAIN writes => writes.state \in VS!States,
         \A r \in DOMAIN x.status : x.status[r] \in VS!MovieStatuses,
         x.media \subseteq Present,
         ~ServiceCallers /\ DecidedHasWinner /\ "state" \in DOMAIN writes =>
           /\ writes.state \in VS!Decided => session.winner_movie_id \in Present
           /\ writes.state \in {"ready", "playing"} => media # {} \/ x.media # {}
  PROVE  Begun(w)
<1>1. WritesAreTyped(x)
  BY NoWritesParts DEF WritesAreTyped
<1>2. CreditsItsBallot(x)
  BY NoWritesParts DEF CreditsItsBallot
<1>3. ~ServiceCallers /\ WInv => BringsWinner(x)
  BY DEF WInv, BringsWinner
<1> QED
  BY <1>1, <1>2, <1>3 DEF Begun

\* /set_top_n writes the one column it changes.
LEMMA BeginSetTopN ==
  ASSUME IInv, NEW w \in Workers, NEW n \in TopNChoices, begin_set_top_n(w, n)
  PROVE  Begun(w)
<1> DEFINE writes == Changed(session, [top_n |-> n])
<1> SUFFICES ASSUME NEW x, x = [NoWrites EXCEPT !.session = writes], begin(w, x)
             PROVE  Begun(w)
  BY DEF begin_set_top_n
<1>1. /\ DOMAIN x = DOMAIN NoWrites /\ x.session = writes /\ x.status = <<>>
      /\ x.reaction_count = <<>> /\ x.final_votes = <<>> /\ x.media = {}
      /\ x.insert = {} /\ x.add = {} /\ x.del = {}
  BY NoWritesParts
<1>2. DOMAIN writes \subseteq {"top_n"}
  BY ChangedPart
<1> QED
  BY <1>1, <1>2, NoWritesParts, MovesSession

\* Ending the suggestions writes film statuses and the session's state, and no vote,
\* whether the filter keeps finalists or cancels.
LEMMA BeginEndSuggest ==
  ASSUME IInv, NEW w \in Workers, begin_cmd_end_suggest(w) \/ begin_end_suggest_job(w)
  PROVE  Begun(w)
<1>s. ASSUME NEW F, NEW y, y = EndSuggestWrites(F)
      PROVE  /\ DOMAIN y = DOMAIN NoWrites /\ y.session = [state |-> "final_vote"]
             /\ \A r \in DOMAIN y.status : y.status[r] \in VS!MovieStatuses
             /\ y.reaction_count = <<>> /\ y.final_votes = <<>> /\ y.media = {}
             /\ y.insert = {} /\ y.add = {} /\ y.del = {}
  <2> DEFINE new == [r \in Reacted |-> IF r \in F THEN "finalist" ELSE "filtered_out"]
  <2>1. /\ DOMAIN y = DOMAIN NoWrites /\ y.session = [state |-> "final_vote"]
        /\ y.status = Changed(status, new)
        /\ y.reaction_count = <<>> /\ y.final_votes = <<>> /\ y.media = {}
        /\ y.insert = {} /\ y.add = {} /\ y.del = {}
    BY <1>s, NoWritesParts DEF EndSuggestWrites
  <2>2. \A r \in DOMAIN new : new[r] \in VS!MovieStatuses
    BY DEF VS!MovieStatuses
  <2>3. \A r \in DOMAIN Changed(status, new) : Changed(status, new)[r] \in VS!MovieStatuses
    BY <2>2, ChangedPart
  <2> QED
    BY <2>1, <2>3
<1>1. ASSUME NEW F, NEW y, y = EndSuggestWrites(F), NEW x, begin(w, x),
             DOMAIN x = DOMAIN y, x.session = y.session, x.status = y.status,
             x.reaction_count = y.reaction_count, x.final_votes = y.final_votes,
             x.media = y.media, x.insert = y.insert, x.add = y.add, x.del = y.del
      PROVE  Begun(w)
  <2>1. "final_vote" \in VS!States /\ "final_vote" \notin VS!Decided \union {"ready", "playing"}
    BY DEF VS!States, VS!Decided
  <2>2. x.media \subseteq Present
    BY <1>1, <1>s
  <2>3. DOMAIN x.session = {"state"} /\ x.session.state = "final_vote"
    BY <1>1, <1>s
  <2>4. \A r \in DOMAIN x.status : x.status[r] \in VS!MovieStatuses
    BY <1>1, <1>s
  <2>5. /\ DOMAIN x = DOMAIN NoWrites /\ x.reaction_count = <<>> /\ x.final_votes = <<>>
        /\ x.insert = {} /\ x.add = {} /\ x.del = {}
    BY <1>1, <1>s
  <2> QED
    BY <1>1, <2>1, <2>2, <2>3, <2>4, <2>5, MovesSession
<1>2. CASE begin_cmd_end_suggest(w)
  <2>1. PICK F : begin(w, [EndSuggestWrites(F) EXCEPT
                             !.arm = IF Reacted # {} THEN {"end_vote"} ELSE {}])
    BY <1>2 DEF begin_cmd_end_suggest
  <2> DEFINE y == EndSuggestWrites(F)
  <2> SUFFICES ASSUME NEW x, begin(w, x),
                      x = [y EXCEPT !.arm = IF Reacted # {} THEN {"end_vote"} ELSE {}]
               PROVE  Begun(w)
    BY <2>1
  <2>2. DOMAIN y = DOMAIN NoWrites
    BY <1>s
  <2> HIDE DEF y
  <2>3. /\ DOMAIN x = DOMAIN y /\ x.session = y.session /\ x.status = y.status
        /\ x.reaction_count = y.reaction_count /\ x.final_votes = y.final_votes
        /\ x.media = y.media /\ x.insert = y.insert /\ x.add = y.add /\ x.del = y.del
    BY <2>2, NoWritesParts
  <2> QED
    BY <1>1, <2>3 DEF y
<1>3. CASE begin_end_suggest_job(w) /\ session.state = "suggestions"
  <2>1. PICK F : begin(w, [EndSuggestWrites(F) EXCEPT !.run = {"end_suggest"}])
    BY <1>3 DEF begin_end_suggest_job
  <2> DEFINE y == EndSuggestWrites(F)
  <2> SUFFICES ASSUME NEW x, begin(w, x), x = [y EXCEPT !.run = {"end_suggest"}]
               PROVE  Begun(w)
    BY <2>1
  <2>2. DOMAIN y = DOMAIN NoWrites
    BY <1>s
  <2> HIDE DEF y
  <2>3. /\ DOMAIN x = DOMAIN y /\ x.session = y.session /\ x.status = y.status
        /\ x.reaction_count = y.reaction_count /\ x.final_votes = y.final_votes
        /\ x.media = y.media /\ x.insert = y.insert /\ x.add = y.add /\ x.del = y.del
    BY <2>2, NoWritesParts
  <2> QED
    BY <1>1, <2>3 DEF y
<1>4. CASE begin_end_suggest_job(w) /\ session.state # "suggestions"
  <2> SUFFICES ASSUME NEW x, x = [NoWrites EXCEPT !.run = {"end_suggest"}], begin(w, x)
               PROVE  Begun(w)
    BY <1>4 DEF begin_end_suggest_job
  <2>1. /\ DOMAIN x = DOMAIN NoWrites /\ x.session = <<>> /\ x.status = <<>>
        /\ x.reaction_count = <<>> /\ x.final_votes = <<>> /\ x.media = {}
        /\ x.insert = {} /\ x.add = {} /\ x.del = {}
    BY NoWritesParts
  <2> QED
    BY <2>1, NoWritesParts, MovesSession
<1> QED
  BY <1>2, <1>3, <1>4

\* cb_final_vote adds a ballot together with its film's count plus one.
LEMMA BeginCastFinalVote ==
  ASSUME IInv, NEW w \in Workers, NEW u \in Users, NEW r \in Rows,
         begin_cast_final_vote(w, u, r)
  PROVE  Begun(w)
<1> SUFFICES ASSUME NEW x,
                    x = [NoWrites EXCEPT !.add = {<<u, "final", r>>},
                                         !.final_votes = At(r, final_votes[r] + 1)]
             PROVE  /\ WritesAreTyped(x) /\ BringsWinner(x)
                    /\ BInv => CreditsItsBallot(x)
  BY DEF Begun, begin_cast_final_vote
<1>1. /\ DOMAIN x = DOMAIN NoWrites /\ x.session = <<>> /\ x.status = <<>>
      /\ x.reaction_count = <<>> /\ x.final_votes = At(r, final_votes[r] + 1) /\ x.media = {}
      /\ x.insert = {} /\ x.add = {<<u, "final", r>>} /\ x.del = {}
  BY NoWritesParts
<1>2. DOMAIN x.final_votes = {r} /\ x.final_votes[r] = final_votes[r] + 1 /\ final_votes[r] \in Nat
  BY <1>1 DEF At, IInv, TypeOK
<1>3. r \in Present
  BY DEF begin_cast_final_vote, WithStatus
<1>4. WritesAreTyped(x)
  BY <1>1, <1>2, <1>3, NoWritesParts DEF WritesAreTyped
<1>5. BringsWinner(x)
  BY <1>1, NoWritesParts DEF BringsWinner
<1>6. ASSUME BInv PROVE CreditsItsBallot(x)
  <2>1. BallotsFor(r) \subseteq votes
    BY DEF BallotsFor, Ballots
  <2>2. Cardinality(BallotsFor(r)) \in Nat
    BY <1>6, <2>1, FS_Subset, FS_CardinalityType DEF BInv
  <2>3. x.final_votes[r] <= Cardinality(BallotsFor(r)) + 1
    BY <1>2, <1>6, <2>2 DEF BInv, NoInventedBallots
  <2> QED
    BY <1>1, <1>2, <2>3 DEF CreditsItsBallot
<1> QED
  BY <1>4, <1>5, <1>6

\* The choice of a winner writes it together with the state it makes possible.
LEMMA BeginEndFinalVoteJob ==
  ASSUME IInv, NEW w \in Workers, begin_end_final_vote_job(w)
  PROVE  Begun(w)
<1>1. ASSUME NEW r \in WithStatus("finalist"),
             NEW x, begin(w, x),
             x = [NoWrites EXCEPT !.run = {"end_vote"},
                                  !.status = At(r, "winner"),
                                  !.session = [state |-> "downloading", winner_movie_id |-> r]]
      PROVE  Begun(w)
  <2>1. /\ DOMAIN x = DOMAIN NoWrites
        /\ x.session = [state |-> "downloading", winner_movie_id |-> r]
        /\ x.status = At(r, "winner")
        /\ x.reaction_count = <<>> /\ x.final_votes = <<>> /\ x.media = {}
        /\ x.insert = {} /\ x.add = {} /\ x.del = {}
    BY <1>1, NoWritesParts
  <2>2. r \in Present /\ r \in Rows
    BY DEF WithStatus, Present
  <2>3. /\ DOMAIN x.session = {"state", "winner_movie_id"}
        /\ x.session.state = "downloading" /\ x.session.winner_movie_id = r
    BY <2>1
  <2>4. \A s \in DOMAIN x.status : x.status[s] \in VS!MovieStatuses
    BY <2>1 DEF At, VS!MovieStatuses
  <2>5. WritesAreTyped(x)
    BY <2>1, <2>2, <2>3, <2>4, NoWritesParts DEF WritesAreTyped, VS!States
  <2>6. CreditsItsBallot(x)
    BY <2>1, NoWritesParts DEF CreditsItsBallot
  <2>7. BringsWinner(x)
    BY <2>2, <2>3 DEF BringsWinner
  <2> QED
    BY <1>1, <2>5, <2>6, <2>7 DEF Begun
<1>2. CASE begin(w, [NoWrites EXCEPT !.run = {"end_vote"}])
  <2> SUFFICES ASSUME NEW x, x = [NoWrites EXCEPT !.run = {"end_vote"}], begin(w, x)
               PROVE  Begun(w)
    BY <1>2
  <2>1. /\ DOMAIN x = DOMAIN NoWrites /\ x.session = <<>> /\ x.status = <<>>
        /\ x.reaction_count = <<>> /\ x.final_votes = <<>> /\ x.media = {}
        /\ x.insert = {} /\ x.add = {} /\ x.del = {}
    BY NoWritesParts
  <2> QED
    BY <2>1, NoWritesParts, MovesSession
<1> QED
  BY <1>1, <1>2 DEF begin_end_final_vote_job

\* /cancel_vote writes the state and nothing else.
LEMMA BeginCancelSession ==
  ASSUME IInv, NEW w \in Workers, begin_cancel_session(w)
  PROVE  Begun(w)
<1> SUFFICES ASSUME NEW x, x = [NoWrites EXCEPT !.session = [state |-> "cancelled"]], begin(w, x)
             PROVE  Begun(w)
  BY DEF begin_cancel_session
<1>1. /\ DOMAIN x = DOMAIN NoWrites /\ x.session = [state |-> "cancelled"] /\ x.status = <<>>
      /\ x.reaction_count = <<>> /\ x.final_votes = <<>> /\ x.media = {}
      /\ x.insert = {} /\ x.add = {} /\ x.del = {}
  BY NoWritesParts
<1>2. "cancelled" \in VS!States /\ "cancelled" \notin VS!Decided \union {"ready", "playing"}
  BY DEF VS!States, VS!Decided
<1> QED
  BY <1>1, <1>2, NoWritesParts, MovesSession

\* retry_vote resets the counters it finds, drops the winner and deletes ballots.
LEMMA BeginRetryVote ==
  ASSUME IInv, NEW w \in Workers, begin_retry_vote(w)
  PROVE  Begun(w)
<1> DEFINE
      row      == Changed(session, [state |-> "suggestions", winner_movie_id |-> None])
      proposed == Changed(status, [r \in Present |-> "proposed"])
      unmarked == Changed(reaction_count, [r \in Present |-> 0])
      uncast   == Changed(final_votes, [r \in Present |-> 0])
<1> SUFFICES ASSUME NEW x,
                    x = [NoWrites EXCEPT !.session = row, !.status = proposed,
                           !.reaction_count = unmarked, !.final_votes = uncast, !.del = votes]
             PROVE  WritesAreTyped(x)
  BY DEF Begun, begin_retry_vote
<1>1. /\ DOMAIN x = DOMAIN NoWrites /\ x.session = row /\ x.status = proposed
      /\ x.reaction_count = unmarked /\ x.final_votes = uncast /\ x.media = {}
      /\ x.insert = {} /\ x.add = {}
  BY NoWritesParts
<1>2. /\ "state" \in DOMAIN row => row.state = "suggestions"
      /\ "winner_movie_id" \in DOMAIN row => row.winner_movie_id = None
  BY ChangedPart
<1>3. /\ \A r \in DOMAIN proposed : proposed[r] = "proposed"
      /\ \A r \in DOMAIN unmarked : unmarked[r] = 0
      /\ \A r \in DOMAIN uncast : uncast[r] = 0
  BY ChangedPart
<1> HIDE DEF row, proposed, unmarked, uncast
<1> QED
  BY <1>1, <1>2, <1>3 DEF WritesAreTyped, VS!States, VS!MovieStatuses

\* /provide_link writes the winner's file and a state that has a winner.
LEMMA BeginProvideLink ==
  ASSUME IInv, NEW w \in Workers, begin_cmd_provide_link(w)
  PROVE  Begun(w)
<1>1. WithStatus("winner") # {}
  BY FS_EmptySet DEF begin_cmd_provide_link
<1>2. /\ WithStatus("winner") \subseteq Present
      /\ DecidedHasWinner => session.winner_movie_id \in Present
  BY DEF begin_cmd_provide_link, WithStatus, DecidedHasWinner, VS!Decided
<1>3. "ready" \in VS!States /\ "download_failed" \in VS!States
  BY DEF VS!States
<1>4. CASE begin(w, [NoWrites EXCEPT !.session = [state |-> "ready"],
                                     !.media = WithStatus("winner")])
  <2> SUFFICES ASSUME NEW x, begin(w, x),
                      x = [NoWrites EXCEPT !.session = [state |-> "ready"],
                                           !.media = WithStatus("winner")]
               PROVE  Begun(w)
    BY <1>4
  <2>1. /\ DOMAIN x = DOMAIN NoWrites /\ x.session = [state |-> "ready"] /\ x.status = <<>>
        /\ x.reaction_count = <<>> /\ x.final_votes = <<>> /\ x.media = WithStatus("winner")
        /\ x.insert = {} /\ x.add = {} /\ x.del = {}
    BY NoWritesParts
  <2> DEFINE writes == [state |-> "ready"]
  <2>2. x.session = writes /\ DOMAIN writes \subseteq {"state", "top_n"} /\ writes.state = "ready"
    BY <2>1
  <2>3. x.media \subseteq Present /\ x.media # {}
    BY <1>1, <1>2, <2>1
  <2>4. \A r \in DOMAIN x.status : x.status[r] \in VS!MovieStatuses
    BY <2>1, NoWritesParts
  <2> HIDE DEF writes
  <2> QED
    BY <1>2, <1>3, <2>1, <2>2, <2>3, <2>4, MovesSession
<1>5. CASE begin(w, [NoWrites EXCEPT !.session = [state |-> "download_failed"]])
  <2> SUFFICES ASSUME NEW x, begin(w, x),
                      x = [NoWrites EXCEPT !.session = [state |-> "download_failed"]]
               PROVE  Begun(w)
    BY <1>5
  <2>1. /\ DOMAIN x = DOMAIN NoWrites /\ x.session = [state |-> "download_failed"]
        /\ x.status = <<>>
        /\ x.reaction_count = <<>> /\ x.final_votes = <<>> /\ x.media = {}
        /\ x.insert = {} /\ x.add = {} /\ x.del = {}
    BY NoWritesParts
  <2> QED
    BY <1>2, <1>3, <2>1, NoWritesParts, MovesSession
<1> QED
  BY <1>4, <1>5 DEF begin_cmd_provide_link

\* /retry_download puts a failed session back to downloading, its winner untouched.
LEMMA BeginRetryDownload ==
  ASSUME IInv, NEW w \in Workers, begin_cmd_retry_download(w)
  PROVE  Begun(w)
<1> SUFFICES ASSUME NEW x, x = [NoWrites EXCEPT !.session = [state |-> "downloading"]],
                    begin(w, x)
             PROVE  Begun(w)
  BY DEF begin_cmd_retry_download
<1>1. /\ DOMAIN x = DOMAIN NoWrites /\ x.session = [state |-> "downloading"] /\ x.status = <<>>
      /\ x.reaction_count = <<>> /\ x.final_votes = <<>> /\ x.media = {}
      /\ x.insert = {} /\ x.add = {} /\ x.del = {}
  BY NoWritesParts
<1>2. DecidedHasWinner => session.winner_movie_id \in Present
  BY DEF begin_cmd_retry_download, DecidedHasWinner, VS!Decided
<1>3. "downloading" \in VS!States
  BY DEF VS!States
<1> QED
  BY <1>1, <1>2, <1>3, NoWritesParts, MovesSession

\* The film that plays has a file.
LEMMA BeginPlayOrStop ==
  ASSUME IInv, NEW w \in Workers, begin_cmd_play(w) \/ begin_cmd_stop(w)
  PROVE  Begun(w)
<1>1. DecidedHasWinner => session.winner_movie_id \in Present /\ media # {}
  BY DEF begin_cmd_play, begin_cmd_stop, DecidedHasWinner, VS!Decided
<1>2. "playing" \in VS!States /\ "ready" \in VS!States
  BY DEF VS!States
<1>3. ASSUME NEW writes, DOMAIN writes \subseteq {"state"},
             "state" \in DOMAIN writes => writes.state \in {"playing", "ready"},
             begin(w, [NoWrites EXCEPT !.session = writes])
      PROVE  Begun(w)
  <2> SUFFICES ASSUME NEW x, x = [NoWrites EXCEPT !.session = writes], begin(w, x)
               PROVE  Begun(w)
    BY <1>3
  <2>1. /\ DOMAIN x = DOMAIN NoWrites /\ x.session = writes /\ x.status = <<>>
        /\ x.reaction_count = <<>> /\ x.final_votes = <<>> /\ x.media = {}
        /\ x.insert = {} /\ x.add = {} /\ x.del = {}
    BY NoWritesParts
  <2>2. "state" \in DOMAIN writes => writes.state \in VS!States
    BY <1>2, <1>3
  <2>3. DOMAIN writes \subseteq {"state", "top_n"} /\ x.media \subseteq Present
    BY <1>3, <2>1
  <2>4. \A r \in DOMAIN x.status : x.status[r] \in VS!MovieStatuses
    BY <2>1, NoWritesParts
  <2> QED
    BY <1>1, <2>1, <2>2, <2>3, <2>4, MovesSession
<1>4. CASE begin_cmd_play(w)
  <2> DEFINE writes == Changed(session, [state |-> "playing"])
  <2>1. /\ DOMAIN writes \subseteq {"state"}
        /\ "state" \in DOMAIN writes => writes.state = "playing"
    BY ChangedPart
  <2>2. begin(w, [NoWrites EXCEPT !.session = writes])
    BY <1>4 DEF begin_cmd_play
  <2> HIDE DEF writes
  <2> QED
    BY <1>3, <2>1, <2>2
<1>5. CASE begin_cmd_stop(w)
  <2> DEFINE writes == [state |-> "ready"]
  <2>1. DOMAIN writes \subseteq {"state"} /\ writes.state = "ready"
    OBVIOUS
  <2>2. begin(w, [NoWrites EXCEPT !.session = writes])
    BY <1>5 DEF begin_cmd_stop
  <2> HIDE DEF writes
  <2> QED
    BY <1>3, <2>1, <2>2
<1> QED
  BY <1>4, <1>5

------------------------------------------------------------------------------
(* The second half.                                                         *)

\* A commit writes to the columns what is of their kind.
LEMMA CommitTyped ==
  ASSUME IInv, NEW w \in Workers, commit(w)
  PROVE  IInv' /\ Present \subseteq Present'
<1> DEFINE x == tx[w]
<1>x. WritesAreTyped(x)
  BY DEF IInv, commit
<1>1. title' \in [Rows -> Titles \union {None}] /\ Present \subseteq Present'
  <2>1. \/ UNCHANGED title
        \/ \E t \in x.insert, r \in Rows \ Present : title' = [title EXCEPT ![r] = t]
    BY DEF commit
  <2>2. x.insert \in SUBSET Titles
    BY <1>x DEF WritesAreTyped
  <2> HIDE DEF x
  <2> QED
    BY <2>1, <2>2, RowsStay DEF IInv
<1>2. /\ status' \in [Rows -> VS!MovieStatuses]
      /\ reaction_count' \in [Rows -> Nat]
      /\ final_votes' \in [Rows -> Nat]
  <2>1. /\ status' = Written(status, x.status)
        /\ reaction_count' = Written(reaction_count, x.reaction_count)
        /\ final_votes' = Written(final_votes, x.final_votes)
    BY DEF commit
  <2>2. /\ \A r \in DOMAIN x.status : x.status[r] \in VS!MovieStatuses
        /\ \A r \in DOMAIN x.reaction_count : x.reaction_count[r] \in Nat
        /\ \A r \in DOMAIN x.final_votes : x.final_votes[r] \in Nat
    BY <1>x DEF WritesAreTyped
  <2> HIDE DEF x
  <2>3. status' \in [Rows -> VS!MovieStatuses]
    BY <2>1, <2>2, WrittenType DEF IInv, TypeOK
  <2>4. reaction_count' \in [Rows -> Nat]
    BY <2>1, <2>2, WrittenType DEF IInv, TypeOK
  <2>5. final_votes' \in [Rows -> Nat]
    BY <2>1, <2>2, WrittenType DEF IInv, TypeOK
  <2> QED
    BY <2>3, <2>4, <2>5
<1>3. /\ DOMAIN session' = {"state", "top_n", "winner_movie_id"}
      /\ session'.state \in VS!States
      /\ session'.winner_movie_id \in Rows \union {None}
  BY <1>x DEF commit, Written, WritesAreTyped, IInv, TypeOK
<1>4. media' \subseteq Present' /\ votes' \subseteq Users \X {"fire", "final"} \X Present'
  BY <1>x, <1>1 DEF commit, WritesAreTyped, IInv, TypeOK
<1>5. /\ DOMAIN tx' = Workers
      /\ (\A v \in Workers : tx[v].open => WritesAreTyped(tx[v]))'
  <2>1. Close(w, x.del)
    BY DEF commit
  <2>2. ASSUME NEW v \in Workers, tx'[v].open PROVE WritesAreTyped(tx[v])'
    <3>1. tx[v].open /\ WritesAreTyped(tx[v])
      BY <2>1, <2>2, Closes DEF IInv
    <3>2. /\ DOMAIN tx'[v] = DOMAIN tx[v]
          /\ tx'[v].session = tx[v].session /\ tx'[v].status = tx[v].status
          /\ tx'[v].reaction_count = tx[v].reaction_count
          /\ tx'[v].final_votes = tx[v].final_votes
          /\ tx'[v].media = tx[v].media /\ tx'[v].insert = tx[v].insert
          /\ tx'[v].add = tx[v].add
      BY <2>1, <2>2, Closes
    <3> QED
      BY <1>1, <3>1, <3>2 DEF WritesAreTyped
  <2>3. DOMAIN tx' = Workers
    BY <2>1, Closes
  <2> QED
    BY <2>2, <2>3
<1>6. TypeOK'
  BY <1>1, <1>2, <1>3, <1>4, <1>5 DEF TypeOK, WritesAreTyped
<1> QED
  BY <1>1, <1>3, <1>5, <1>6 DEF IInv

\* Ballots are only added, so that no count falls behind what it was read from.
LEMMA CommitCredits ==
  ASSUME IInv, BInv, NEW w \in Workers, commit(w)
  PROVE  BInv'
<1> DEFINE x == tx[w]
<1>x. CreditsItsBallot(x) /\ votes' = (votes \ x.del) \union x.add /\ Close(w, x.del)
  BY DEF BInv, commit
<1>1. IsFiniteSet(votes')
  <2>1. IsFiniteSet(votes \ x.del)
    BY FS_Subset DEF BInv
  <2>2. CASE x.add = {}
    BY <1>x, <2>1, <2>2
  <2>3. ASSUME NEW v \in x.add, x.add = {v} PROVE IsFiniteSet(votes')
    BY <1>x, <2>1, <2>3, FS_AddElement
  <2> QED
    BY <1>x, <2>2, <2>3 DEF CreditsItsBallot
<1>2. \A r : /\ IsFiniteSet(BallotsFor(r)) /\ IsFiniteSet(BallotsFor(r)')
             /\ Cardinality(BallotsFor(r)) \in Nat /\ Cardinality(BallotsFor(r)') \in Nat
             /\ Cardinality(BallotsFor(r)) <= Cardinality(BallotsFor(r)')
  <2> TAKE r
  <2>1. BallotsFor(r) \subseteq votes /\ BallotsFor(r)' \subseteq votes'
    BY DEF BallotsFor, Ballots
  <2>2. BallotsFor(r) \subseteq BallotsFor(r)'
    BY <1>x DEF BallotsFor, Ballots, CreditsItsBallot
  <2>3. IsFiniteSet(BallotsFor(r)) /\ IsFiniteSet(BallotsFor(r)')
    BY <1>1, <2>1, FS_Subset DEF BInv
  <2> QED
    BY <2>2, <2>3, FS_Subset, FS_CardinalityType
<1>3. ASSUME NEW r \in Rows PROVE final_votes'[r] <= Cardinality(BallotsFor(r)')
  <2>1. final_votes' = Written(final_votes, x.final_votes)
    BY DEF commit
  <2>2. CASE r \notin DOMAIN x.final_votes
    <3>1. final_votes'[r] = final_votes[r] /\ final_votes[r] \in Nat
      BY <2>1, <2>2 DEF Written, IInv, TypeOK
    <3>2. final_votes[r] <= Cardinality(BallotsFor(r))
      BY DEF BInv, NoInventedBallots
    <3> QED
      BY <1>2, <3>1, <3>2
  <2>3. CASE r \in DOMAIN x.final_votes
    <3>1. PICK u \in Users : x.add = {<<u, "final", r>>}
      BY <1>x, <2>3 DEF CreditsItsBallot
    <3>2. final_votes'[r] = x.final_votes[r] /\ x.final_votes[r] \in Nat
      BY <2>1, <2>3 DEF Written, IInv, TypeOK, WritesAreTyped, commit
    <3>3. x.final_votes[r] <= Cardinality(BallotsFor(r)) + 1
      BY <1>x, <2>3 DEF CreditsItsBallot
    <3>4. <<u, "final", r>> \notin BallotsFor(r)
      BY <3>1 DEF commit, BallotsFor, Ballots
    <3>5. BallotsFor(r)' = BallotsFor(r) \union {<<u, "final", r>>}
      BY <1>x, <3>1 DEF BallotsFor, Ballots, CreditsItsBallot
    <3>6. Cardinality(BallotsFor(r)') = Cardinality(BallotsFor(r)) + 1
      BY <1>2, <3>4, <3>5, FS_AddElement
    <3> QED
      BY <1>2, <3>2, <3>3, <3>6
  <2> QED
    BY <2>2, <2>3
<1>4. ASSUME NEW v \in Workers, tx'[v].open PROVE CreditsItsBallot(tx[v])'
  <2>1. tx[v].open /\ CreditsItsBallot(tx[v]) /\ WritesAreTyped(tx[v])
    BY <1>x, <1>4, Closes DEF IInv, BInv
  <2>2. /\ tx'[v].final_votes = tx[v].final_votes /\ tx'[v].add = tx[v].add
        /\ tx'[v].del \subseteq tx[v].del
    BY <1>x, <1>4, Closes
  <2>3. ASSUME NEW r \in DOMAIN tx[v].final_votes
        PROVE  tx[v].final_votes[r] <= Cardinality(BallotsFor(r)') + 1
    <3>1. /\ tx[v].final_votes[r] \in Nat
          /\ tx[v].final_votes[r] <= Cardinality(BallotsFor(r)) + 1
      BY <2>1 DEF CreditsItsBallot, WritesAreTyped
    <3> QED
      BY <1>2, <3>1
  <2> QED
    BY <2>1, <2>2, <2>3 DEF CreditsItsBallot
<1> QED
  BY <1>1, <1>3, <1>4 DEF BInv, NoInventedBallots

\* Rows and files stay, and a winner once recorded is not taken back.
LEMMA CommitWinner ==
  ASSUME IInv, WInv, NEW w \in Workers, commit(w)
  PROVE  WInv'
<1> DEFINE x == tx[w]
<1>x. BringsWinner(x) /\ Close(w, x.del)
  BY DEF WInv, commit
<1>1. Present \subseteq Present' /\ media \subseteq media' /\ x.media \subseteq media'
  BY CommitTyped DEF commit
<1>2. /\ session'.state =
           IF "state" \in DOMAIN x.session THEN x.session.state ELSE session.state
      /\ session'.winner_movie_id =
           IF "winner_movie_id" \in DOMAIN x.session THEN x.session.winner_movie_id
           ELSE session.winner_movie_id
  BY DEF commit, Written, IInv
<1>3. session.winner_movie_id \in Present => session'.winner_movie_id \in Present'
  BY <1>x, <1>1, <1>2 DEF BringsWinner
<1>4. DecidedHasWinner'
  <2>1. session'.state \in VS!Decided => session'.winner_movie_id \in Present'
    BY <1>x, <1>1, <1>2, <1>3 DEF BringsWinner, WInv, DecidedHasWinner
  <2>2. session'.state \in {"ready", "playing"} => media' # {}
    BY <1>x, <1>1, <1>2 DEF BringsWinner, WInv, DecidedHasWinner
  <2> QED
    BY <2>1, <2>2 DEF DecidedHasWinner, VS!Decided
<1>5. ASSUME NEW v \in Workers, tx'[v].open PROVE BringsWinner(tx[v])'
  <2>1. /\ BringsWinner(tx[v])
        /\ tx'[v].session = tx[v].session /\ tx'[v].media = tx[v].media
    BY <1>x, <1>5, Closes DEF WInv
  <2> QED
    BY <1>1, <1>3, <2>1 DEF BringsWinner, VS!Decided
<1> QED
  BY <1>4, <1>5 DEF WInv

\* A transaction that ends without a commit leaves only the others open.
LEMMA RollbackKeeps ==
  ASSUME IInv, NEW w \in Workers, rollback(w)
  PROVE  IInv' /\ (BInv => BInv') /\ (WInv => WInv')
<1>1. Close(w, {}) /\ UNCHANGED db
  BY DEF rollback
<1>2. /\ UNCHANGED <<session, media, votes, Present, Ballots>>
      /\ \A r : UNCHANGED BallotsFor(r)
      /\ NoInventedBallots => NoInventedBallots'
      /\ DecidedHasWinner => DecidedHasWinner'
  BY <1>1 DEF db, Present, Ballots, BallotsFor, NoInventedBallots, DecidedHasWinner
<1>3. ASSUME NEW v \in Workers, tx'[v].open
      PROVE  /\ tx[v].open
             /\ WritesAreTyped(tx[v])'
             /\ CreditsItsBallot(tx[v]) => CreditsItsBallot(tx[v])'
             /\ BringsWinner(tx[v]) => BringsWinner(tx[v])'
  <2>1. /\ tx[v].open /\ DOMAIN tx'[v] = DOMAIN tx[v] /\ WritesAreTyped(tx[v])
        /\ tx'[v].session = tx[v].session /\ tx'[v].status = tx[v].status
        /\ tx'[v].reaction_count = tx[v].reaction_count
        /\ tx'[v].final_votes = tx[v].final_votes
        /\ tx'[v].media = tx[v].media /\ tx'[v].insert = tx[v].insert
        /\ tx'[v].add = tx[v].add /\ tx'[v].del \subseteq tx[v].del
    BY <1>1, <1>3, Closes DEF IInv
  <2>2. WritesAreTyped(tx[v])'
    BY <1>2, <2>1 DEF WritesAreTyped
  <2>3. CreditsItsBallot(tx[v]) => CreditsItsBallot(tx[v])'
    BY <1>2, <2>1 DEF CreditsItsBallot
  <2>4. BringsWinner(tx[v]) => BringsWinner(tx[v])'
    BY <1>2, <2>1 DEF BringsWinner
  <2> QED
    BY <2>1, <2>2, <2>3, <2>4
<1>4. DOMAIN tx' = Workers
  BY <1>1, Closes
<1>5. TypeOK'
  BY <1>1, <1>2, <1>3 DEF IInv, TypeOK, db, WritesAreTyped
<1> QED
  BY <1>2, <1>3, <1>4, <1>5 DEF IInv, BInv, WInv

------------------------------------------------------------------------------
\* Nothing is written and no transaction is open at first.
LEMMA InitInv == Init => IInv /\ BInv /\ WInv
<1> SUFFICES ASSUME Init PROVE IInv /\ BInv /\ WInv
  OBVIOUS
<1>1. DOMAIN tx = Workers /\ \A w \in Workers : ~tx[w].open
  BY DEF Init, Closed
<1>2. IInv
  BY <1>1 DEF Init, IInv, TypeOK, Present, VS!States, VS!MovieStatuses
<1>3. BInv
  <2>1. \A r : BallotsFor(r) = {}
    BY DEF Init, BallotsFor, Ballots
  <2> QED
    BY <1>1, <2>1, FS_EmptySet DEF Init, BInv, NoInventedBallots
<1>4. WInv
  BY <1>1 DEF Init, WInv, DecidedHasWinner, VS!Decided
<1> QED
  BY <1>2, <1>3, <1>4

\* Every step begins a transaction that writes what it may, or ends one.
LEMMA NextInv ==
  ASSUME IInv, [Next]_vars
  PROVE  IInv' /\ (~ServiceCallers /\ BInv => BInv') /\ (~ServiceCallers /\ WInv => WInv')
<1>1. ASSUME NEW w \in Workers, Begun(w)
      PROVE  IInv' /\ (~ServiceCallers /\ BInv => BInv') /\ (~ServiceCallers /\ WInv => WInv')
  BY <1>1, BeginKeeps DEF Begun
<1>2. ASSUME NEW w \in Workers, commit(w) PROVE IInv' /\ (BInv => BInv') /\ (WInv => WInv')
  BY <1>2, CommitTyped, CommitCredits, CommitWinner
<1>3. ASSUME NEW w \in Workers, rollback(w) PROVE IInv' /\ (BInv => BInv') /\ (WInv => WInv')
  BY <1>3, RollbackKeeps
<1>4. CASE UNCHANGED vars
  <2> USE <1>4 DEF vars, db
  <2>1. /\ UNCHANGED <<Present, Ballots>> /\ \A r : UNCHANGED BallotsFor(r)
        /\ TypeOK'
    BY DEF Present, Ballots, BallotsFor, IInv, TypeOK
  <2>2. NoInventedBallots => NoInventedBallots'
    BY <2>1 DEF NoInventedBallots
  <2>3. DecidedHasWinner => DecidedHasWinner'
    BY <2>1 DEF DecidedHasWinner
  <2>4. \A y : /\ WritesAreTyped(y) => WritesAreTyped(y)'
               /\ CreditsItsBallot(y) => CreditsItsBallot(y)'
               /\ BringsWinner(y) => BringsWinner(y)'
    BY <2>1 DEF WritesAreTyped, CreditsItsBallot, BringsWinner
  <2> QED
    BY <2>1, <2>2, <2>3, <2>4 DEF IInv, BInv, WInv
<1>5. ASSUME NEW w \in Workers,
             \/ \E t \in Titles : begin_suggest_movie(w, t)
             \/ \E u \in Users, r \in Rows : begin_add_fire_reaction(w, u, r)
             \/ \E u \in Users, r \in Rows : begin_remove_fire_reaction(w, u, r)
             \/ \E n \in TopNChoices : begin_set_top_n(w, n)
             \/ begin_cmd_end_suggest(w)
             \/ begin_end_suggest_job(w)
             \/ \E u \in Users, r \in Rows : begin_cast_final_vote(w, u, r)
      PROVE  Begun(w)
  BY <1>5, BeginSuggestMovie, BeginAddFireReaction, BeginRemoveFireReaction, BeginSetTopN,
     BeginEndSuggest, BeginCastFinalVote
<1>6. ASSUME NEW w \in Workers,
             \/ begin_end_final_vote_job(w)
             \/ begin_cancel_session(w)
             \/ begin_retry_vote(w)
             \/ begin_cmd_provide_link(w)
             \/ begin_cmd_retry_download(w)
             \/ begin_cmd_play(w)
             \/ begin_cmd_stop(w)
      PROVE  Begun(w)
  BY <1>6, BeginEndFinalVoteJob, BeginCancelSession, BeginRetryVote, BeginProvideLink,
     BeginRetryDownload, BeginPlayOrStop
<1> QED
  BY <1>1, <1>2, <1>3, <1>4, <1>5, <1>6 DEF Next

------------------------------------------------------------------------------
\* However the transactions of a session overlap, also with retry_vote, what is
\* committed and what is about to be stays of its kind.
THEOREM TypeCorrect == Spec => []IInv
<1>1. Init => IInv
  BY InitInv
<1>2. IInv /\ [Next]_vars => IInv'
  BY NextInv
<1> QED
  BY <1>1, <1>2, PTL DEF Spec

\* As long as the bot alone calls the service, which never calls retry_vote, a
\* film's final_votes is never more than its rows in votes, however many
\* cast_final_vote overlap: ballots may be lost from the counter, not invented.
THEOREM NoneInvented == ASSUME ~ServiceCallers PROVE Spec => []NoInventedBallots
<1>1. Init => BInv
  BY InitInv
<1>2. IInv /\ BInv /\ [Next]_vars => BInv'
  BY NextInv
<1>3. BInv => NoInventedBallots
  BY DEF BInv
<1> QED
  BY <1>1, <1>2, <1>3, TypeCorrect, PTL DEF Spec

\* Under the same condition a session that downloads, is ready or plays has a
\* winner recorded, and one that is ready or plays has a file, whatever the
\* handlers that moved it there had read.
THEOREM WinnerRecorded == ASSUME ~ServiceCallers PROVE Spec => []DecidedHasWinner
<1>1. Init => WInv
  BY InitInv
<1>2. IInv /\ WInv /\ [Next]_vars => WInv'
  BY NextInv
<1>3. WInv => DecidedHasWinner
  BY DEF WInv
<1> QED
  BY <1>1, <1>2, <1>3, TypeCorrect, PTL DEF Spec

------------------------------------------------------------------------------
(* Orders of a finite set, by induction over its subsets.                   *)

\* Of a family of subsets of a finite set one is least.
LEMMA LeastSubset ==
  ASSUME NEW S, IsFiniteSet(S), NEW C \in SUBSET SUBSET S, C # {}
  PROVE  \E T \in C : \A U \in C : U \subseteq T => U = T
<1>1. IsWellFoundedOn(StrictSubsetOrdering(S), SUBSET S)
  BY FS_StrictSubsetOrderingWellFounded, FS_FiniteSubsetsOfFinite
<1>2. PICK T \in C : \A U \in C : <<U, T>> \notin StrictSubsetOrdering(S)
  BY <1>1, WFMin
<1> QED
  BY <1>2 DEF StrictSubsetOrdering

\* An element of a finite set with the smallest count.
LEMMA LeastCount ==
  ASSUME NEW T, IsFiniteSet(T), T # {}, NEW c, \A x \in T : c[x] \in Nat
  PROVE  \E x \in T : \A y \in T : c[x] <= c[y]
<1> DEFINE Below(x) == {y \in T : c[y] < c[x]}
           C == {Below(x) : x \in T}
<1>1. C \in SUBSET SUBSET T /\ C # {}
  OBVIOUS
<1>2. PICK x \in T : \A y \in T : Below(y) \subseteq Below(x) => Below(y) = Below(x)
  <2> HIDE DEF Below
  <2>1. PICK L \in C : \A U \in C : U \subseteq L => U = L
    <3> HIDE DEF C
    <3> QED BY <1>1, LeastSubset
  <2> QED
    BY <2>1
<1>3. ASSUME NEW y \in T, ~(c[x] <= c[y]) PROVE FALSE
  <2>1. c[y] < c[x]
    BY <1>3
  <2>2. Below(y) \subseteq Below(x) /\ y \in Below(x) /\ y \notin Below(y)
    BY <2>1
  <2> QED
    BY <1>2, <2>2
<1> QED
  BY <1>3

\* An order of T in which the counts do not grow.
Descends(o, T, c) ==
  /\ o \in [1..Cardinality(T) -> T]
  /\ \A i, j \in 1..Cardinality(T) : i < j => o[i] # o[j] /\ c[o[i]] >= c[o[j]]

\* Every finite set of films has such an order.
LEMMA OrderExists ==
  ASSUME NEW S, IsFiniteSet(S), NEW c, \A x \in S : c[x] \in Nat
  PROVE  \E o : Descends(o, S, c)
<1> DEFINE C == {T \in SUBSET S : ~\E o : Descends(o, T, c)}
<1> SUFFICES ASSUME S \in C PROVE FALSE
  OBVIOUS
<1>1. PICK T \in C : \A U \in C : U \subseteq T => U = T
  <2>1. C \in SUBSET SUBSET S /\ C # {}
    OBVIOUS
  <2> HIDE DEF C
  <2> QED
    BY <2>1, LeastSubset
<1>2. IsFiniteSet(T) /\ Cardinality(T) \in Nat
  BY FS_Subset, FS_CardinalityType
<1>3. T # {}
  <2> SUFFICES ASSUME T = {} PROVE FALSE
    OBVIOUS
  <2>1. Cardinality(T) = 0
    BY FS_EmptySet
  <2>2. Descends(<<>>, T, c)
    BY <2>1 DEF Descends
  <2> QED
    BY <2>2
<1>4. PICK x \in T : \A y \in T : c[x] <= c[y]
  BY <1>2, <1>3, LeastCount
<1> DEFINE U == T \ {x}
           n == Cardinality(T)
<1>5. Cardinality(U) = n - 1 /\ n - 1 \in Nat
  <2>1. IsFiniteSet(U) /\ Cardinality(U) = n - 1
    BY <1>2, FS_RemoveElement
  <2> QED
    BY <2>1, FS_CardinalityType
<1>6. PICK o : Descends(o, U, c)
  BY <1>1
<1> DEFINE p == [i \in 1..n |-> IF i < n THEN o[i] ELSE x]
<1>7. \A i \in 1..n : (i < n => i \in 1..Cardinality(U)) /\ (~(i < n) => i = n)
  BY <1>2, <1>5
<1>8. \A i \in 1..n : (i < n => p[i] = o[i] /\ o[i] \in U) /\ (~(i < n) => p[i] = x)
  BY <1>6, <1>7 DEF Descends
<1>9. p \in [1..n -> T]
  BY <1>8
<1>10. ASSUME NEW i \in 1..n, NEW j \in 1..n, i < j
       PROVE  p[i] # p[j] /\ c[p[i]] >= c[p[j]]
  <2>1. i < n /\ i \in 1..Cardinality(U) /\ p[i] = o[i] /\ o[i] \in U
    BY <1>2, <1>7, <1>8, <1>10
  <2>2. CASE j < n
    BY <1>6, <1>7, <1>8, <1>10, <2>1, <2>2 DEF Descends
  <2>3. CASE ~(j < n)
    BY <1>4, <1>8, <2>1, <2>3
  <2> QED
    BY <2>2, <2>3
<1> QED
  <2>1. Descends(p, T, c)
    <3> HIDE DEF p
    <3> QED
    BY <1>9, <1>10 DEF Descends
  <2> QED
    BY <2>1

\* An order that begins with the members of F, when none of the others has a
\* greater count.
LEMMA OrderBegins ==
  ASSUME NEW S, IsFiniteSet(S), NEW c, \A x \in S : c[x] \in Nat,
         NEW F \in SUBSET S, \A x \in F, y \in S \ F : c[x] >= c[y]
  PROVE  \E o : /\ Descends(o, S, c)
                /\ \A x \in S : x \in F <=> \E i \in 1..Cardinality(S) :
                                              i <= Cardinality(F) /\ o[i] = x
<1> DEFINE R == S \ F
           n == Cardinality(S)
           k == Cardinality(F)
<1>1. IsFiniteSet(F) /\ IsFiniteSet(R)
  BY FS_Subset
<1>2. n \in Nat /\ k \in Nat /\ Cardinality(R) = n - k /\ k <= n
  <2>1. R \cup F = S /\ R \cap F = {} /\ Cardinality({}) = 0
    BY FS_EmptySet
  <2>2. Cardinality(S) = Cardinality(R) + Cardinality(F) - 0
    BY <1>1, <2>1, FS_Union
  <2>3. Cardinality(R) \in Nat /\ n \in Nat /\ k \in Nat
    BY <1>1, FS_CardinalityType
  <2> QED
    BY <2>2, <2>3
<1>3. PICK a : Descends(a, F, c)
  BY <1>1, OrderExists
<1>4. PICK b : Descends(b, R, c)
  BY <1>1, OrderExists
<1> DEFINE o == [i \in 1..n |-> IF i <= k THEN a[i] ELSE b[i - k]]
<1>5. \A i \in 1..n : /\ i <= k => i \in 1..k /\ o[i] = a[i] /\ o[i] \in F
                      /\ ~(i <= k) => i - k \in 1..Cardinality(R) /\ o[i] = b[i - k] /\ o[i] \in R
  <2> TAKE i \in 1..n
  <2>1. i <= k => i \in 1..k
    BY <1>2
  <2>2. ~(i <= k) => i - k \in 1..Cardinality(R)
    BY <1>2
  <2> QED
    BY <1>3, <1>4, <2>1, <2>2 DEF Descends
<1>6. o \in [1..n -> S]
  BY <1>5
<1>7. ASSUME NEW i \in 1..n, NEW j \in 1..n, i < j
      PROVE  o[i] # o[j] /\ c[o[i]] >= c[o[j]]
  <2> HIDE DEF o
  <2>1. CASE j <= k
    <3>1. i <= k
      BY <1>2, <1>7, <2>1
    <3> QED
      BY <1>3, <1>5, <1>7, <2>1, <3>1 DEF Descends
  <2>2. CASE i <= k /\ ~(j <= k)
    BY <1>5, <2>2
  <2>3. CASE ~(i <= k)
    <3>1. ~(j <= k) /\ i - k < j - k
      BY <1>2, <1>7, <2>3
    <3> QED
      BY <1>4, <1>5, <2>3, <3>1 DEF Descends
  <2> QED
    BY <2>1, <2>2, <2>3
<1>8. ASSUME NEW x \in F PROVE \E i \in 1..k : a[i] = x
  <2>1. a \in Injection(1..k, F)
    BY <1>2, <1>3 DEF Descends, Injection, IsInjective
  <2>2. IsFiniteSet(1..k) /\ Cardinality(1..k) = k
    BY <1>2, FS_Interval
  <2>3. a \in Surjection(1..k, F)
    BY <1>1, <2>1, <2>2, FS_Injection
  <2> QED
    BY <2>3 DEF Surjection
<1>9. ASSUME NEW x \in S
      PROVE  x \in F <=> \E i \in 1..n : i <= k /\ o[i] = x
  <2>1. ASSUME x \in F PROVE \E i \in 1..n : i <= k /\ o[i] = x
    <3>1. PICK i \in 1..k : a[i] = x
      BY <1>8, <2>1
    <3>2. i \in 1..n /\ i <= k
      BY <1>2
    <3> QED
      BY <1>5, <3>1, <3>2
  <2>2. ASSUME NEW i \in 1..n, i <= k, o[i] = x PROVE x \in F
    BY <1>5, <2>2
  <2> QED
    BY <2>1, <2>2
<1> QED
  <2> HIDE DEF o
  <2> QED
    BY <1>6, <1>7, <1>9 DEF Descends

------------------------------------------------------------------------------
(* One worker.  Nothing is committed between the reads of a transaction and *)
(* its commit, so it writes what its handler would decide now.              *)

\* What /suggest_movie, a reaction and a reaction taken back write.
Suggests(x, t) ==
  /\ session.state = "suggestions"
  /\ \A r \in Rows : title[r] # t
  /\ x = [NoWrites EXCEPT !.insert = {t}]

AddsReaction(x, u, r) ==
  /\ session.state \in {"suggestions", "filter"}
  /\ r \in Present
  /\ <<u, "fire", r>> \notin votes
  /\ x = [NoWrites EXCEPT !.add = {<<u, "fire", r>>},
                          !.reaction_count = At(r, reaction_count[r] + 1),
                          !.status = Changed(status, At(r, "filtered_in"))]

RemovesReaction(x, u, r) ==
  /\ <<u, "fire", r>> \in votes
  /\ x = [NoWrites EXCEPT
            !.del = {<<u, "fire", r>>},
            !.reaction_count =
              Changed(reaction_count,
                      At(r, IF reaction_count[r] > 0 THEN reaction_count[r] - 1 ELSE 0))]

\* What a handler or job writes that ends a stage.
SetsTopN(x, n) == IsActive /\ x = [NoWrites EXCEPT !.session = Changed(session, [top_n |-> n])]

EndsSuggest(x) ==
  /\ session.state = "suggestions"
  /\ \E F \in TopN :
       \/ x = [EndSuggestWrites(F) EXCEPT !.arm = IF Reacted # {} THEN {"end_vote"} ELSE {}]
       \/ "end_suggest" \in jobs /\ x = [EndSuggestWrites(F) EXCEPT !.run = {"end_suggest"}]

CastsBallot(x, u, r) ==
  /\ session.state = "final_vote"
  /\ r \in WithStatus("finalist")
  /\ \A v \in Ballots : v[1] # u
  /\ x = [NoWrites EXCEPT !.add = {<<u, "final", r>>},
                          !.final_votes = At(r, final_votes[r] + 1)]

DecidesFor(x, r) ==
  /\ "end_vote" \in jobs /\ min_votes_met /\ session.state = "final_vote"
  /\ r \in WithStatus("finalist")
  /\ \A s \in WithStatus("finalist") : final_votes[s] <= final_votes[r]
  /\ x = [NoWrites EXCEPT !.run = {"end_vote"},
                          !.status = At(r, "winner"),
                          !.session = [state |-> "downloading", winner_movie_id |-> r]]

RunsInVain(x) ==
  \/ /\ "end_suggest" \in jobs /\ session.state # "suggestions"
     /\ x = [NoWrites EXCEPT !.run = {"end_suggest"}]
  \/ /\ "end_vote" \in jobs
     /\ ~(min_votes_met /\ session.state = "final_vote" /\ WithStatus("finalist") # {})
     /\ x = [NoWrites EXCEPT !.run = {"end_vote"}]

StartsOver(x) ==
  /\ session.state \in {"download_failed", "cancelled"}
  /\ ServiceCallers
  /\ x = [NoWrites EXCEPT
            !.session = Changed(session, [state |-> "suggestions", winner_movie_id |-> None]),
            !.status = Changed(status, [r \in Present |-> "proposed"]),
            !.reaction_count = Changed(reaction_count, [r \in Present |-> 0]),
            !.final_votes = Changed(final_votes, [r \in Present |-> 0]),
            !.del = votes]

Fetches(x) ==
  /\ session.state \in {"downloading", "download_failed"}
  /\ WithStatus("winner") # {}
  /\ x = [NoWrites EXCEPT !.session = [state |-> "ready"], !.media = WithStatus("winner")]

\* A step of the session's state alone: /cancel_vote, a failed download,
\* /retry_download, /play and /stop.
MovesTo(x, to) ==
  /\ \/ /\ to = "cancelled" /\ session.state \notin {"completed", "cancelled"}
        /\ IsActive \/ ServiceCallers
     \/ /\ to = "download_failed" /\ session.state \in {"downloading", "download_failed"}
        /\ WithStatus("winner") # {}
     \/ to = "downloading" /\ session.state = "download_failed"
     \/ /\ to = "playing" /\ session.state \in {"ready", "playing"}
        /\ WithStatus("winner") \intersect media # {}
     \/ to = "ready" /\ session.state = "playing"
  /\ \/ x = [NoWrites EXCEPT !.session = [state |-> to]]
     \/ x = [NoWrites EXCEPT !.session = Changed(session, [state |-> to])]

Decides(x) ==
  \/ \E t \in Titles : Suggests(x, t)
  \/ \E u \in Users, r \in Rows : AddsReaction(x, u, r)
  \/ \E u \in Users, r \in Rows : RemovesReaction(x, u, r)
  \/ \E n \in TopNChoices : SetsTopN(x, n)
  \/ EndsSuggest(x)
  \/ \E u \in Users, r \in Rows : CastsBallot(x, u, r)
  \/ \E r \in Rows : DecidesFor(x, r)
  \/ RunsInVain(x)
  \/ StartsOver(x)
  \/ Fetches(x)
  \/ \E to \in VS!States : MovesTo(x, to)

\* What is committed, between two transactions.
Sound ==
  /\ IsFiniteSet(votes) /\ IsFiniteSet(Present)
  /\ session.top_n \in Nat
  /\ session.winner_movie_id \in Present \union {None}
  /\ TitlesAreUnique
  /\ \A r \in Rows \ Present : status[r] = "proposed" /\ reaction_count[r] = 0 /\ final_votes[r] = 0

SInv ==
  /\ Sound
  /\ \A w \in Workers : tx[w].open => Decides(tx[w])

\* The data a transaction leaves behind stay sound when it writes about rows
\* that are there, and inserts a title that is not.
Harmless(x) ==
  /\ IsFiniteSet(x.add)
  /\ "top_n" \in DOMAIN x.session => x.session.top_n \in Nat
  /\ "winner_movie_id" \in DOMAIN x.session => x.session.winner_movie_id \in Present \union {None}
  /\ x.insert = {} \/ \E t \in Titles : x.insert = {t} /\ \A r \in Rows : title[r] # t
  /\ DOMAIN x.status \subseteq Present
  /\ DOMAIN x.reaction_count \subseteq Present
  /\ DOMAIN x.final_votes \subseteq Present

\* What is in the rows after a commit.
LEMMA Committed ==
  ASSUME IInv, NEW w \in Workers, commit(w)
  PROVE  /\ DOMAIN session' = {"state", "top_n", "winner_movie_id"}
         /\ \A f \in {"state", "top_n", "winner_movie_id"} :
              session'[f] = IF f \in DOMAIN tx[w].session THEN tx[w].session[f] ELSE session[f]
         /\ \A r \in Rows :
              /\ status'[r] =
                   IF r \in DOMAIN tx[w].status THEN tx[w].status[r] ELSE status[r]
              /\ reaction_count'[r] =
                   IF r \in DOMAIN tx[w].reaction_count THEN tx[w].reaction_count[r]
                   ELSE reaction_count[r]
              /\ final_votes'[r] =
                   IF r \in DOMAIN tx[w].final_votes THEN tx[w].final_votes[r] ELSE final_votes[r]
  BY DEF commit, Written, IInv, TypeOK

\* A column after an UPDATE with the part of an assignment that changes it.
LEMMA ChangedIs ==
  ASSUME NEW c, NEW new
  PROVE  /\ DOMAIN Changed(c, new) \subseteq DOMAIN new
         /\ \A r \in DOMAIN new :
              (IF r \in DOMAIN Changed(c, new) THEN Changed(c, new)[r] ELSE c[r]) = new[r]
  BY DEF Changed

\* Each film of the session is known by its title.
LEMMA Titled ==
  ASSUME IInv, Sound
  PROVE  /\ Suggested \subseteq Titles
         /\ \A r \in Present : title[r] \in Suggested /\ RowOf(title[r]) = r
         /\ \A t \in Suggested : \E r \in Present : title[r] = t
         /\ \A c, d : /\ DOMAIN ByTitle(c, d) = Titles
                      /\ \A r \in Present : ByTitle(c, d)[title[r]] = c[r]
                      /\ \A t \in Titles \ Suggested : ByTitle(c, d)[t] = d
<1>1. Suggested \subseteq Titles /\ \A r \in Present : title[r] \in Suggested
  BY DEF Suggested, Present, IInv, TypeOK
<1>2. \A t \in Suggested : \E r \in Present : title[r] = t
  BY DEF Suggested
<1>3. \A r \in Present : RowOf(title[r]) = r
  BY DEF RowOf, Sound, TitlesAreUnique
<1> QED
  BY <1>1, <1>2, <1>3 DEF ByTitle

\* Between two INSERTs the films stay the same.
LEMMA TitlesStay ==
  ASSUME UNCHANGED title
  PROVE  /\ UNCHANGED <<Present, Suggested>>
         /\ ByTitle(status, "proposed")' = ByTitle(status', "proposed")
         /\ ByTitle(reaction_count, 0)' = ByTitle(reaction_count', 0)
         /\ ByTitle(final_votes, 0)' = ByTitle(final_votes', 0)
         /\ UNCHANGED votes => UNCHANGED <<OfType("fire"), OfType("final")>>
<1>1. UNCHANGED <<Present, Suggested>> /\ \A t : UNCHANGED RowOf(t)
  BY DEF Present, Suggested, RowOf
<1> QED
  BY <1>1 DEF ByTitle, OfType

\* A vote is in votes for the row when VoteSession has it for the title.
LEMMA VoteOf ==
  ASSUME IInv, Sound, NEW u, NEW r \in Present, NEW type
  PROVE  <<u, title[r]>> \in OfType(type) <=> <<u, type, r>> \in votes
<1>1. ASSUME NEW v \in votes, v[2] = type, <<u, title[r]>> = <<v[1], title[v[3]]>>
      PROVE  v = <<u, type, r>>
  <2>1. v = <<v[1], v[2], v[3]>> /\ v[3] \in Present
    BY DEF IInv, TypeOK
  <2> QED
    BY <1>1, <2>1 DEF Sound, TitlesAreUnique
<1>2. ASSUME <<u, type, r>> \in votes PROVE <<u, title[r]>> \in OfType(type)
  <2> DEFINE v == <<u, type, r>>
  <2>1. v[1] = u /\ v[2] = type /\ v[3] = r /\ v \in votes
    BY <1>2
  <2> HIDE DEF v
  <2> QED
    BY <2>1 DEF OfType
<1> QED
  BY <1>1, <1>2 DEF OfType

\* The films with a status, and those with reactions.
LEMMA SelectedTitles ==
  ASSUME IInv, Sound
  PROVE  /\ \A s : VS!WithStatus(s) = {title[r] : r \in WithStatus(s)}
         /\ VS!Reacted = {title[r] : r \in Reacted}
<1>1. ASSUME NEW s PROVE VS!WithStatus(s) = {title[r] : r \in WithStatus(s)}
  BY Titled DEF VS!WithStatus, WithStatus
<1>2. VS!Reacted = {title[r] : r \in Reacted}
  BY Titled DEF VS!Reacted, Reacted
<1> QED
  BY <1>1, <1>2

\* What VoteSession sees unchanged when a transaction writes no row.
LEMMA RowsKept ==
  ASSUME UNCHANGED <<title, media, votes>>, UNCHANGED <<status, reaction_count, final_votes>>,
         UNCHANGED session.winner_movie_id
  PROVE  UNCHANGED VS!rows
  BY DEF VS!rows, ByTitle, OfType, Suggested, RowOf, Present

\* cancel_session, a failed /provide_link, /retry_download, /play, /stop.
LEMMA MovesToDone ==
  ASSUME IInv, Sound, NEW w \in Workers, commit(w), NEW to \in VS!States, MovesTo(tx[w], to)
  PROVE  Harmless(tx[w]) /\ VS!Next
<1> SUFFICES ASSUME NEW x, x = tx[w] PROVE Harmless(x) /\ VS!Next
  OBVIOUS
<1>1. /\ x.status = <<>> /\ x.reaction_count = <<>> /\ x.final_votes = <<>>
      /\ x.media = {} /\ x.insert = {} /\ x.add = {} /\ x.del = {} /\ x.run = {} /\ x.arm = {}
      /\ x.session = [state |-> to] \/ x.session = Changed(session, [state |-> to])
  BY NoWritesParts DEF MovesTo
<1>2. /\ DOMAIN x.session \subseteq {"state"}
      /\ (IF "state" \in DOMAIN x.session THEN x.session.state ELSE session.state) = to
  BY <1>1, ChangedIs
<1>3. Harmless(x)
  BY <1>1, <1>2, FS_EmptySet, NoWritesParts DEF Harmless
<1>4. /\ session'.state = to
      /\ UNCHANGED <<session.top_n, session.winner_movie_id>>
  BY <1>2, Committed
<1>5. /\ UNCHANGED <<title, media, votes, jobs>>
      /\ UNCHANGED <<status, reaction_count, final_votes>>
  BY <1>1, NoWritesParts DEF commit, Written, IInv, TypeOK
<1>6. UNCHANGED VS!rows
  BY <1>4, <1>5, RowsKept
<1>7. VS!WithStatus("winner") = {title[r] : r \in WithStatus("winner")}
  BY SelectedTitles
<1>8. \/ VS!cancel_session \/ VS!cmd_provide_link \/ VS!cmd_retry_download
      \/ VS!cmd_play \/ VS!cmd_stop
  <2>1. CASE to = "cancelled"
    BY <1>4, <1>5, <1>6, <2>1 DEF MovesTo, IsActive, VS!IsActive, VS!cancel_session
  <2>2. CASE to = "download_failed"
    BY <1>4, <1>5, <1>6, <1>7, <2>2 DEF MovesTo, VS!cmd_provide_link, VS!rows
  <2>3. CASE to = "downloading"
    BY <1>4, <1>5, <1>6, <2>3 DEF MovesTo, VS!cmd_retry_download
  <2>4. CASE to = "playing"
    BY <1>4, <1>5, <1>6, <1>7, <2>4 DEF MovesTo, VS!cmd_play
  <2>5. CASE to = "ready"
    BY <1>4, <1>5, <1>6, <2>5 DEF MovesTo, VS!cmd_stop
  <2> QED
    BY <2>1, <2>2, <2>3, <2>4, <2>5 DEF MovesTo
<1> QED
  BY <1>3, <1>8 DEF VS!Next

\* set_top_n.
LEMMA SetsTopNDone ==
  ASSUME IInv, Sound, NEW w \in Workers, commit(w), NEW n \in TopNChoices, SetsTopN(tx[w], n)
  PROVE  Harmless(tx[w]) /\ VS!Next
<1> SUFFICES ASSUME NEW x, x = tx[w] PROVE Harmless(x) /\ VS!Next
  OBVIOUS
<1>1. /\ x.status = <<>> /\ x.reaction_count = <<>> /\ x.final_votes = <<>>
      /\ x.media = {} /\ x.insert = {} /\ x.add = {} /\ x.del = {} /\ x.run = {} /\ x.arm = {}
      /\ x.session = Changed(session, [top_n |-> n])
  BY NoWritesParts DEF SetsTopN
<1>2. /\ DOMAIN x.session \subseteq {"top_n"}
      /\ (IF "top_n" \in DOMAIN x.session THEN x.session.top_n ELSE session.top_n) = n
  BY <1>1, ChangedIs
<1>3. Harmless(x)
  BY <1>1, <1>2, FS_EmptySet, NoWritesParts, TopNIsNat DEF Harmless
<1>4. session'.top_n = n /\ UNCHANGED <<session.state, session.winner_movie_id>>
  BY <1>2, Committed
<1>5. /\ UNCHANGED <<title, media, votes, jobs>>
      /\ UNCHANGED <<status, reaction_count, final_votes>>
  BY <1>1, NoWritesParts DEF commit, Written, IInv, TypeOK
<1>6. VS!set_top_n(n)
  BY <1>4, <1>5, RowsKept DEF SetsTopN, IsActive, VS!IsActive, VS!set_top_n
<1> QED
  BY <1>3, <1>6 DEF VS!Next

\* Cardinality is the same operator in both modules.
LEMMA SameCardinality == \A S : VS!Cardinality(S) = Cardinality(S)
  BY Zenon DEF VS!Cardinality, Cardinality, VS!IsFiniteSet, IsFiniteSet

\* The final ballots are as many here as there.
LEMMA SameQuorum ==
  ASSUME IInv, Sound
  PROVE  VS!min_votes_met <=> min_votes_met
<1>1. Ballots \subseteq votes /\ IsFiniteSet(Ballots)
  BY FS_Subset DEF Ballots, Sound
<1> DEFINE f == [v \in Ballots |-> <<v[1], title[v[3]]>>]
<1>2. f \in Surjection(Ballots, OfType("final"))
  BY DEF Surjection, OfType, Ballots
<1>3. ASSUME NEW v \in Ballots, NEW y \in Ballots, f[v] = f[y] PROVE v = y
  <2>1. /\ v = <<v[1], "final", v[3]>> /\ v[3] \in Present
        /\ y = <<y[1], "final", y[3]>> /\ y[3] \in Present
    BY DEF IInv, TypeOK, Ballots
  <2>2. v[1] = y[1] /\ title[v[3]] = title[y[3]]
    BY <1>3
  <2> QED
    BY <2>1, <2>2 DEF Sound, TitlesAreUnique
<1>4. ExistsBijection(Ballots, OfType("final"))
  BY <1>2, <1>3 DEF ExistsBijection, Bijection, Injection, IsInjective, Surjection
<1>5. Cardinality(OfType("final")) = Cardinality(Ballots)
  BY <1>1, <1>4, FS_Bijection
<1> QED
  BY <1>5, SameCardinality DEF VS!min_votes_met, min_votes_met

\* A job that has nothing to end or decide, or raises.
LEMMA RunsInVainDone ==
  ASSUME IInv, Sound, NEW w \in Workers, commit(w), RunsInVain(tx[w])
  PROVE  Harmless(tx[w]) /\ VS!Next
<1> SUFFICES ASSUME NEW x, x = tx[w] PROVE Harmless(x) /\ VS!Next
  OBVIOUS
<1>1. /\ x.session = <<>> /\ x.status = <<>> /\ x.reaction_count = <<>> /\ x.final_votes = <<>>
      /\ x.media = {} /\ x.insert = {} /\ x.add = {} /\ x.del = {} /\ x.arm = {}
  BY NoWritesParts DEF RunsInVain
<1>2. Harmless(x)
  BY <1>1, FS_EmptySet, NoWritesParts DEF Harmless
<1>3. UNCHANGED <<session.state, session.top_n, session.winner_movie_id>>
  BY <1>1, Committed, NoWritesParts
<1>4. /\ UNCHANGED <<title, media, votes>>
      /\ UNCHANGED <<status, reaction_count, final_votes>>
  BY <1>1, NoWritesParts DEF commit, Written, IInv, TypeOK
<1>5. UNCHANGED VS!rows
  BY <1>3, <1>4, RowsKept
<1>6. CASE "end_suggest" \in jobs /\ session.state # "suggestions" /\ x.run = {"end_suggest"}
  <2>1. jobs' = jobs \ {"end_suggest"}
    BY <1>1, <1>6 DEF commit
  <2> QED
    BY <1>2, <1>3, <1>5, <1>6, <2>1 DEF VS!Next, VS!end_suggest_job
<1>7. CASE /\ "end_vote" \in jobs /\ x.run = {"end_vote"}
           /\ ~(min_votes_met /\ session.state = "final_vote" /\ WithStatus("finalist") # {})
  <2>1. jobs' = jobs \ {"end_vote"}
    BY <1>1, <1>7 DEF commit
  <2>2. VS!WithStatus("finalist") = {title[r] : r \in WithStatus("finalist")}
    BY SelectedTitles
  <2>3. ~VS!can_transition(session.state, "cancelled")
    BY DEF VS!can_transition, VS!VALID_TRANSITIONS
  <2>4. VS!QuorumMissed \/ VS!NothingToDecide
    BY <1>3, <1>5, <1>7, <2>2, <2>3, SameQuorum DEF VS!QuorumMissed, VS!NothingToDecide
  <2>5. VS!end_final_vote_job
    BY <1>7, <2>1, <2>4 DEF VS!end_final_vote_job
  <2> QED
    BY <1>2, <2>5 DEF VS!Next
<1> QED
  BY <1>6, <1>7, NoWritesParts DEF RunsInVain

\* /provide_link, after the download.
LEMMA FetchesDone ==
  ASSUME IInv, Sound, NEW w \in Workers, commit(w), Fetches(tx[w])
  PROVE  Harmless(tx[w]) /\ VS!Next
<1> SUFFICES ASSUME NEW x, x = tx[w] PROVE Harmless(x) /\ VS!Next
  OBVIOUS
<1>1. /\ x.status = <<>> /\ x.reaction_count = <<>> /\ x.final_votes = <<>>
      /\ x.insert = {} /\ x.add = {} /\ x.del = {} /\ x.run = {} /\ x.arm = {}
      /\ x.session = [state |-> "ready"] /\ x.media = WithStatus("winner")
  BY NoWritesParts DEF Fetches
<1>2. Harmless(x)
  BY <1>1, FS_EmptySet, NoWritesParts DEF Harmless
<1>3. session'.state = "ready" /\ UNCHANGED <<session.top_n, session.winner_movie_id>>
  BY <1>1, Committed
<1>4. /\ UNCHANGED <<title, votes, jobs>> /\ media' = media \union WithStatus("winner")
      /\ UNCHANGED <<status, reaction_count, final_votes>>
  BY <1>1, NoWritesParts DEF commit, Written, IInv, TypeOK
<1>5. VS!WithStatus("winner") = {title[r] : r \in WithStatus("winner")}
  BY SelectedTitles
<1>6. {title[r] : r \in media}' = {title[r] : r \in media} \union VS!WithStatus("winner")
  BY <1>4, <1>5
<1>7. VS!WithStatus("winner") # {}
  BY <1>5 DEF Fetches
<1>8. VS!cmd_provide_link
  BY <1>3, <1>4, <1>6, <1>7, TitlesStay DEF Fetches, VS!cmd_provide_link, ByTitle
<1> QED
  BY <1>2, <1>8 DEF VS!Next

With(f, x, v) == [f EXCEPT ![x] = v]

\* An UPDATE of one row is one of one title.
LEMMA ColumnAt ==
  ASSUME IInv, Sound, NEW r \in Present, NEW c, DOMAIN c = Rows, NEW d, NEW v
  PROVE  ByTitle(With(c, r, v), d) = With(ByTitle(c, d), title[r], v)
<1> DEFINE e == [c EXCEPT ![r] = v]
           q == ByTitle(c, d)
           a == [t \in Titles |-> IF t \in Suggested THEN e[RowOf(t)] ELSE d]
           b == [q EXCEPT ![title[r]] = v]
<1>1. q = [t \in Titles |-> IF t \in Suggested THEN c[RowOf(t)] ELSE d]
  BY DEF ByTitle
<1>2. ASSUME NEW t \in Titles PROVE a[t] = IF t = title[r] THEN v ELSE q[t]
  <2>1. CASE t \notin Suggested
    BY <1>1, <2>1, Titled
  <2>2. ASSUME NEW s \in Present, title[s] = t, RowOf(t) = s, t \in Suggested
        PROVE  a[t] = IF t = title[r] THEN v ELSE q[t]
    <3>1. a[t] = e[s] /\ q[t] = c[s]
      BY <1>1, <2>2
    <3>2. s = r <=> t = title[r]
      BY <2>2 DEF Sound, TitlesAreUnique
    <3>3. e[s] = IF s = r THEN v ELSE c[s]
      BY DEF Present
    <3> QED
      BY <3>1, <3>2, <3>3
  <2> HIDE DEF a, q
  <2> QED
    BY <2>1, <2>2, Titled
<1>3. b = [t \in Titles |-> IF t = title[r] THEN v ELSE q[t]]
  <2>1. DOMAIN q = Titles /\ q = [t \in Titles |-> q[t]]
    BY <1>1
  <2> HIDE DEF q
  <2> QED
    BY <2>1
<1>4. a = b
  <2>1. a = [t \in Titles |-> IF t = title[r] THEN v ELSE q[t]]
    BY <1>2
  <2> HIDE DEF a, b, q
  <2> QED
    BY <1>3, <2>1
<1> QED
  BY <1>4 DEF ByTitle, With

\* A member's vote for a film is one row.
LEMMA VoteIsOne ==
  ASSUME IInv, Sound, NEW r \in Present, NEW v \in votes, title[v[3]] = title[r]
  PROVE  v = <<v[1], v[2], r>>
<1>1. v = <<v[1], v[2], v[3]>> /\ v[3] \in Present
  BY DEF IInv, TypeOK
<1> QED
  BY <1>1 DEF Sound, TitlesAreUnique

\* A reaction to a film of the session.
LEMMA FireGiven ==
  ASSUME IInv, Sound, UNCHANGED title, NEW u, NEW r \in Present,
         votes' = votes \union {<<u, "fire", r>>}
  PROVE  /\ OfType("fire")' = OfType("fire") \union {<<u, title[r]>>}
         /\ OfType("final")' = OfType("final")
<1> DEFINE x == <<u, "fire", r>>
<1>1. x[1] = u /\ x[2] = "fire" /\ x[3] = r
  OBVIOUS
<1>2. votes' = votes \union {x}
  OBVIOUS
<1> HIDE DEF x
<1> QED
  BY <1>1, <1>2 DEF OfType

\* A reaction taken back.
LEMMA FireTaken ==
  ASSUME IInv, Sound, UNCHANGED title, NEW u, NEW r \in Present,
         votes' = votes \ {<<u, "fire", r>>}
  PROVE  /\ OfType("fire")' = OfType("fire") \ {<<u, title[r]>>}
         /\ OfType("final")' = OfType("final")
<1> DEFINE x == <<u, "fire", r>>
<1>1. x[1] = u /\ x[2] = "fire" /\ x[3] = r
  OBVIOUS
<1>2. votes' = votes \ {x}
  OBVIOUS
<1>3. ASSUME NEW v \in votes, v[2] = "fire", <<v[1], title[v[3]]>> = <<u, title[r]>>
      PROVE  v = x
  BY <1>3, VoteIsOne
<1> HIDE DEF x
<1> QED
  BY <1>1, <1>2, <1>3 DEF OfType

\* A ballot.
LEMMA FinalGiven ==
  ASSUME IInv, Sound, UNCHANGED title, NEW u, NEW r \in Present,
         votes' = votes \union {<<u, "final", r>>}
  PROVE  /\ OfType("final")' = OfType("final") \union {<<u, title[r]>>}
         /\ OfType("fire")' = OfType("fire")
<1> DEFINE x == <<u, "final", r>>
<1>1. x[1] = u /\ x[2] = "final" /\ x[3] = r
  OBVIOUS
<1>2. votes' = votes \union {x}
  OBVIOUS
<1> HIDE DEF x
<1> QED
  BY <1>1, <1>2 DEF OfType

\* add_fire_reaction.
LEMMA AddsReactionDone ==
  ASSUME IInv, Sound, NEW w \in Workers, commit(w), NEW u \in Users, NEW r \in Rows,
         AddsReaction(tx[w], u, r)
  PROVE  Harmless(tx[w]) /\ VS!Next
<1> SUFFICES ASSUME NEW x, x = tx[w] PROVE Harmless(x) /\ VS!Next
  OBVIOUS
<1>1. /\ x.session = <<>> /\ x.final_votes = <<>>
      /\ x.media = {} /\ x.insert = {} /\ x.del = {} /\ x.run = {} /\ x.arm = {}
      /\ x.add = {<<u, "fire", r>>} /\ x.reaction_count = At(r, reaction_count[r] + 1)
      /\ x.status = Changed(status, At(r, "filtered_in"))
      /\ r \in Present
  BY NoWritesParts DEF AddsReaction
<1>2. /\ DOMAIN x.status \subseteq {r}
      /\ (IF r \in DOMAIN x.status THEN x.status[r] ELSE status[r]) = "filtered_in"
      /\ DOMAIN x.reaction_count = {r} /\ x.reaction_count[r] = reaction_count[r] + 1
  BY <1>1, ChangedIs DEF At
<1>3. Harmless(x)
  <2>1. IsFiniteSet(x.add)
    BY <1>1, FS_Singleton
  <2> QED
    BY <1>1, <1>2, <2>1, NoWritesParts DEF Harmless
<1>4. /\ UNCHANGED <<session.state, session.top_n, session.winner_movie_id>>
      /\ UNCHANGED <<title, media, jobs, final_votes>> /\ votes' = votes \union {<<u, "fire", r>>}
  BY <1>1, Committed, NoWritesParts DEF commit, Written, IInv, TypeOK
<1>5. /\ status' = With(status, r, "filtered_in") /\ DOMAIN status = Rows
      /\ reaction_count' = With(reaction_count, r, reaction_count[r] + 1)
      /\ DOMAIN reaction_count = Rows
  <2>1. /\ status' = [status EXCEPT ![r] = "filtered_in"]
        /\ reaction_count' = [reaction_count EXCEPT ![r] = reaction_count[r] + 1]
        /\ DOMAIN status = Rows /\ DOMAIN reaction_count = Rows
    BY <1>2 DEF commit, Written, IInv, TypeOK
  <2> QED
    BY <2>1 DEF With
<1>6. ByTitle(status, "proposed")' = With(ByTitle(status, "proposed"), title[r], "filtered_in")
  BY <1>1, <1>4, <1>5, ColumnAt, TitlesStay
<1>7. /\ ByTitle(reaction_count, 0)'
           = With(ByTitle(reaction_count, 0), title[r], reaction_count[r] + 1)
      /\ ByTitle(reaction_count, 0)[title[r]] = reaction_count[r]
  BY <1>1, <1>4, <1>5, ColumnAt, TitlesStay, Titled
<1>8. ByTitle(final_votes, 0)' = ByTitle(final_votes, 0)
  BY <1>4, TitlesStay
<1>9. /\ OfType("fire")' = OfType("fire") \union {<<u, title[r]>>}
      /\ OfType("final")' = OfType("final")
      /\ <<u, title[r]>> \notin OfType("fire")
  BY <1>1, <1>4, FireGiven, VoteOf DEF AddsReaction
<1>10. Suggested' = Suggested /\ title[r] \in Suggested /\ title[r] \in Titles
  BY <1>1, <1>4, TitlesStay, Titled
<1>11. VS!add_fire_reaction(u, title[r])
  BY <1>4, <1>6, <1>7, <1>8, <1>9, <1>10 DEF AddsReaction, VS!add_fire_reaction, With
<1> QED
  BY <1>3, <1>10, <1>11 DEF VS!Next

\* remove_fire_reaction.
LEMMA RemovesReactionDone ==
  ASSUME IInv, Sound, NEW w \in Workers, commit(w), NEW u \in Users, NEW r \in Rows,
         RemovesReaction(tx[w], u, r)
  PROVE  Harmless(tx[w]) /\ VS!Next
<1> DEFINE less == IF reaction_count[r] > 0 THEN reaction_count[r] - 1 ELSE 0
<1> SUFFICES ASSUME NEW x, x = tx[w] PROVE Harmless(x) /\ VS!Next
  OBVIOUS
<1>1. /\ x.session = <<>> /\ x.final_votes = <<>> /\ x.status = <<>>
      /\ x.media = {} /\ x.insert = {} /\ x.add = {} /\ x.run = {} /\ x.arm = {}
      /\ x.del = {<<u, "fire", r>>}
      /\ x.reaction_count = Changed(reaction_count, At(r, less))
      /\ r \in Present
  <2>1. r \in Present
    BY DEF RemovesReaction, IInv, TypeOK
  <2> QED
    BY <2>1, NoWritesParts DEF RemovesReaction
<1>2. /\ DOMAIN x.reaction_count \subseteq {r}
      /\ (IF r \in DOMAIN x.reaction_count THEN x.reaction_count[r] ELSE reaction_count[r]) = less
  <2> HIDE DEF less
  <2> QED
    BY <1>1, ChangedIs DEF At
<1>3. Harmless(x)
  BY <1>1, <1>2, FS_EmptySet, NoWritesParts DEF Harmless
<1>4. /\ UNCHANGED <<session.state, session.top_n, session.winner_movie_id>>
      /\ UNCHANGED <<title, media, jobs, status, final_votes>>
      /\ votes' = votes \ {<<u, "fire", r>>}
  BY <1>1, Committed, NoWritesParts DEF commit, Written, IInv, TypeOK
<1>5. reaction_count' = With(reaction_count, r, less) /\ DOMAIN reaction_count = Rows
  <2> HIDE DEF less
  <2>1. /\ reaction_count' = [s \in Rows |-> IF s = r THEN less ELSE reaction_count[s]]
        /\ DOMAIN reaction_count = Rows
    BY <1>2 DEF commit, Written, IInv, TypeOK
  <2> QED
    BY <2>1 DEF With
<1>6. ByTitle(reaction_count, 0)' = [ByTitle(reaction_count, 0) EXCEPT ![title[r]] = VS!Max0(@ - 1)]
  <2>1. less = VS!Max0(ByTitle(reaction_count, 0)[title[r]] - 1)
    <3>1. ByTitle(reaction_count, 0)[title[r]] = reaction_count[r] /\ reaction_count[r] \in Nat
      BY <1>1, Titled DEF IInv, TypeOK
    <3> QED
      BY <3>1 DEF VS!Max0
  <2> HIDE DEF less
  <2>2. ByTitle(reaction_count, 0)' = With(ByTitle(reaction_count, 0), title[r], less)
    BY <1>1, <1>4, <1>5, ColumnAt, TitlesStay
  <2> QED
    BY <2>1, <2>2 DEF With
<1>7. /\ ByTitle(final_votes, 0)' = ByTitle(final_votes, 0)
      /\ ByTitle(status, "proposed")' = ByTitle(status, "proposed")
  BY <1>4, TitlesStay
<1>8. /\ OfType("fire")' = OfType("fire") \ {<<u, title[r]>>}
      /\ OfType("final")' = OfType("final")
      /\ <<u, title[r]>> \in OfType("fire")
  BY <1>1, <1>4, FireTaken, VoteOf DEF RemovesReaction
<1>9. Suggested' = Suggested /\ title[r] \in Suggested /\ title[r] \in Titles
  BY <1>1, <1>4, TitlesStay, Titled
<1>10. VS!remove_fire_reaction(u, title[r])
  BY <1>4, <1>6, <1>7, <1>8, <1>9 DEF RemovesReaction, VS!remove_fire_reaction
<1> QED
  BY <1>3, <1>9, <1>10 DEF VS!Next

\* cast_final_vote.
LEMMA CastsBallotDone ==
  ASSUME IInv, Sound, NEW w \in Workers, commit(w), NEW u \in Users, NEW r \in Rows,
         CastsBallot(tx[w], u, r)
  PROVE  Harmless(tx[w]) /\ VS!Next
<1> SUFFICES ASSUME NEW x, x = tx[w] PROVE Harmless(x) /\ VS!Next
  OBVIOUS
<1>1. /\ x.session = <<>> /\ x.reaction_count = <<>> /\ x.status = <<>>
      /\ x.media = {} /\ x.insert = {} /\ x.del = {} /\ x.run = {} /\ x.arm = {}
      /\ x.add = {<<u, "final", r>>} /\ x.final_votes = At(r, final_votes[r] + 1)
      /\ r \in Present
  BY NoWritesParts DEF CastsBallot, WithStatus
<1>2. DOMAIN x.final_votes = {r} /\ x.final_votes[r] = final_votes[r] + 1
  BY <1>1 DEF At
<1>3. Harmless(x)
  <2>1. IsFiniteSet(x.add)
    BY <1>1, FS_Singleton
  <2> QED
    BY <1>1, <1>2, <2>1, NoWritesParts DEF Harmless
<1>4. /\ UNCHANGED <<session.state, session.top_n, session.winner_movie_id>>
      /\ UNCHANGED <<title, media, jobs, status, reaction_count>>
      /\ votes' = votes \union {<<u, "final", r>>}
  BY <1>1, Committed, NoWritesParts DEF commit, Written, IInv, TypeOK
<1>5. final_votes' = With(final_votes, r, final_votes[r] + 1) /\ DOMAIN final_votes = Rows
  <2>1. final_votes' = [final_votes EXCEPT ![r] = final_votes[r] + 1] /\ DOMAIN final_votes = Rows
    BY <1>2 DEF commit, Written, IInv, TypeOK
  <2> QED
    BY <2>1 DEF With
<1>6. /\ ByTitle(final_votes, 0)' = With(ByTitle(final_votes, 0), title[r], final_votes[r] + 1)
      /\ ByTitle(final_votes, 0)[title[r]] = final_votes[r]
  BY <1>1, <1>4, <1>5, ColumnAt, TitlesStay, Titled
<1>7. /\ ByTitle(reaction_count, 0)' = ByTitle(reaction_count, 0)
      /\ ByTitle(status, "proposed")' = ByTitle(status, "proposed")
  BY <1>4, TitlesStay
<1>8. /\ OfType("final")' = OfType("final") \union {<<u, title[r]>>}
      /\ OfType("fire")' = OfType("fire")
  BY <1>1, <1>4, FinalGiven
<1>9. \A t \in Titles : <<u, t>> \notin OfType("final")
  BY DEF CastsBallot, Ballots, OfType
<1>10. Suggested' = Suggested /\ title[r] \in Titles
  BY <1>1, <1>4, TitlesStay, Titled
<1>11. title[r] \in VS!WithStatus("finalist")
  BY SelectedTitles DEF CastsBallot
<1>12. VS!cast_final_vote(u, title[r])
  BY <1>4, <1>6, <1>7, <1>8, <1>9, <1>10, <1>11 DEF CastsBallot, VS!cast_final_vote, With
<1> QED
  BY <1>3, <1>10, <1>12 DEF VS!Next

\* end_final_vote_job, when it decides.
LEMMA DecidesForDone ==
  ASSUME IInv, Sound, NEW w \in Workers, commit(w), NEW r \in Rows, DecidesFor(tx[w], r)
  PROVE  Harmless(tx[w]) /\ VS!Next
<1> SUFFICES ASSUME NEW x, x = tx[w] PROVE Harmless(x) /\ VS!Next
  OBVIOUS
<1>1. /\ x.session = [state |-> "downloading", winner_movie_id |-> r]
      /\ x.reaction_count = <<>> /\ x.final_votes = <<>> /\ x.status = At(r, "winner")
      /\ x.media = {} /\ x.insert = {} /\ x.add = {} /\ x.del = {} /\ x.arm = {}
      /\ x.run = {"end_vote"}
      /\ r \in Present
  BY NoWritesParts DEF DecidesFor, WithStatus
<1>2. DOMAIN x.status = {r} /\ x.status[r] = "winner"
  BY <1>1 DEF At
<1>3. Harmless(x)
  BY <1>1, <1>2, FS_EmptySet, NoWritesParts DEF Harmless
<1>4. /\ session'.state = "downloading" /\ session'.winner_movie_id = r /\ r # None
      /\ UNCHANGED <<session.top_n, title, media, votes, reaction_count, final_votes>>
      /\ jobs' = jobs \ {"end_vote"}
  BY <1>1, Committed, NoWritesParts, NoneIsNoRow DEF commit, Written, IInv, TypeOK
<1>5. status' = With(status, r, "winner") /\ DOMAIN status = Rows
  <2>1. status' = [status EXCEPT ![r] = "winner"] /\ DOMAIN status = Rows
    BY <1>2 DEF commit, Written, IInv, TypeOK
  <2> QED
    BY <2>1 DEF With
<1>6. ByTitle(status, "proposed")' = With(ByTitle(status, "proposed"), title[r], "winner")
  BY <1>1, <1>4, <1>5, ColumnAt, TitlesStay
<1>7. title[r] \in VS!WithStatus("finalist") /\ title[r] \in Titles
  BY <1>1, SelectedTitles, Titled DEF DecidesFor
<1>8. ASSUME NEW t \in VS!WithStatus("finalist")
      PROVE  ByTitle(final_votes, 0)[t] <= ByTitle(final_votes, 0)[title[r]]
  <2>1. PICK s \in WithStatus("finalist") : t = title[s]
    BY SelectedTitles
  <2>2. s \in Present /\ final_votes[s] <= final_votes[r]
    BY DEF DecidesFor, WithStatus
  <2> QED
    BY <1>1, <2>1, <2>2, Titled
<1>9. VS!select_winner(title[r])
  BY <1>4, <1>6, <1>7, <1>8, TitlesStay DEF DecidesFor, VS!select_winner, With
<1>10. VS!end_final_vote_job
  BY <1>4, <1>7, <1>9, SameQuorum DEF DecidesFor, VS!end_final_vote_job, VS!FinalVoteDecided
<1> QED
  BY <1>3, <1>10 DEF VS!Next

\* retry_vote.
LEMMA StartsOverDone ==
  ASSUME IInv, Sound, NEW w \in Workers, commit(w), StartsOver(tx[w])
  PROVE  Harmless(tx[w]) /\ VS!Next
<1> DEFINE row == [state |-> "suggestions", winner_movie_id |-> None]
<1> SUFFICES ASSUME NEW x, x = tx[w] PROVE Harmless(x) /\ VS!Next
  OBVIOUS
<1>1. /\ x.session = Changed(session, row)
      /\ x.status = Changed(status, [r \in Present |-> "proposed"])
      /\ x.reaction_count = Changed(reaction_count, [r \in Present |-> 0])
      /\ x.final_votes = Changed(final_votes, [r \in Present |-> 0])
      /\ x.media = {} /\ x.insert = {} /\ x.add = {} /\ x.run = {} /\ x.arm = {}
      /\ x.del = votes
  BY NoWritesParts DEF StartsOver
<1>2. /\ DOMAIN x.session \subseteq {"state", "winner_movie_id"}
      /\ (IF "state" \in DOMAIN x.session THEN x.session.state ELSE session.state) = "suggestions"
      /\ (IF "winner_movie_id" \in DOMAIN x.session THEN x.session.winner_movie_id
          ELSE session.winner_movie_id) = None
  <2>1. DOMAIN row = {"state", "winner_movie_id"} /\ row.state = "suggestions"
        /\ row.winner_movie_id = None
    OBVIOUS
  <2> HIDE DEF row
  <2> QED
    BY <1>1, <2>1, ChangedIs
<1>3. /\ DOMAIN x.status \subseteq Present /\ DOMAIN x.reaction_count \subseteq Present
      /\ DOMAIN x.final_votes \subseteq Present
      /\ \A r \in Present :
           /\ (IF r \in DOMAIN x.status THEN x.status[r] ELSE status[r]) = "proposed"
           /\ (IF r \in DOMAIN x.reaction_count THEN x.reaction_count[r]
               ELSE reaction_count[r]) = 0
           /\ (IF r \in DOMAIN x.final_votes THEN x.final_votes[r] ELSE final_votes[r]) = 0
  BY <1>1 DEF Changed
<1>4. Harmless(x)
  BY <1>1, <1>2, <1>3, FS_EmptySet DEF Harmless
<1>5. /\ session'.state = "suggestions" /\ session'.winner_movie_id = None
      /\ UNCHANGED <<session.top_n, title, media, jobs>> /\ votes' = {}
  BY <1>1, <1>2, Committed DEF commit
<1>6. \A r \in Present : status'[r] = "proposed" /\ reaction_count'[r] = 0 /\ final_votes'[r] = 0
  BY <1>3, Committed DEF Present
<1>7. /\ ByTitle(status, "proposed")' = [t \in Titles |-> "proposed"]
      /\ ByTitle(reaction_count, 0)' = [t \in Titles |-> 0]
      /\ ByTitle(final_votes, 0)' = [t \in Titles |-> 0]
  <2>1. \A t \in Suggested : RowOf(t) \in Present
    BY Titled
  <2> QED
    BY <1>5, <1>6, <2>1, TitlesStay DEF ByTitle
<1>8. OfType("fire")' = {} /\ OfType("final")' = {}
  BY <1>5 DEF OfType
<1>9. VS!cmd_retry_vote
  BY <1>5, <1>7, <1>8, TitlesStay DEF StartsOver, VS!cmd_retry_vote, VS!retry_vote
<1> QED
  BY <1>4, <1>9 DEF VS!Next

\* suggest_movie.
LEMMA SuggestsDone ==
  ASSUME IInv, Sound, NEW w \in Workers, commit(w), NEW t \in Titles, Suggests(tx[w], t)
  PROVE  Harmless(tx[w]) /\ VS!Next
<1> SUFFICES ASSUME NEW x, x = tx[w] PROVE Harmless(x) /\ VS!Next
  OBVIOUS
<1>1. /\ x.session = <<>> /\ x.status = <<>> /\ x.reaction_count = <<>> /\ x.final_votes = <<>>
      /\ x.media = {} /\ x.add = {} /\ x.del = {} /\ x.run = {} /\ x.arm = {}
      /\ x.insert = {t}
  BY NoWritesParts DEF Suggests
<1>2. Harmless(x)
  BY <1>1, FS_EmptySet, NoWritesParts DEF Harmless, Suggests
<1>3. /\ UNCHANGED <<session.state, session.top_n, session.winner_movie_id>>
      /\ UNCHANGED <<media, votes, jobs, status, reaction_count, final_votes>>
  BY <1>1, Committed, NoWritesParts DEF commit, Written, IInv, TypeOK
<1>4. PICK r \in Rows \ Present : title' = [title EXCEPT ![r] = t]
  BY <1>1 DEF commit
<1>5. /\ \A s \in Rows : title'[s] = IF s = r THEN t ELSE title[s]
      /\ Present' = Present \union {r} /\ Suggested' = Suggested \union {t}
      /\ t \notin Suggested
  <2>1. \A s \in Rows : title'[s] = IF s = r THEN t ELSE title[s]
    BY <1>4 DEF IInv, TypeOK
  <2>2. Present' = Present \union {r}
    BY <1>4, <2>1, NoneIsNoTitle DEF Present
  <2>3. Suggested' = Suggested \union {t}
    BY <1>4, <2>1, <2>2 DEF Suggested, Present
  <2> QED
    BY <2>1, <2>2, <2>3 DEF Suggested, Suggests, Present
<1>6. /\ RowOf(t)' = r
      /\ \A q \in Suggested : RowOf(q)' = RowOf(q)
  <2>1. \A s \in Present' : title'[s] = t => s = r
    BY <1>5 DEF Suggested, Present
  <2>2. RowOf(t)' = r
    BY <1>5, <2>1 DEF RowOf
  <2>3. ASSUME NEW q \in Suggested PROVE RowOf(q)' = RowOf(q)
    <3>1. PICK s \in Present : title[s] = q /\ RowOf(q) = s
      BY Titled
    <3>2. s \in Present' /\ title'[s] = q
      BY <1>4, <1>5, <3>1 DEF Present
    <3>3. \A y \in Present' : title'[y] = q => y = s
      BY <1>4, <1>5, <3>1 DEF Sound, TitlesAreUnique, Present
    <3>4. RowOf(q)' = s
      BY <3>2, <3>3 DEF RowOf
    <3> QED
      BY <3>1, <3>4
  <2> QED
    BY <2>2, <2>3
<1>7. status[r] = "proposed" /\ reaction_count[r] = 0 /\ final_votes[r] = 0
  BY <1>4 DEF Sound
<1>8. /\ ByTitle(status, "proposed")' = With(ByTitle(status, "proposed"), t, "proposed")
      /\ ByTitle(reaction_count, 0)' = With(ByTitle(reaction_count, 0), t, 0)
      /\ ByTitle(final_votes, 0)' = ByTitle(final_votes, 0)
  BY <1>3, <1>5, <1>6, <1>7 DEF ByTitle, With
<1>9. UNCHANGED <<OfType("fire"), OfType("final")>>
  <2>1. \A v \in votes : v[3] \in Present /\ title'[v[3]] = title[v[3]]
    BY <1>4, <1>5 DEF IInv, TypeOK, Present
  <2> QED
    BY <1>3, <2>1 DEF OfType
<1>10. UNCHANGED {title[s] : s \in media}
  <2>1. \A s \in media : title'[s] = title[s]
    BY <1>4, <1>5 DEF IInv, TypeOK, Present
  <2> QED
    BY <1>3, <2>1
<1>11. session.winner_movie_id # None => UNCHANGED title[session.winner_movie_id]
  BY <1>3, <1>4, <1>5 DEF Sound, Present
<1>12. VS!suggest_movie(t)
  BY <1>3, <1>5, <1>8, <1>9, <1>10, <1>11 DEF Suggests, VS!suggest_movie, With
<1> QED
  BY <1>2, <1>12 DEF VS!Next

\* Films are as many as their titles.
LEMMA TitlesCount ==
  ASSUME IInv, Sound, NEW R \in SUBSET Present
  PROVE  LET T == {title[r] : r \in R}
         IN  /\ IsFiniteSet(R) /\ IsFiniteSet(T)
             /\ Cardinality(T) = Cardinality(R) /\ Cardinality(R) \in Nat
<1> DEFINE T == {title[r] : r \in R}
           f == [r \in R |-> title[r]]
<1>1. IsFiniteSet(R)
  BY FS_Subset DEF Sound
<1>2. f \in Surjection(R, T)
  BY DEF Surjection
<1>3. \A r, s \in R : f[r] = f[s] => r = s
  BY DEF Sound, TitlesAreUnique
<1>4. ExistsBijection(R, T)
  BY <1>2, <1>3 DEF ExistsBijection, Bijection, Injection, IsInjective, Surjection
<1> QED
  BY <1>1, <1>4, FS_Bijection, FS_CardinalityType

\* The finalists are those that some order of the films with reactions puts
\* on the first top_n places.
LEMMA FilterOrder ==
  ASSUME IInv, Sound, NEW F \in TopN
  PROVE  \E order \in VS!ReactionOrders :
           \A r \in Reacted :
             r \in F <=> \E i \in DOMAIN order : i <= session.top_n /\ order[i] = title[r]
<1> DEFINE S == VS!Reacted
           K == {title[r] : r \in F}
           c == ByTitle(reaction_count, 0)
           n == Cardinality(S)
<1>1. F \subseteq Reacted /\ Reacted \subseteq Present
  BY DEF TopN, Reacted
<1>2. /\ S = {title[r] : r \in Reacted} /\ K \subseteq S
      /\ \A r \in Present : c[title[r]] = reaction_count[r]
  BY <1>1, SelectedTitles, Titled
<1>3. /\ IsFiniteSet(S) /\ n = Cardinality(Reacted) /\ n \in Nat
      /\ Cardinality(K) = Cardinality(F)
  <2> HIDE DEF S, K
  <2>1. S = {title[r] : r \in Reacted} /\ K = {title[r] : r \in F} /\ F \in SUBSET Present
    BY <1>1, <1>2 DEF K
  <2> QED
    BY <1>1, <2>1, TitlesCount
<1>4. \A m \in S : c[m] \in Nat
  BY <1>1, <1>2 DEF IInv, TypeOK, Present
<1>5. \A m \in K, q \in S \ K : c[m] >= c[q]
  <2> SUFFICES ASSUME NEW m \in K, NEW q \in S \ K PROVE c[m] >= c[q]
    OBVIOUS
  <2>1. PICK r \in F : m = title[r]
    OBVIOUS
  <2>2. PICK s \in Reacted : q = title[s]
    BY <1>2
  <2>3. s \notin F
    BY <2>2
  <2>4. reaction_count[r] >= reaction_count[s]
    BY <2>2, <2>3 DEF TopN
  <2> HIDE DEF c
  <2> QED
    BY <1>1, <1>2, <2>1, <2>2, <2>4
<1>6. PICK o : /\ Descends(o, S, c)
               /\ \A m \in S : m \in K <=> \E i \in 1..n : i <= Cardinality(K) /\ o[i] = m
  <2> HIDE DEF S, K, c
  <2>1. K \in SUBSET S
    BY <1>2
  <2> QED
    BY <1>3, <1>4, <1>5, <2>1, OrderBegins
<1>7. \A i \in 1..n : i <= Cardinality(K) <=> i <= session.top_n
  BY <1>3 DEF TopN, Sound
<1>8. o \in VS!ReactionOrders /\ DOMAIN o = 1..n
  BY <1>6, SameCardinality DEF Descends, VS!ReactionOrders
<1>9. \A r \in Reacted : title[r] \in K <=> r \in F
  BY <1>1 DEF Sound, TitlesAreUnique
<1> QED
  <2> HIDE DEF S, K, c
  <2>1. \A r \in Reacted : title[r] \in S
    BY <1>2
  <2>2. \A r \in Reacted : r \in F <=> \E i \in DOMAIN o : i <= session.top_n /\ o[i] = title[r]
    BY <1>6, <1>7, <1>8, <1>9, <2>1
  <2> QED
    BY <1>8, <2>2

\* cmd_end_suggest and end_suggest_job.
LEMMA EndsSuggestDone ==
  ASSUME IInv, Sound, NEW w \in Workers, commit(w), EndsSuggest(tx[w])
  PROVE  Harmless(tx[w]) /\ VS!Next
<1> SUFFICES ASSUME NEW x, x = tx[w] PROVE Harmless(x) /\ VS!Next
  OBVIOUS
<1>1. PICK F \in TopN :
        \/ x = [EndSuggestWrites(F) EXCEPT !.arm = IF Reacted # {} THEN {"end_vote"} ELSE {}]
        \/ "end_suggest" \in jobs /\ x = [EndSuggestWrites(F) EXCEPT !.run = {"end_suggest"}]
  BY DEF EndsSuggest
<1> DEFINE new == [r \in Reacted |-> IF r \in F THEN "finalist" ELSE "filtered_out"]
<1>2. /\ x.session = [state |-> "final_vote"] /\ x.status = Changed(status, new)
      /\ x.reaction_count = <<>> /\ x.final_votes = <<>>
      /\ x.media = {} /\ x.insert = {} /\ x.add = {} /\ x.del = {}
      /\ \/ x.run = {} /\ x.arm = IF Reacted # {} THEN {"end_vote"} ELSE {}
         \/ "end_suggest" \in jobs /\ x.run = {"end_suggest"} /\ x.arm = {}
  <2>1. ASSUME NEW y, y = EndSuggestWrites(F)
        PROVE  /\ DOMAIN y = DOMAIN NoWrites
               /\ y.session = [state |-> "final_vote"] /\ y.status = Changed(status, new)
               /\ y.reaction_count = <<>> /\ y.final_votes = <<>>
               /\ y.media = {} /\ y.insert = {} /\ y.add = {} /\ y.del = {}
               /\ y.run = {} /\ y.arm = {}
    BY <2>1, NoWritesParts DEF EndSuggestWrites
  <2> HIDE DEF new
  <2> SUFFICES ASSUME NEW y, y = EndSuggestWrites(F),
                      \/ x = [y EXCEPT !.arm = IF Reacted # {} THEN {"end_vote"} ELSE {}]
                      \/ "end_suggest" \in jobs /\ x = [y EXCEPT !.run = {"end_suggest"}]
               PROVE  /\ x.session = [state |-> "final_vote"] /\ x.status = Changed(status, new)
                      /\ x.reaction_count = <<>> /\ x.final_votes = <<>>
                      /\ x.media = {} /\ x.insert = {} /\ x.add = {} /\ x.del = {}
                      /\ \/ x.run = {} /\ x.arm = IF Reacted # {} THEN {"end_vote"} ELSE {}
                         \/ "end_suggest" \in jobs /\ x.run = {"end_suggest"} /\ x.arm = {}
    BY <1>1
  <2>2. CASE x = [y EXCEPT !.arm = IF Reacted # {} THEN {"end_vote"} ELSE {}]
    BY <2>1, <2>2, NoWritesParts
  <2>3. CASE "end_suggest" \in jobs /\ x = [y EXCEPT !.run = {"end_suggest"}]
    BY <2>1, <2>3, NoWritesParts
  <2> QED
    BY <2>2, <2>3
<1>3. /\ DOMAIN x.status \subseteq Reacted
      /\ \A r \in Reacted :
           (IF r \in DOMAIN x.status THEN x.status[r] ELSE status[r]) = new[r]
  <2>1. DOMAIN new = Reacted
    OBVIOUS
  <2> HIDE DEF new
  <2> QED
    BY <1>2, <2>1, ChangedIs
<1>4. Harmless(x)
  BY <1>2, <1>3, FS_EmptySet, NoWritesParts DEF Harmless, Reacted
<1>5. /\ session'.state = "final_vote"
      /\ UNCHANGED <<session.top_n, session.winner_movie_id>>
      /\ UNCHANGED <<title, media, votes, reaction_count, final_votes>>
      /\ jobs' = (jobs \ x.run) \union x.arm
  BY <1>2, Committed, NoWritesParts DEF commit, Written, IInv, TypeOK
<1>6. \A r \in Present : status'[r] = IF r \in Reacted THEN new[r] ELSE status[r]
  <2> HIDE DEF new
  <2> QED
    BY <1>3, Committed DEF Present, Reacted
<1>7. PICK order \in VS!ReactionOrders :
        \A r \in Reacted :
          r \in F <=> \E i \in DOMAIN order : i <= session.top_n /\ order[i] = title[r]
  BY FilterOrder
<1>8. VS!run_filter_stage(order)
  <2> DEFINE s1 == ByTitle(status, "proposed")
             s2 == [t \in Titles |-> IF t \in Suggested THEN status'[RowOf(t)] ELSE "proposed"]
             kept(t) == \E i \in DOMAIN order : i <= session.top_n /\ order[i] = t
  <2>1. ASSUME NEW t \in Titles
        PROVE  s2[t] = IF t \notin VS!Reacted THEN s1[t]
                       ELSE IF kept(t) THEN "finalist" ELSE "filtered_out"
    <3>1. CASE t \notin Suggested
      BY <3>1, Titled DEF VS!Reacted
    <3>2. ASSUME NEW r \in Present, title[r] = t, RowOf(t) = r, t \in Suggested
          PROVE  s2[t] = IF t \notin VS!Reacted THEN s1[t]
                         ELSE IF kept(t) THEN "finalist" ELSE "filtered_out"
      <4>1. s2[t] = status'[r] /\ s1[t] = status[r]
        BY <3>2, Titled
      <4>2. t \in VS!Reacted <=> r \in Reacted
        BY <3>2, SelectedTitles DEF Sound, TitlesAreUnique, Reacted
      <4>3. r \in Reacted => (r \in F <=> kept(t))
        BY <1>7, <3>2
      <4> HIDE DEF s1, s2, kept
      <4> QED
        BY <1>6, <4>1, <4>2, <4>3
    <3> HIDE DEF s1, s2, kept
    <3> QED
      BY <3>1, <3>2, Titled
  <2>2. ByTitle(status, "proposed")' = s2
    BY <1>5, TitlesStay DEF ByTitle
  <2>3. s2 = [t \in Titles |-> IF t \notin VS!Reacted THEN s1[t]
                               ELSE IF kept(t) THEN "finalist" ELSE "filtered_out"]
    BY <2>1
  <2> HIDE DEF s2
  <2> QED
    BY <2>2, <2>3 DEF VS!run_filter_stage
<1>9. VS!end_suggest
  BY <1>5, <1>8, TitlesStay DEF EndsSuggest, VS!end_suggest
<1>10. VS!Reacted # {} <=> Reacted # {}
  BY SelectedTitles
<1>11. VS!cmd_end_suggest \/ VS!end_suggest_job
  BY <1>2, <1>5, <1>9, <1>10 DEF VS!cmd_end_suggest, VS!end_suggest_job
<1> QED
  BY <1>4, <1>11 DEF VS!Next

------------------------------------------------------------------------------
\* What is committed stays sound.
LEMMA CommitSound ==
  ASSUME IInv, IInv', Sound, NEW w \in Workers, commit(w), Harmless(tx[w])
  PROVE  Sound'
<1> SUFFICES ASSUME NEW x, x = tx[w], Harmless(x) PROVE Sound'
  OBVIOUS
<1>1. IsFiniteSet(votes')
  <2>1. IsFiniteSet(votes \ x.del) /\ IsFiniteSet(x.add)
    BY FS_Subset DEF Sound, Harmless
  <2> QED
    BY <2>1, FS_Union DEF commit
<1>2. \/ UNCHANGED <<title, Present>>
      \/ \E t \in Titles, r \in Rows \ Present :
           /\ \A s \in Rows : title[s] # t
           /\ Present' = Present \union {r}
           /\ \A s \in Rows : title'[s] = IF s = r THEN t ELSE title[s]
  <2>1. CASE UNCHANGED title
    BY <2>1 DEF Present
  <2>2. ASSUME NEW t \in x.insert, NEW r \in Rows \ Present, title' = [title EXCEPT ![r] = t]
        PROVE  \E q \in Titles : /\ \A s \in Rows : title[s] # q
                                 /\ Present' = Present \union {r}
                                 /\ \A s \in Rows : title'[s] = IF s = r THEN q ELSE title[s]
    <3>1. t \in Titles /\ \A s \in Rows : title[s] # t
      BY DEF Harmless
    <3>2. \A s \in Rows : title'[s] = IF s = r THEN t ELSE title[s]
      BY <2>2 DEF IInv, TypeOK
    <3>3. Present' = Present \union {r}
      BY <3>1, <3>2, NoneIsNoTitle DEF Present
    <3> QED
      BY <3>1, <3>2, <3>3
  <2> QED
    BY <2>1, <2>2 DEF commit
<1>3. Present \subseteq Present' /\ IsFiniteSet(Present')
  BY <1>2, FS_AddElement DEF Sound
<1>4. TitlesAreUnique'
  BY <1>2 DEF Sound, TitlesAreUnique, Present
<1>5. session'.top_n \in Nat /\ session'.winner_movie_id \in Present' \union {None}
  BY <1>3, Committed DEF Sound, Harmless
<1>6. \A r \in Rows \ Present' : /\ status'[r] = "proposed" /\ reaction_count'[r] = 0
                                 /\ final_votes'[r] = 0
  BY <1>3, Committed DEF Sound, Harmless
<1> QED
  BY <1>1, <1>3, <1>4, <1>5, <1>6 DEF Sound

\* Every commit of a transaction that decided on what is still so is a step of
\* VoteSession.
LEMMA CommitIsStep ==
  ASSUME IInv, Sound, NEW w \in Workers, commit(w), Decides(tx[w])
  PROVE  Harmless(tx[w]) /\ VS!Next
  BY SuggestsDone, AddsReactionDone, RemovesReactionDone, SetsTopNDone, EndsSuggestDone,
     CastsBallotDone, DecidesForDone, RunsInVainDone, StartsOverDone, FetchesDone, MovesToDone
     DEF Decides

\* A handler decides on what it reads.
LEMMA BeginDecides ==
  ASSUME IInv, NEW w \in Workers, Next, ~commit(w), ~rollback(w), Workers = {w}
  PROVE  \E x : begin(w, x) /\ Decides(x)
<1>1. ASSUME NEW r, WithStatus("winner") = {r} PROVE WithStatus("winner") # {}
  BY <1>1
<1>2. Cardinality(WithStatus("winner")) = 1 => WithStatus("winner") # {}
  BY FS_EmptySet
<1>3. {"cancelled", "download_failed", "downloading", "playing", "ready"} \subseteq VS!States
  BY DEF VS!States
<1>4. CASE \/ \E t \in Titles : begin_suggest_movie(w, t)
           \/ \E u \in Users, r \in Rows : begin_add_fire_reaction(w, u, r)
           \/ \E u \in Users, r \in Rows : begin_remove_fire_reaction(w, u, r)
           \/ \E n \in TopNChoices : begin_set_top_n(w, n)
  BY <1>4 DEF begin_suggest_movie, begin_add_fire_reaction, begin_remove_fire_reaction,
              begin_set_top_n, Decides, Suggests, AddsReaction, RemovesReaction, SetsTopN
<1>5. CASE begin_cmd_end_suggest(w)
  BY <1>5 DEF begin_cmd_end_suggest, Decides, EndsSuggest
<1>6. CASE begin_end_suggest_job(w)
  BY <1>6 DEF begin_end_suggest_job, CanRun, Decides, EndsSuggest, RunsInVain
<1>7. CASE \E u \in Users, r \in Rows : begin_cast_final_vote(w, u, r)
  BY <1>7 DEF begin_cast_final_vote, Decides, CastsBallot
<1>8. CASE begin_end_final_vote_job(w)
  BY <1>8 DEF begin_end_final_vote_job, CanRun, Decides, DecidesFor, RunsInVain, WithStatus, Present
<1>9. CASE begin_cancel_session(w)
  BY <1>3, <1>9 DEF begin_cancel_session, Decides, MovesTo
<1>10. CASE begin_retry_vote(w)
  BY <1>10 DEF begin_retry_vote, Decides, StartsOver
<1>11. CASE begin_cmd_provide_link(w)
  BY <1>2, <1>3, <1>11 DEF begin_cmd_provide_link, Decides, Fetches, MovesTo
<1>12. CASE begin_cmd_retry_download(w)
  BY <1>3, <1>12 DEF begin_cmd_retry_download, Decides, MovesTo
<1>13. CASE begin_cmd_play(w)
  <2>1. WithStatus("winner") \intersect media # {}
    BY <1>2, <1>13 DEF begin_cmd_play
  <2> QED
    BY <1>3, <1>13, <2>1 DEF begin_cmd_play, Decides, MovesTo
<1>14. CASE begin_cmd_stop(w)
  BY <1>3, <1>14 DEF begin_cmd_stop, Decides, MovesTo
<1> QED
  BY <1>4, <1>5, <1>6, <1>7, <1>8, <1>9, <1>10, <1>11, <1>12, <1>13, <1>14 DEF Next

\* What is committed is all a handler decides on, and all VoteSession sees.
LEMMA DecisionsKept ==
  ASSUME UNCHANGED db
  PROVE  /\ \A x : Decides(x) => Decides(x)'
         /\ Sound => Sound'
         /\ UNCHANGED VS!vars
<1>1. /\ UNCHANGED <<session, title, status, reaction_count, final_votes, media, votes, jobs>>
      /\ UNCHANGED <<Present, Ballots, Reacted, TopN, IsActive, min_votes_met>>
      /\ \A s : UNCHANGED WithStatus(s)
      /\ \A F : UNCHANGED EndSuggestWrites(F)
  BY DEF db, Present, Ballots, Reacted, TopN, IsActive, min_votes_met, WithStatus,
         EndSuggestWrites
<1>2. \A x : /\ \A t : Suggests(x, t) => Suggests(x, t)'
             /\ \A n : SetsTopN(x, n) => SetsTopN(x, n)'
             /\ EndsSuggest(x) => EndsSuggest(x)'
             /\ \A r : DecidesFor(x, r) => DecidesFor(x, r)'
             /\ RunsInVain(x) => RunsInVain(x)'
             /\ StartsOver(x) => StartsOver(x)'
             /\ Fetches(x) => Fetches(x)'
             /\ \A to : MovesTo(x, to) => MovesTo(x, to)'
  BY <1>1 DEF Suggests, SetsTopN, EndsSuggest, DecidesFor, RunsInVain, StartsOver, Fetches, MovesTo
<1>3. \A x, u, r : /\ AddsReaction(x, u, r) => AddsReaction(x, u, r)'
                   /\ RemovesReaction(x, u, r) => RemovesReaction(x, u, r)'
                   /\ CastsBallot(x, u, r) => CastsBallot(x, u, r)'
  BY <1>1 DEF AddsReaction, RemovesReaction, CastsBallot
<1>4. Sound => Sound'
  BY <1>1 DEF Sound, TitlesAreUnique
<1>5. UNCHANGED VS!vars
  BY <1>1 DEF VS!vars, VS!rows, Suggested, ByTitle, RowOf, OfType
<1> QED
  BY <1>2, <1>3, <1>4, <1>5 DEF Decides

\* A step keeps the invariant and is one of VoteSession or none.
LEMMA SerialStep ==
  ASSUME IInv, IInv', SInv, [Next]_vars, NEW self, Workers = {self}
  PROVE  SInv' /\ [VS!Next]_(VS!vars)
<1>1. ASSUME NEW gone, Close(self, gone), Sound' PROVE SInv'
  BY <1>1 DEF Close, Closed, SInv
<1>2. CASE commit(self)
  <2>1. tx[self].open /\ Close(self, tx[self].del) /\ Sound
    BY <1>2 DEF commit, SInv
  <2>2. Harmless(tx[self]) /\ VS!Next
    BY <1>2, <2>1, CommitIsStep DEF SInv
  <2>3. Sound'
    BY <1>2, <2>1, <2>2, CommitSound
  <2> QED
    BY <1>1, <2>1, <2>2, <2>3
<1>3. CASE rollback(self)
  <2>1. Close(self, {}) /\ UNCHANGED db
    BY <1>3 DEF rollback
  <2> QED
    BY <1>1, <2>1, DecisionsKept DEF SInv
<1>4. CASE UNCHANGED vars
  <2>1. UNCHANGED <<db, tx>>
    BY <1>4 DEF vars
  <2> QED
    BY <2>1, DecisionsKept DEF SInv
<1>5. CASE Next /\ ~commit(self) /\ ~rollback(self)
  <2>1. PICK x : begin(self, x) /\ Decides(x)
    BY <1>5, BeginDecides
  <2>2. UNCHANGED db /\ tx'[self] = x
    BY <2>1 DEF begin, IInv
  <2> QED
    BY <2>1, <2>2, DecisionsKept DEF SInv
<1> QED
  BY <1>2, <1>3, <1>4, <1>5

\* Served one at a time, handlers and jobs do what VoteSession says.
THEOREM SerialImplements ==
  ASSUME NEW self, Workers = {self} PROVE Spec => ImplementsVoteSession
<1>1. Init => VS!Init /\ SInv
  <2> SUFFICES ASSUME Init PROVE VS!Init /\ SInv
    OBVIOUS
  <2>1. Present = {} /\ Suggested = {} /\ \A w \in Workers : ~tx[w].open
    BY DEF Init, Present, Suggested, Closed
  <2>2. SInv
    BY <2>1, FS_EmptySet, TopNIsNat DEF Init, SInv, Sound, TitlesAreUnique
  <2>3. OfType("fire") = {} /\ OfType("final") = {}
    BY DEF Init, OfType
  <2>4. VS!Init
    BY <2>1, <2>3 DEF Init, VS!Init, ByTitle
  <2> QED
    BY <2>2, <2>4
<1>2. IInv /\ IInv' /\ SInv /\ [Next]_vars => SInv' /\ [VS!Next]_(VS!vars)
  BY SerialStep
<1> QED
  BY <1>1, <1>2, TypeCorrect, PTL DEF Spec, ImplementsVoteSession, VS!Spec

==============================================================================
