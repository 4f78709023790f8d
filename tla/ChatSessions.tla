----------------------------- MODULE ChatSessions -----------------------------
(***************************************************************************)
(* The voting sessions of one chat.  A command names no session: it asks   *)
(* for the one of the chat that is in a state the command is about, and    *)
(* scalar_one_or_none raises when there are two.                           *)
(*                                                                         *)
(* A call reads what is committed, decides, and commits later; other calls *)
(* go on in between.  Here a session is only as far as the commands tell   *)
(* its states apart; what happens inside one is VoteSession's and          *)
(* VotingTx's business.                                                    *)
(***************************************************************************)
EXTENDS Integers, FiniteSets

CONSTANTS
  Tasks,       \* handler calls that may overlap
  Members,     \* Telegram accounts in the chat
  MaxSessions  \* bound: sessions made in one behaviour

ASSUME SomeMember == Members # {}
ASSUME MaxSessionsIsNat == MaxSessions \in Nat

VARIABLES
  session,     \* per vote_sessions row: its state, or "none"
  users,       \* per member: rows of users with his telegram_id
  call,        \* per task: where it is, what it has read, and what it will write
  overlapped,  \* history: two calls have overlapped
  before,      \* history, per session: those committed when its /vote began
  failed       \* history: sessions whose download has failed

vars == <<session, users, call, overlapped, before, failed>>

Sessions == 1..MaxSessions

\* "voting" is CREATED to WINNER_SELECTED.  No code makes a session COMPLETED.
States == {"voting", "downloading", "download_failed", "ready", "playing", "cancelled"}

InState(states) == {s \in Sessions : session[s] \in states}

Active == InState(States \ {"cancelled", "download_failed"})

Committed == InState(States)

Steps == {"none", "user", "active", "create", "flush", "download", "commit"}

Calls == [at : Steps, member : Members, inserts : BOOLEAN, before : SUBSET Sessions,
          session : 0..MaxSessions, read : States \union {"none"},
          result : States \union {"none"}]

NoCall == [at |-> "none", member |-> CHOOSE m \in Members : TRUE, inserts |-> FALSE,
           before |-> {}, session |-> 0, read |-> "none", result |-> "none"]

Init ==
  /\ session = [s \in Sessions |-> "none"]
  /\ users = [m \in Members |-> 0]
  /\ call = [t \in Tasks |-> NoCall]
  /\ overlapped = FALSE
  /\ before = [s \in Sessions |-> {}]
  /\ failed = {}

begins(t, c) ==
  /\ call[t].at = "none"
  /\ call' = [call EXCEPT ![t] = c]
  /\ overlapped' = (overlapped \/ \E u \in Tasks : call[u].at # "none")

Goes(t, at) == call' = [call EXCEPT ![t].at = at]

\* The call ends, and its transaction with it: the user it has inserted stays
\* if it is a commit.
ends(t, commits) ==
  /\ call' = [call EXCEPT ![t] = NoCall]
  /\ users' = IF commits /\ call[t].inserts
                THEN [users EXCEPT ![call[t].member] = @ + 1] ELSE users

------------------------------------------------------------------------------
(* /vote.                                                                   *)

\* cmd_vote looks its user up.
cmd_vote(t, m) ==
  /\ begins(t, [NoCall EXCEPT !.member = m, !.before = Committed,
                              !.at = IF users[m] = 0 THEN "user" ELSE "active"])
  /\ UNCHANGED <<session, users, before, failed>>

\* Mutant: inserts whatever another call inserts.
insert_user_again(t) ==
  /\ call[t].at = "user"
  /\ call' = [call EXCEPT ![t].at = "active", ![t].inserts = TRUE]
  /\ UNCHANGED <<session, users, overlapped, before, failed>>

\* A user not found is inserted.  telegram_id is unique: the INSERT waits for
\* another call's that is not committed, and fails when it is.
insert_user(t) ==
  /\ call[t].at = "user"
  /\ \A u \in Tasks : call[u].inserts => call[u].member # call[t].member
  /\ \/ /\ users[call[t].member] = 0
        /\ call' = [call EXCEPT ![t].at = "active", ![t].inserts = TRUE]
        /\ UNCHANGED users
     \/ users[call[t].member] # 0 /\ ends(t, FALSE)
  /\ UNCHANGED <<session, overlapped, before, failed>>

\* Mutant: looks only for a session that is not being downloaded yet.
check_active_voting(t) ==
  /\ call[t].at = "active"
  /\ \/ InState({"voting"}) = {} /\ Goes(t, "create") /\ UNCHANGED users
     \/ InState({"voting"}) # {} /\ ends(t, TRUE)
  /\ UNCHANGED <<session, overlapped, before, failed>>

\* Mutant: the sessions to look for are those in the film's last states.
check_active_late(t) ==
  /\ call[t].at = "active"
  /\ \/ InState({"ready", "playing"}) = {} /\ Goes(t, "create") /\ UNCHANGED users
     \/ InState({"ready", "playing"}) # {} /\ ends(t, TRUE)
  /\ UNCHANGED <<session, overlapped, before, failed>>

\* It looks for an active session: with two the call fails, with one it is
\* refused, and so it is when no TV is online.
check_active(t) ==
  /\ call[t].at = "active"
  /\ \/ Active = {} /\ Goes(t, "create") /\ UNCHANGED users
     \/ ends(t, Cardinality(Active) < 2)
  /\ UNCHANGED <<session, overlapped, before, failed>>

\* The session is made and goes on to SUGGESTIONS.
create_vote_session(t) ==
  /\ call[t].at = "create"
  /\ \E s \in Sessions :  \* bound: MaxSessions
       /\ session[s] = "none" /\ \A r \in Sessions : r < s => session[r] # "none"
       /\ session' = [session EXCEPT ![s] = "voting"]
       /\ before' = [before EXCEPT ![s] = call[t].before]
  /\ ends(t, TRUE)
  /\ UNCHANGED <<overlapped, failed>>

------------------------------------------------------------------------------
(* The other commands, and the timer that decides a final vote.             *)

\* The call has found the one session among those it looks for.  (Without one
\* it is refused; with two it fails.)
finds(t, found, s, result) ==
  /\ found = {s}
  /\ begins(t, [NoCall EXCEPT !.at = "commit", !.session = s, !.read = session[s],
                              !.result = result])
  /\ UNCHANGED <<session, users, before, failed>>

cmd_cancel_vote(t, s) == finds(t, Active, s, "cancelled")

\* A vote is decided by the timer of its session, which looks for no other.
end_final_vote_job(t, s) ==
  /\ session[s] = "voting"
  /\ finds(t, {s}, s, "downloading")

cmd_retry_download(t, s) == finds(t, InState({"download_failed"}), s, "downloading")

cmd_play(t, s) == finds(t, InState({"ready", "playing"}), s, "playing")

cmd_stop(t, s) == finds(t, InState({"playing"}), s, "ready")

\* A failed session is updated, and its row locked, before the download.
cmd_provide_link(t, s) ==
  /\ InState({"downloading", "download_failed"}) = {s}
  /\ begins(t, [NoCall EXCEPT !.at = IF session[s] = "downloading" THEN "download" ELSE "flush",
                              !.session = s, !.read = session[s], !.result = "ready"])
  /\ UNCHANGED <<session, users, before, failed>>

\* No other transaction holds the row of session s.
Free(t, s) ==
  \A u \in Tasks \ {t} :
    ~(call[u].session = s /\ call[u].read = "download_failed"
        /\ call[u].result \in {"ready", "download_failed"}
        /\ call[u].at \in {"download", "commit"})

flush(t) ==
  /\ call[t].at = "flush"
  /\ Free(t, call[t].session)
  /\ Goes(t, "download")
  /\ UNCHANGED <<session, users, overlapped, before, failed>>

download(t) ==
  /\ call[t].at = "download"
  /\ \E result \in {"ready", "download_failed"} :
       call' = [call EXCEPT ![t].at = "commit", ![t].result = result]
  /\ UNCHANGED <<session, users, overlapped, before, failed>>

\* The call fails before its commit: the TV does not answer, or an exception.
fails(t) ==
  /\ call[t].at \in {"create", "download", "commit"}
  /\ ends(t, FALSE)
  /\ UNCHANGED <<session, overlapped, before, failed>>

\* The state is written if it is not the one that was read.
commit(t) ==
  LET s == call[t].session  result == call[t].result IN
  /\ call[t].at = "commit"
  /\ Free(t, s)
  /\ session' = IF result = call[t].read /\ result # "download_failed"
                  THEN session ELSE [session EXCEPT ![s] = result]
  /\ failed' = IF result = "download_failed" THEN failed \union {s} ELSE failed
  /\ ends(t, TRUE)
  /\ UNCHANGED <<overlapped, before>>

------------------------------------------------------------------------------
Command(t) ==
  \/ \E m \in Members : cmd_vote(t, m)
  \/ \E s \in Sessions :
       \/ cmd_cancel_vote(t, s) \/ end_final_vote_job(t, s)
       \/ cmd_provide_link(t, s) \/ cmd_retry_download(t, s)
       \/ cmd_play(t, s) \/ cmd_stop(t, s)

Step(t) ==
  \/ insert_user(t) \/ check_active(t) \/ create_vote_session(t)
  \/ flush(t) \/ download(t) \/ fails(t) \/ commit(t)

Next == \E t \in Tasks : Command(t) \/ Step(t)

Spec == Init /\ [][Next]_vars

------------------------------------------------------------------------------
\* Sessions, calls and histories are of their kinds, and a member has one row.
TypeOK ==
  /\ session \in [Sessions -> States \union {"none"}]
  /\ users \in [Members -> 0..1]
  /\ call \in [Tasks -> Calls]
  /\ overlapped \in BOOLEAN
  /\ before \in [Sessions -> SUBSET Sessions]
  /\ failed \subseteq Sessions

\* Two votes of a chat are only ever taken at once when neither /vote could see
\* the other's session: both began before either was committed.
VotesMeetOnlyByRace ==
  \A r, s \in InState({"voting"}) : r \notin before[s]

\* Without overlapping calls a chat has two active sessions only when the
\* older one's download had failed and was taken up again, and never three,
\* however often that happens.
SecondActiveIsRevived ==
  ~overlapped =>
    /\ \A r, s \in Active : r < s => r \in failed
    /\ \A p, q, r \in Active : p = q \/ q = r \/ r = p

------------------------------------------------------------------------------
(* What the code's words promise and the code does not keep.                *)

\* services/voting.py:137: there is one "most recent non-finalized session".
OneActiveSession == Cardinality(Active) <= 1

\* The same when calls are served one at a time.
OneActiveInTurn == ~overlapped => Cardinality(Active) <= 1

\* bot/handlers/downloader.py:38: a winner that waits for a link can be given one.
LinkCanBeProvided ==
  ~overlapped => Cardinality(InState({"downloading", "download_failed"})) <= 1
==============================================================================
