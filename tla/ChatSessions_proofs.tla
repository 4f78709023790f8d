-------------------------- MODULE ChatSessions_proofs -------------------------
(***************************************************************************)
(* Proofs about ChatSessions, for any number of overlapping calls, members *)
(* and sessions.                                                           *)
(***************************************************************************)
EXTENDS ChatSessions, TLAPS

\* A call that works on a session, and the steps of /vote.
OnSession == {"flush", "download", "commit"}

\* What a call knows stays true while others go on: the sessions it saw are
\* there, and a /vote about to create has none of them voting.
CallsKnow ==
  \A t \in Tasks :
    /\ call[t].before \subseteq Committed
    /\ call[t].at = "create" => \A r \in call[t].before : session[r] # "voting"
    /\ call[t].at \in OnSession =>
         /\ call[t].session \in Committed
         /\ call[t].read \in States \ {"cancelled"}
         /\ call[t].result \in States \ {"voting"}

\* An inserted user that is not committed has no other row, and no other
\* call inserts him.
InsertsAlone ==
  /\ \A t \in Tasks : call[t].inserts => users[call[t].member] = 0
  /\ \A t, u \in Tasks :
       t # u /\ call[t].inserts /\ call[u].inserts => call[t].member # call[u].member

\* The histories are about sessions that are there.
Histories ==
  /\ \A s \in Sessions : before[s] \subseteq Committed
  /\ \A s \in Sessions : session[s] = "download_failed" => s \in failed

Failing == InState({"download_failed"})

\* Beside two active sessions there is neither a third nor one to take up.
TwoAtMost ==
  /\ \A p, q \in Active : p # q => Failing = {}
  /\ \A p, q, r \in Active : p = q \/ q = r \/ r = p

\* Without overlap a call finds at its commit what it has read, it takes up only
\* the one failed session there is, and whatever is older than a session has
\* failed once or is cancelled.
InTurn ==
  ~overlapped =>
    /\ TwoAtMost
    /\ \A t, u \in Tasks : t # u => call[t].at = "none" \/ call[u].at = "none"
    /\ \A t \in Tasks :
         /\ call[t].at \in OnSession =>
              /\ session[call[t].session] = call[t].read
              /\ call[t].read = "download_failed" => Failing = {call[t].session}
         /\ call[t].at = "create" => Active = {}
    /\ \A r, s \in Sessions :
         r < s /\ session[s] # "none" => r \in failed \/ session[r] = "cancelled"

IInv ==
  /\ TypeOK
  /\ CallsKnow
  /\ InsertsAlone
  /\ Histories
  /\ VotesMeetOnlyByRace
  /\ InTurn

------------------------------------------------------------------------------
\* An idle call is of its kind: NoCall names some member.
LEMMA NoCallType ==
  NoCall \in Calls /\ NoCall.at = "none" /\ NoCall.before = {} /\ NoCall.inserts = FALSE
<1>1. (CHOOSE m \in Members : TRUE) \in Members
  BY SomeMember
<1> QED
  BY <1>1, MaxSessionsIsNat DEF NoCall, Calls, Steps, States, Sessions

\* The initial state satisfies the inductive invariant: no session, no call.
LEMMA InitInvariant == Init => IInv
<1> SUFFICES ASSUME Init PROVE IInv
  OBVIOUS
<1>1. TypeOK
  <2>1. call \in [Tasks -> Calls]
    BY NoCallType DEF Init
  <2>2. before \in [Sessions -> SUBSET Sessions] /\ failed \subseteq Sessions
    BY DEF Init
  <2>3. session \in [Sessions -> States \union {"none"}]
    BY DEF Init
  <2>4. users \in [Members -> 0..1]
    BY DEF Init
  <2>5. overlapped \in BOOLEAN
    BY DEF Init
  <2> QED
    BY <2>1, <2>2, <2>3, <2>4, <2>5 DEF TypeOK
<1>2. CallsKnow
  BY NoCallType DEF Init, CallsKnow, OnSession
<1>3. InsertsAlone
  BY NoCallType DEF Init, InsertsAlone
<1>4. Histories
  BY DEF Init, Histories
<1>5. VotesMeetOnlyByRace
  BY DEF Init, VotesMeetOnlyByRace, InState
<1>6. InTurn
  BY NoCallType DEF Init, InTurn, OnSession, TwoAtMost, Active, InState, States
<1> QED
  BY <1>1, <1>2, <1>3, <1>4, <1>5, <1>6 DEF IInv

------------------------------------------------------------------------------
\* A step that leaves the sessions alone: it is enough to look at what the
\* task knows after it.
LEMMA QuietStep ==
  ASSUME IInv, NEW t \in Tasks, NEW c \in Calls,
         call' = [call EXCEPT ![t] = c],
         UNCHANGED <<session, before, failed>>,
         users' \in [Members -> 0..1], InsertsAlone', overlapped' \in BOOLEAN,
         ~overlapped' =>
           ~overlapped /\ (call[t].at # "none" \/ \A u \in Tasks : call[u].at = "none"),
         c.before \subseteq Committed,
         c.at = "create" => Active = {} \/ (call[t].at = "create" /\ c.before = call[t].before),
         c.at \in OnSession =>
           /\ c.session \in Committed
           /\ c.read \in States \ {"cancelled"}
           /\ c.result \in States \ {"voting"}
           /\ ~overlapped' => session[c.session] = c.read
           /\ ~overlapped' /\ c.read = "download_failed" => Failing = {c.session}
  PROVE  IInv'
<1>1. \A u \in Tasks : call'[u] = IF u = t THEN c ELSE call[u]
  BY DEF IInv, TypeOK
<1>2. Committed' = Committed /\ Active' = Active /\ Failing' = Failing
  BY DEF Committed, Active, Failing, InState
<1>3. TypeOK'
  BY DEF IInv, TypeOK
<1>4. CallsKnow'
  <2>1. c.at = "create" => \A r \in c.before : session[r] # "voting"
    BY DEF IInv, CallsKnow, Active, Committed, InState, States
  <2> QED
    BY <1>1, <1>2, <2>1 DEF IInv, CallsKnow
<1>5. Histories'
  BY <1>2 DEF IInv, Histories
<1>6. VotesMeetOnlyByRace'
  BY DEF IInv, VotesMeetOnlyByRace, InState
<1>7. InTurn'
  <2> SUFFICES ASSUME ~overlapped' PROVE InTurn'
    BY DEF InTurn
  <2>1. \A u, v \in Tasks : u # v => call'[u].at = "none" \/ call'[v].at = "none"
    BY <1>1 DEF IInv, InTurn
  <2>2. \A u \in Tasks : call'[u].at \in OnSession =>
          /\ session'[call'[u].session] = call'[u].read
          /\ call'[u].read = "download_failed" => Failing' = {call'[u].session}
    BY <1>1, <1>2 DEF IInv, InTurn
  <2>3. \A u \in Tasks : call'[u].at = "create" => Active' = {}
    BY <1>1, <1>2 DEF IInv, InTurn
  <2>4. \A r, s \in Sessions :
          r < s /\ session'[s] # "none" => r \in failed' \/ session'[r] = "cancelled"
    BY DEF IInv, InTurn
  <2>5. TwoAtMost'
    BY <1>2 DEF IInv, InTurn, TwoAtMost
  <2> QED
    BY <2>1, <2>2, <2>3, <2>4, <2>5 DEF InTurn
<1> QED
  BY <1>3, <1>4, <1>5, <1>6, <1>7 DEF IInv

\* A call that ends leaves the users of their kind: what it had inserted was
\* the first row of its member.
LEMMA EndsUsers ==
  ASSUME IInv, NEW t \in Tasks, NEW commits \in BOOLEAN, ends(t, commits)
  PROVE  /\ call' = [call EXCEPT ![t] = NoCall]
         /\ users' \in [Members -> 0..1]
         /\ InsertsAlone'
<1>1. call' = [call EXCEPT ![t] = NoCall]
  BY DEF ends
<1>2. call[t] \in Calls /\ call[t].member \in Members
  BY DEF IInv, TypeOK, Calls
<1>3. CASE commits /\ call[t].inserts
  <2>1. users' = [users EXCEPT ![call[t].member] = 1]
    <3>1. users' = [users EXCEPT ![call[t].member] = users[call[t].member] + 1]
      BY <1>3 DEF ends
    <3>2. users[call[t].member] = 0
      BY <1>3 DEF IInv, InsertsAlone
    <3> QED
      BY <3>1, <3>2
  <2>2. users' \in [Members -> 0..1]
    BY <1>2, <2>1 DEF IInv, TypeOK
  <2>3. \A u \in Tasks : call'[u].inserts =>
          u # t /\ call[u].inserts /\ call'[u].member = call[u].member
    BY <1>1, NoCallType DEF IInv, TypeOK
  <2>4. \A u \in Tasks : call'[u].inserts => users'[call'[u].member] = 0
    <3> SUFFICES ASSUME NEW u \in Tasks, call'[u].inserts
                 PROVE  users'[call'[u].member] = 0
      OBVIOUS
    <3>1. call[u].member \in Members /\ call[u].member # call[t].member
      BY <1>3, <2>3 DEF IInv, TypeOK, InsertsAlone, Calls
    <3> QED
      BY <2>1, <2>3, <3>1 DEF IInv, TypeOK, InsertsAlone
  <2> QED
    BY <1>1, <2>2, <2>3, <2>4 DEF IInv, InsertsAlone
<1>4. CASE ~(commits /\ call[t].inserts)
  <2>1. users' = users
    BY <1>4 DEF ends
  <2> QED
    BY <1>1, <2>1, NoCallType DEF IInv, TypeOK, InsertsAlone
<1> QED
  BY <1>3, <1>4

\* A call that ends without a word about sessions.
LEMMA EndsStep ==
  ASSUME IInv, NEW t \in Tasks, NEW commits \in BOOLEAN, ends(t, commits),
         call[t].at # "none", UNCHANGED <<session, overlapped, before, failed>>
  PROVE  IInv'
<1>1. overlapped' \in BOOLEAN
  BY DEF IInv, TypeOK
<1> QED
  BY <1>1, EndsUsers, QuietStep, NoCallType DEF OnSession

\* A call that begins: overlapped tells whether it is alone.
LEMMA BeginsStep ==
  ASSUME IInv, NEW t \in Tasks, NEW c \in Calls, begins(t, c),
         UNCHANGED <<session, users, before, failed>>, ~c.inserts,
         c.before \subseteq Committed, c.at # "create",
         c.at \in OnSession =>
           /\ c.session \in Committed
           /\ c.read \in States \ {"cancelled"}
           /\ c.result \in States \ {"voting"}
           /\ session[c.session] = c.read
           /\ c.read = "download_failed" => Failing = {c.session}
  PROVE  IInv'
<1>1. call' = [call EXCEPT ![t] = c]
  BY DEF begins
<1>2. overlapped' \in BOOLEAN /\ users' \in [Members -> 0..1]
  BY DEF begins, IInv, TypeOK
<1>3. InsertsAlone'
  BY <1>1 DEF IInv, TypeOK, InsertsAlone
<1>4. ~overlapped' =>
        ~overlapped /\ (call[t].at # "none" \/ \A u \in Tasks : call[u].at = "none")
  BY DEF begins
<1> QED
  BY <1>1, <1>2, <1>3, <1>4, QuietStep

------------------------------------------------------------------------------
(* The steps.                                                               *)

LEMMA VoteBegins ==
  ASSUME IInv, NEW t \in Tasks, NEW m \in Members, cmd_vote(t, m)
  PROVE  IInv'
<1> DEFINE c == [NoCall EXCEPT !.member = m, !.before = Committed,
                               !.at = IF users[m] = 0 THEN "user" ELSE "active"]
<1>1. c \in Calls /\ ~c.inserts /\ c.before = Committed /\ c.at \in {"user", "active"}
  BY NoCallType DEF Calls, Steps, Committed, InState
<1>2. begins(t, c) /\ UNCHANGED <<session, users, before, failed>>
  BY DEF cmd_vote
<1> HIDE DEF c
<1> QED
  BY <1>1, <1>2, BeginsStep DEF OnSession

LEMMA UserInserted ==
  ASSUME IInv, NEW t \in Tasks, insert_user(t)
  PROVE  IInv'
<1>1. CASE users[call[t].member] = 0
  <2> DEFINE c == [call[t] EXCEPT !.at = "active", !.inserts = TRUE]
  <2>1. call[t] \in Calls
    BY DEF IInv, TypeOK
  <2>2. c \in Calls /\ c.at = "active" /\ c.before = call[t].before /\ c.inserts
          /\ c.member = call[t].member
    BY <2>1 DEF Calls, Steps
  <2>3. call' = [call EXCEPT ![t] = c] /\ users' = users
    BY <1>1 DEF insert_user, ends, IInv, TypeOK
  <2>4. c.before \subseteq Committed
    BY <2>2 DEF IInv, CallsKnow
  <2> HIDE DEF c
  <2>5. InsertsAlone'
    <3>1. \A u \in Tasks : call'[u] = IF u = t THEN c ELSE call[u]
      BY <2>3 DEF IInv, TypeOK
    <3>2. \A u \in Tasks : call[u].inserts => call[u].member # c.member
      BY <2>2 DEF insert_user
    <3> QED
      BY <1>1, <2>2, <2>3, <3>1, <3>2 DEF IInv, InsertsAlone
  <2>6. UNCHANGED <<session, overlapped, before, failed>> /\ call[t].at = "user"
          /\ users' \in [Members -> 0..1] /\ overlapped' \in BOOLEAN
    BY <2>3 DEF insert_user, IInv, TypeOK
  <2> QED
    BY <2>2, <2>3, <2>4, <2>5, <2>6, QuietStep DEF OnSession
<1>2. CASE users[call[t].member] # 0
  BY <1>2, EndsStep DEF insert_user
<1> QED
  BY <1>1, <1>2

LEMMA VoteChecked ==
  ASSUME IInv, NEW t \in Tasks, check_active(t)
  PROVE  IInv'
<1>1. CASE Active = {} /\ Goes(t, "create") /\ UNCHANGED users
  <2> DEFINE c == [call[t] EXCEPT !.at = "create"]
  <2>1. call[t] \in Calls
    BY DEF IInv, TypeOK
  <2>2. c \in Calls /\ c.at = "create" /\ c.before = call[t].before /\ c.inserts = call[t].inserts
          /\ c.member = call[t].member
    BY <2>1 DEF Calls, Steps
  <2>3. call' = [call EXCEPT ![t] = c]
    BY <1>1 DEF Goes
  <2>4. c.before \subseteq Committed
    BY <2>2 DEF IInv, CallsKnow
  <2> HIDE DEF c
  <2>5. InsertsAlone'
    BY <1>1, <2>2, <2>3 DEF IInv, TypeOK, InsertsAlone
  <2>6. UNCHANGED <<session, overlapped, before, failed>> /\ call[t].at = "active"
          /\ users' \in [Members -> 0..1] /\ overlapped' \in BOOLEAN
    BY <1>1 DEF check_active, IInv, TypeOK
  <2> QED
    BY <1>1, <2>2, <2>3, <2>4, <2>5, <2>6, QuietStep DEF OnSession
<1>2. CASE ends(t, Cardinality(Active) < 2)
  <2> DEFINE commits == Cardinality(Active) < 2
  <2>1. commits \in BOOLEAN /\ ends(t, commits)
    BY <1>2
  <2>2. call[t].at # "none" /\ UNCHANGED <<session, overlapped, before, failed>>
    BY DEF check_active
  <2> HIDE DEF commits
  <2> QED
    BY <2>1, <2>2, EndsStep
<1> QED
  BY <1>1, <1>2 DEF check_active

\* A command that has found its session.
LEMMA FindsStep ==
  ASSUME IInv, NEW t \in Tasks, NEW s \in Sessions, NEW result \in States \ {"voting"},
         NEW at \in {"commit", "download", "flush"},
         session[s] \in States \ {"cancelled"},
         session[s] = "download_failed" => Failing = {s},
         begins(t, [NoCall EXCEPT !.at = at, !.session = s, !.read = session[s],
                                  !.result = result]),
         UNCHANGED <<session, users, before, failed>>
  PROVE  IInv'
<1> DEFINE c == [NoCall EXCEPT !.at = at, !.session = s, !.read = session[s],
                               !.result = result]
<1>1. /\ c \in Calls /\ ~c.inserts /\ c.before = {} /\ c.at = at /\ c.session = s
      /\ c.read = session[s] /\ c.result = result
  <2>1. at \in Steps /\ s \in 0..MaxSessions
    BY MaxSessionsIsNat DEF Steps, Sessions
  <2>2. session[s] \in States \union {"none"} /\ result \in States \union {"none"}
    OBVIOUS
  <2>3. \A read \in States \union {"none"} :
          LET d == [NoCall EXCEPT !.at = at, !.session = s, !.read = read, !.result = result]
          IN  /\ d \in Calls /\ ~d.inserts /\ d.before = {} /\ d.at = at /\ d.session = s
              /\ d.read = read /\ d.result = result
    BY <2>1, <2>2, NoCallType DEF Calls
  <2> QED
    BY <2>2, <2>3
<1>2. begins(t, c)
  OBVIOUS
<1>3. s \in Committed
  BY DEF Committed, InState
<1> HIDE DEF c
<1> QED
  BY <1>1, <1>2, <1>3, BeginsStep

LEMMA CommandBegins ==
  ASSUME IInv, NEW t \in Tasks, NEW s \in Sessions,
         \/ cmd_cancel_vote(t, s) \/ end_final_vote_job(t, s) \/ cmd_retry_download(t, s)
         \/ cmd_play(t, s) \/ cmd_stop(t, s)
  PROVE  IInv'
<1>1. PICK result \in States \ {"voting"} :
        /\ session[s] \in States \ {"cancelled"}
        /\ session[s] = "download_failed" => Failing = {s}
        /\ begins(t, [NoCall EXCEPT !.at = "commit", !.session = s, !.read = session[s],
                                    !.result = result])
        /\ UNCHANGED <<session, users, before, failed>>
  <2>1. CASE cmd_cancel_vote(t, s)
    <3>1. "cancelled" \in States \ {"voting"} /\ session[s] \in States \ {"cancelled"}
          /\ (session[s] = "download_failed" => Failing = {s})
      BY <2>1 DEF cmd_cancel_vote, finds, Failing, Active, InState, States
    <3> QED
      BY <2>1, <3>1 DEF cmd_cancel_vote, finds
  <2>2. CASE end_final_vote_job(t, s)
    <3>1. "downloading" \in States \ {"voting"} /\ session[s] \in States \ {"cancelled"}
          /\ (session[s] = "download_failed" => Failing = {s})
      BY <2>2 DEF end_final_vote_job, finds, States
    <3> QED
      BY <2>2, <3>1 DEF end_final_vote_job, finds
  <2>3. CASE cmd_retry_download(t, s)
    <3>1. "downloading" \in States \ {"voting"} /\ session[s] \in States \ {"cancelled"}
          /\ (session[s] = "download_failed" => Failing = {s})
      BY <2>3 DEF cmd_retry_download, finds, Failing, InState, States
    <3> QED
      BY <2>3, <3>1 DEF cmd_retry_download, finds
  <2>4. CASE cmd_play(t, s)
    <3>1. "playing" \in States \ {"voting"} /\ session[s] \in States \ {"cancelled"}
          /\ (session[s] = "download_failed" => Failing = {s})
      BY <2>4 DEF cmd_play, finds, Failing, InState, States
    <3> QED
      BY <2>4, <3>1 DEF cmd_play, finds
  <2>5. CASE cmd_stop(t, s)
    <3>1. "ready" \in States \ {"voting"} /\ session[s] \in States \ {"cancelled"}
          /\ (session[s] = "download_failed" => Failing = {s})
      BY <2>5 DEF cmd_stop, finds, Failing, InState, States
    <3> QED
      BY <2>5, <3>1 DEF cmd_stop, finds
  <2> QED
    BY <2>1, <2>2, <2>3, <2>4, <2>5
<1> QED
  BY <1>1, FindsStep

LEMMA LinkProvided ==
  ASSUME IInv, NEW t \in Tasks, NEW s \in Sessions, cmd_provide_link(t, s)
  PROVE  IInv'
<1>1. session[s] \in States \ {"cancelled"} /\ (session[s] = "download_failed" => Failing = {s})
  BY DEF cmd_provide_link, Failing, InState, States
<1>2. PICK at \in {"commit", "download", "flush"} :
        begins(t, [NoCall EXCEPT !.at = at, !.session = s, !.read = session[s],
                                 !.result = "ready"])
  BY DEF cmd_provide_link
<1>3. "ready" \in States \ {"voting"} /\ UNCHANGED <<session, users, before, failed>>
  BY DEF cmd_provide_link, States
<1> QED
  BY <1>1, <1>2, <1>3, FindsStep

LEMMA DownloadGoesOn ==
  ASSUME IInv, NEW t \in Tasks, flush(t) \/ download(t)
  PROVE  IInv'
<1>1. PICK c \in Calls :
        /\ call' = [call EXCEPT ![t] = c]
        /\ c.at \in OnSession /\ c.session = call[t].session /\ c.read = call[t].read
        /\ c.result \in States \ {"voting"}
        /\ c.before = call[t].before /\ c.inserts = call[t].inserts
        /\ c.member = call[t].member
  <2>1. call[t] \in Calls
    BY DEF IInv, TypeOK
  <2>2. CASE flush(t)
    <3> DEFINE c == [call[t] EXCEPT !.at = "download"]
    <3>1. c \in Calls /\ c.result \in States \ {"voting"}
      BY <2>1, <2>2 DEF Calls, Steps, flush, IInv, CallsKnow, OnSession
    <3> QED
      BY <2>1, <2>2, <3>1 DEF flush, Goes, OnSession, Calls
  <2>3. CASE download(t)
    <3>1. PICK result \in {"ready", "download_failed"} :
            call' = [call EXCEPT ![t].at = "commit", ![t].result = result]
      BY <2>3 DEF download
    <3> DEFINE c == [call[t] EXCEPT !.at = "commit", !.result = result]
    <3>2. c \in Calls /\ result \in States \ {"voting"} /\ call' = [call EXCEPT ![t] = c]
      BY <2>1, <3>1 DEF Calls, Steps, States, IInv, TypeOK
    <3> QED
      BY <2>1, <3>2 DEF OnSession, Calls
  <2> QED
    BY <2>2, <2>3
<1>2. call[t].at \in OnSession /\ UNCHANGED <<session, users, overlapped, before, failed>>
  BY DEF flush, download, OnSession
<1>3. InsertsAlone'
  BY <1>1, <1>2 DEF IInv, TypeOK, InsertsAlone
<1>4. /\ c.before \subseteq Committed /\ c.session \in Committed
      /\ c.read \in States \ {"cancelled"}
      /\ ~overlapped' => session[c.session] = c.read
      /\ ~overlapped' /\ c.read = "download_failed" => Failing = {c.session}
  BY <1>1, <1>2 DEF IInv, CallsKnow, InTurn
<1>5. users' \in [Members -> 0..1] /\ overlapped' \in BOOLEAN /\ call[t].at # "none"
        /\ c.at # "create"
  BY <1>1, <1>2 DEF IInv, TypeOK, OnSession
<1> QED
  BY <1>1, <1>2, <1>3, <1>4, <1>5, QuietStep

LEMMA CallFails ==
  ASSUME IInv, NEW t \in Tasks, fails(t)
  PROVE  IInv'
BY EndsStep DEF fails

------------------------------------------------------------------------------
(* The two steps that change sessions.                                      *)

\* The new session is in no history yet, and what its /vote had seen when it
\* began votes no more.
LEMMA SessionCreated ==
  ASSUME IInv, NEW t \in Tasks, create_vote_session(t)
  PROVE  IInv'
<1>1. PICK s \in Sessions :
        /\ session[s] = "none" /\ \A r \in Sessions : r < s => session[r] # "none"
        /\ session' = [session EXCEPT ![s] = "voting"]
        /\ before' = [before EXCEPT ![s] = call[t].before]
  BY DEF create_vote_session
<1>2. ends(t, TRUE) /\ call[t].at = "create" /\ UNCHANGED <<overlapped, failed>>
  BY DEF create_vote_session
<1>3. /\ call' = [call EXCEPT ![t] = NoCall]
      /\ users' \in [Members -> 0..1]
      /\ InsertsAlone'
  BY <1>2, EndsUsers
<1>4. \A u \in Tasks : call'[u] = IF u = t THEN NoCall ELSE call[u]
  BY <1>3 DEF IInv, TypeOK
<1>5. \A r \in Sessions : /\ session'[r] = IF r = s THEN "voting" ELSE session[r]
                          /\ before'[r] = IF r = s THEN call[t].before ELSE before[r]
  BY <1>1 DEF IInv, TypeOK
<1>6. Committed' = Committed \union {s} /\ s \notin Committed
  BY <1>1, <1>5 DEF Committed, InState, States
<1>7. call[t] \in Calls /\ call[t].before \subseteq Committed
  BY DEF IInv, TypeOK, CallsKnow
<1>8. TypeOK'
  <2>1. session' \in [Sessions -> States \union {"none"}]
    BY <1>1 DEF IInv, TypeOK, States
  <2>2. before' \in [Sessions -> SUBSET Sessions]
    BY <1>1, <1>7 DEF IInv, TypeOK, Committed, InState
  <2>3. call' \in [Tasks -> Calls]
    BY <1>3, NoCallType DEF IInv, TypeOK
  <2> QED
    BY <1>2, <1>3, <2>1, <2>2, <2>3 DEF IInv, TypeOK
<1>9. CallsKnow'
  <2> SUFFICES ASSUME NEW u \in Tasks, u # t
               PROVE  /\ call[u].before \subseteq Committed'
                      /\ call[u].at = "create" => \A r \in call[u].before : session'[r] # "voting"
                      /\ call[u].at \in OnSession =>
                           /\ call[u].session \in Committed'
                           /\ call[u].read \in States \ {"cancelled"}
                           /\ call[u].result \in States \ {"voting"}
    BY <1>4, NoCallType DEF CallsKnow, OnSession
  <2>1. call[u].before \subseteq Committed
    BY DEF IInv, CallsKnow
  <2>2. \A r \in call[u].before : r \in Sessions /\ r # s
    BY <2>1, <1>6 DEF Committed, InState
  <2> QED
    BY <2>1, <2>2, <1>5, <1>6 DEF IInv, CallsKnow
<1>10. Histories'
  BY <1>2, <1>5, <1>6, <1>7 DEF IInv, Histories
<1>11. VotesMeetOnlyByRace'
  <2> SUFFICES ASSUME NEW p \in Sessions, NEW q \in Sessions,
                      session'[p] = "voting", session'[q] = "voting"
               PROVE  p \notin before'[q]
    BY DEF VotesMeetOnlyByRace, InState
  <2>1. CASE p = s
    BY <2>1, <1>5, <1>6, <1>7 DEF IInv, Histories
  <2>2. CASE p # s /\ q = s
    BY <2>2, <1>2, <1>5 DEF IInv, CallsKnow
  <2>3. CASE p # s /\ q # s
    BY <2>3, <1>5 DEF IInv, VotesMeetOnlyByRace, InState
  <2> QED
    BY <2>1, <2>2, <2>3
<1>12. InTurn'
  <2> SUFFICES ASSUME ~overlapped' PROVE InTurn'
    BY DEF InTurn
  <2>1. \A u \in Tasks \ {t} : call[u].at = "none"
    BY <1>2 DEF IInv, InTurn
  <2>2. \A u \in Tasks : call'[u].at = "none"
    BY <2>1, <1>4, NoCallType
  <2>3. \A r \in Sessions : r < s => r \in failed \/ session[r] = "cancelled"
    <3> SUFFICES ASSUME NEW r \in Sessions, r < s
                 PROVE  r \in failed \/ session[r] = "cancelled"
      OBVIOUS
    <3>1. session[r] # "none" /\ session[r] \in States \union {"none"} /\ Active = {}
      BY <1>1, <1>2 DEF IInv, TypeOK, InTurn
    <3>2. session[r] \in {"cancelled", "download_failed"}
      BY <3>1 DEF Active, InState
    <3> QED
      BY <3>2 DEF IInv, Histories
  <2>4. \A r, q \in Sessions :
          r < q /\ session'[q] # "none" => r \in failed' \/ session'[r] = "cancelled"
    <3> SUFFICES ASSUME NEW r \in Sessions, NEW q \in Sessions, r < q, session'[q] # "none"
                 PROVE  r \in failed \/ session'[r] = "cancelled"
      BY <1>2
    <3>1. CASE q = s
      BY <3>1, <2>3, <1>5 DEF Sessions
    <3>2. CASE q # s /\ r = s
      <4>1. session[q] # "none" /\ s < q
        BY <3>2, <1>5
      <4> QED
        BY <4>1, <1>1, <1>2 DEF IInv, InTurn, Histories, TypeOK
    <3>3. CASE q # s /\ r # s
      BY <3>3, <1>2, <1>5 DEF IInv, InTurn
    <3> QED
      BY <3>1, <3>2, <3>3
  <2>5. TwoAtMost'
    <3>1. Active = {}
      BY <1>2 DEF IInv, InTurn
    <3>2. Active' \subseteq {s}
      BY <3>1, <1>5 DEF Active, InState
    <3> QED
      BY <3>2 DEF TwoAtMost
  <2> QED
    BY <2>2, <2>4, <2>5 DEF InTurn, OnSession
<1> QED
  BY <1>3, <1>8, <1>9, <1>10, <1>11, <1>12 DEF IInv

\* The state written is never "voting", and without overlap never over a
\* cancelled session.
LEMMA CallCommits ==
  ASSUME IInv, NEW t \in Tasks, commit(t)
  PROVE  IInv'
<1> DEFINE s == call[t].session
           result == call[t].result
<1>1. /\ s \in Sessions /\ session[s] # "none" /\ s \in Committed
      /\ call[t].read \in States \ {"cancelled"} /\ result \in States \ {"voting"}
  BY DEF IInv, CallsKnow, commit, OnSession, Committed, InState, States
<1>2. ends(t, TRUE) /\ call[t].at = "commit" /\ UNCHANGED <<overlapped, before>>
  BY DEF commit
<1>3. /\ call' = [call EXCEPT ![t] = NoCall]
      /\ users' \in [Members -> 0..1]
      /\ InsertsAlone'
  BY <1>2, EndsUsers
<1>4. \A u \in Tasks : call'[u] = IF u = t THEN NoCall ELSE call[u]
  BY <1>3 DEF IInv, TypeOK
<1>5. /\ \A r \in Sessions \ {s} : session'[r] = session[r]
      /\ session'[s] \in {session[s], result}
      /\ session' \in [Sessions -> States \union {"none"}]
  BY <1>1 DEF commit, IInv, TypeOK
<1>6. /\ failed \subseteq failed' /\ failed' \subseteq Sessions
      /\ result = "download_failed" => s \in failed'
  BY <1>1 DEF commit, IInv, TypeOK
<1> HIDE DEF s, result
<1>7. Committed' = Committed
  BY <1>1, <1>5 DEF Committed, InState, States
<1>8. \A r \in Sessions : session'[r] = "voting" => session[r] = "voting"
  BY <1>1, <1>5
<1>9. TypeOK'
  BY <1>2, <1>3, <1>5, <1>6, NoCallType DEF IInv, TypeOK
<1>10. CallsKnow'
  <2>1. \A u \in Tasks : \A r \in call[u].before : r \in Sessions
    BY DEF IInv, CallsKnow, Committed, InState
  <2> QED
    BY <1>4, <1>7, <1>8, <2>1, NoCallType DEF IInv, CallsKnow, OnSession
<1>11. Histories'
  BY <1>2, <1>5, <1>6, <1>7 DEF IInv, Histories
<1>12. VotesMeetOnlyByRace'
  BY <1>2, <1>8 DEF IInv, VotesMeetOnlyByRace, InState
<1>13. InTurn'
  <2> SUFFICES ASSUME ~overlapped' PROVE InTurn'
    BY DEF InTurn
  <2>1. \A u \in Tasks : call'[u].at = "none"
    BY <1>2, <1>4, NoCallType DEF IInv, InTurn
  <2>2. session[s] # "cancelled"
    BY <1>1, <1>2 DEF IInv, InTurn, OnSession, s
  <2>3. \A r, q \in Sessions :
          r < q /\ session'[q] # "none" => r \in failed' \/ session'[r] = "cancelled"
    <3>1. \A r \in Sessions : session[r] = "cancelled" => session'[r] = "cancelled"
      BY <2>2, <1>5
    <3>2. \A q \in Sessions : session'[q] # "none" => session[q] # "none"
      BY <1>1, <1>5
    <3> QED
      BY <3>1, <3>2, <1>2, <1>6 DEF IInv, InTurn
  <2>4. TwoAtMost'
    <3>1. \A r \in Sessions \ {s} : (r \in Active' <=> r \in Active) /\ (r \in Failing' <=> r \in Failing)
      BY <1>5 DEF Active, Failing, InState
    <3>2. Active \subseteq Sessions /\ Active' \subseteq Sessions /\ Failing' \subseteq Sessions
      BY DEF Active, Failing, InState
    <3>3. TwoAtMost
      BY <1>2 DEF IInv, InTurn
    <3>4. CASE session'[s] = session[s]
      <4>1. Active' = Active /\ Failing' = Failing
        BY <3>4, <1>5 DEF Active, Failing, InState
      <4> QED
        BY <3>3, <4>1 DEF TwoAtMost
    <3>5. CASE session[s] = "download_failed" /\ session'[s] # session[s]
      <4>1. Failing = {s}
        BY <3>5, <1>1, <1>2 DEF IInv, InTurn, OnSession, s
      <4>2. s \notin Active /\ Failing' = {}
        BY <3>1, <3>2, <3>5, <4>1 DEF Active, Failing, InState
      <4>3. \A p, q \in Active : p = q
        BY <3>3, <4>1 DEF TwoAtMost
      <4>4. \A p, q, r \in Active' : p = q \/ q = r \/ r = p
        BY <3>1, <3>2, <4>3
      <4> QED
        BY <4>2, <4>4 DEF TwoAtMost
    <3>6. CASE session[s] # "download_failed" /\ session'[s] # session[s]
      <4>1. s \in Active
        BY <1>1, <2>2, <3>6 DEF Active, InState, IInv, TypeOK
      <4>2. Active' \subseteq Active
        BY <3>1, <3>2, <4>1
      <4>3. s \in Failing' => s \notin Active'
        BY DEF Active, Failing, InState
      <4>4. \A p, q \in Active' : p # q => Failing' = {}
        BY <3>1, <3>2, <3>3, <4>1, <4>2, <4>3 DEF TwoAtMost
      <4> QED
        BY <3>3, <4>2, <4>4 DEF TwoAtMost
    <3> QED
      BY <3>4, <3>5, <3>6
  <2> QED
    BY <2>1, <2>3, <2>4 DEF InTurn, OnSession
<1> QED
  BY <1>3, <1>9, <1>10, <1>11, <1>12, <1>13 DEF IInv

------------------------------------------------------------------------------
LEMMA StepInvariant == IInv /\ [Next]_vars => IInv'
<1> SUFFICES ASSUME IInv, [Next]_vars PROVE IInv'
  OBVIOUS
<1>1. CASE Next
  <2>1. PICK t \in Tasks : Command(t) \/ Step(t)
    BY <1>1 DEF Next
  <2>2. CASE Command(t)
    BY <2>2, VoteBegins, CommandBegins, LinkProvided DEF Command
  <2>3. CASE Step(t)
    BY <2>3, UserInserted, VoteChecked, SessionCreated, DownloadGoesOn, CallFails, CallCommits
       DEF Step
  <2> QED
    BY <2>1, <2>2, <2>3
<1>2. CASE UNCHANGED vars
  BY <1>2 DEF vars, IInv, TypeOK, CallsKnow, InsertsAlone, Histories, VotesMeetOnlyByRace, InTurn,
              TwoAtMost, Failing, Committed, Active, InState
<1> QED
  BY <1>1, <1>2

\* The inductive invariant holds in every behaviour.
THEOREM Invariant == Spec => []IInv
BY InitInvariant, StepInvariant, PTL DEF Spec

\* However calls overlap, columns and calls keep their types, and no member
\* ever has a second row in users.
THEOREM TypeCorrect == Spec => []TypeOK
BY Invariant, PTL DEF IInv

\* Two votes of one chat are open at once only when neither /vote could have
\* seen the other's session.
THEOREM VotesMeet == Spec => []VotesMeetOnlyByRace
BY Invariant, PTL DEF IInv

\* Served in turn, a chat gets a second active session only by taking up an
\* older one whose download had failed, and never a third.
THEOREM SecondActive == Spec => []SecondActiveIsRevived
<1>1. IInv => SecondActiveIsRevived
  <2> SUFFICES ASSUME IInv, ~overlapped PROVE SecondActiveIsRevived
    BY DEF SecondActiveIsRevived
  <2>1. \A r \in Active : r \in Sessions /\ session[r] \notin {"cancelled", "none"}
    BY DEF Active, InState, States
  <2>2. \A r, s \in Active : r < s => r \in failed
    BY <2>1 DEF IInv, InTurn
  <2> QED
    BY <2>2 DEF IInv, InTurn, TwoAtMost, SecondActiveIsRevived
<1> QED
  BY <1>1, Invariant, PTL
==============================================================================
