-------------------------------- MODULE Devices -------------------------------
(***************************************************************************)
(* The row of one TV in tv_devices: the agent registers it, every request  *)
(* of the agent refreshes it, and a watchdog marks it offline when it has  *)
(* been silent for too long.                                               *)
(*                                                                         *)
(* A request reads the row, decides, and commits later; its UPDATE carries *)
(* the columns that differ from what it read.  Other requests and the      *)
(* watchdog go on in between.  Time passes in units of a heartbeat         *)
(* interval, and times are kept as ages.                                   *)
(***************************************************************************)
EXTENDS Integers

CONSTANTS
  Requests,       \* requests the API serves at once
  Hosts,          \* hostnames the agent may be configured with
  NoToken,        \* an agent that was not given its token yet
  NoDevice,       \* no row
  Threshold,      \* the watchdog's threshold, in units of time
  KeywordLogging, \* log calls accept keyword fields; logging.Logger does not
  FactoryReady    \* db.session.async_session_maker is assigned; the code does not

ASSUME NoTokenIsNoToken == NoToken \notin Requests
ASSUME ThresholdIsNat == Threshold \in Nat
ASSUME SomeHost == Hosts # {}
ASSUME KeywordLoggingIsBoolean == KeywordLogging \in BOOLEAN
ASSUME FactoryReadyIsBoolean == FactoryReady \in BOOLEAN

VARIABLES
  device,       \* the row, as committed
  call,         \* per request: where it is, and what it has read or will write
  watchdog,     \* the watchdog has selected the row and not committed yet
  answers,      \* tokens that register answered with
  agent_token,  \* the token in the agent's configuration
  crossed,      \* history: requests under way that a run of the watchdog has overlapped
  raced         \* history: the request that wrote the row last was one of these

vars == <<device, call, watchdog, answers, agent_token, crossed, raced>>

\* The watchdog tells ages apart up to the first that is stale.
Ages  == 0..Threshold + 1
Stale == Threshold + 1

\* A token is named for the request that made it.
Devices == [status : {"online", "offline"}, age : Ages, token : Requests, hostname : Hosts]

ASSUME NoDeviceIsNoDevice == NoDevice \notin Devices

Calls == [op : {"none", "register", "heartbeat", "other"},
          at : {"none", "begun", "commit", "merge", "merge_commit", "exit"},
          status : {"none", "online", "offline"}, age : Ages,
          hostname : Hosts, renames : BOOLEAN]

NoCall == [op |-> "none", at |-> "none", status |-> "none", age |-> 0,
           hostname |-> CHOOSE h \in Hosts : TRUE, renames |-> FALSE]

Init ==
  /\ device = NoDevice
  /\ call = [r \in Requests |-> NoCall]
  /\ watchdog = FALSE
  /\ answers = {} /\ agent_token = NoToken
  /\ crossed = {} /\ raced = FALSE

At(r, op, at) == call[r].op = op /\ call[r].at = at

Goes(r, at) == /\ call' = [call EXCEPT ![r].at = at]
               /\ UNCHANGED crossed

Ends(r) == /\ call' = [call EXCEPT ![r] = NoCall]
           /\ crossed' = crossed \ {r}

\* A request that reads the row while the watchdog is at it overlaps it.
Reads(r) == crossed' = IF watchdog THEN crossed \union {r} ELSE crossed

\* Mutant: the device is not marked online.
refreshed_only(c) == [device EXCEPT !.age = c.age]

\* The row after the UPDATE of a request: the new time, and of the other
\* columns those that differ from what it read.
refreshed(c) ==
  [device EXCEPT !.age = c.age,
                 !.status = IF c.status = "online" THEN device.status ELSE "online",
                 !.hostname = IF c.renames THEN c.hostname ELSE device.hostname]

------------------------------------------------------------------------------
\* POST /register, with the hostname of the agent's configuration.
register(r, h) ==
  /\ call[r].at = "none"
  /\ call' = [call EXCEPT ![r] =
       [op |-> "register", at |-> "commit", age |-> 0, hostname |-> h,
        status |-> IF device = NoDevice THEN "none" ELSE device.status,
        renames |-> device # NoDevice /\ device.hostname # h]]
  /\ Reads(r)
  /\ UNCHANGED <<device, watchdog, answers, agent_token, raced>>

\* Its log call comes between the commit and the answer.
answered(token) == answers' = IF KeywordLogging THEN answers \union {token} ELSE answers

register_update(r) ==
  /\ At(r, "register", "commit") /\ call[r].status # "none"
  /\ device' = refreshed(call[r]) /\ raced' = (r \in crossed)
  /\ answered(device.token)
  /\ Ends(r)
  /\ UNCHANGED <<watchdog, agent_token>>

\* Mutant: leaves the status to the column's default.
register_insert_pending(r) ==
  /\ At(r, "register", "commit") /\ call[r].status = "none"
  /\ device = NoDevice
  /\ device' = [status |-> "pending", age |-> call[r].age, token |-> r,
                hostname |-> call[r].hostname]
  /\ raced' = (r \in crossed)
  /\ answered(r)
  /\ Ends(r)
  /\ UNCHANGED <<watchdog, agent_token>>

\* Mutant: there is no unique constraint, and the row of the last one is found.
register_insert_again(r) ==
  /\ At(r, "register", "commit") /\ call[r].status = "none"
  /\ device' = [status |-> "online", age |-> call[r].age, token |-> r,
                hostname |-> call[r].hostname]
  /\ raced' = (r \in crossed)
  /\ answered(r)
  /\ Ends(r)
  /\ UNCHANGED <<watchdog, agent_token>>

\* The row read as missing is inserted with a new token; device_id is unique,
\* and an INSERT that comes second fails.
register_insert(r) ==
  /\ At(r, "register", "commit") /\ call[r].status = "none"
  /\ \/ /\ device = NoDevice
        /\ device' = [status |-> "online", age |-> call[r].age, token |-> r,
                      hostname |-> call[r].hostname]
        /\ raced' = (r \in crossed)
        /\ answered(r)
     \/ device # NoDevice /\ UNCHANGED <<device, answers, raced>>
  /\ Ends(r)
  /\ UNCHANGED <<watchdog, agent_token>>

\* The agent ignores the answer: somebody writes the token into its configuration.
configure_token(token) ==
  /\ token \in answers
  /\ agent_token' = token
  /\ UNCHANGED <<device, call, watchdog, answers, crossed, raced>>

------------------------------------------------------------------------------
\* A request with the agent's token: /heartbeat, or another (/poll, /report,
\* /media_index), which does nothing more to the row.
request(r, op) ==
  /\ call[r].at = "none"
  /\ call' = [call EXCEPT ![r].op = op, ![r].at = "begun"]
  /\ UNCHANGED <<device, watchdog, answers, agent_token, crossed, raced>>

\* verify_agent_token finds the row by its token, or answers 401.
verify_agent_token(r) ==
  /\ call[r].at = "begun"
  /\ \/ /\ device # NoDevice /\ device.token = agent_token
        /\ call' = [call EXCEPT ![r].at = "commit", ![r].status = device.status,
                                ![r].hostname = device.hostname, ![r].age = 0]
        /\ Reads(r)
     \/ /\ device # NoDevice => device.token # agent_token
        /\ Ends(r)
  /\ UNCHANGED <<device, watchdog, answers, agent_token, raced>>

\* It commits.  /heartbeat then stamps the device again, with the session of
\* the dependency, and merges it into a session of its own.
verify_commit(r) ==
  /\ call[r].op # "register" /\ call[r].at = "commit"
  /\ device' = refreshed(call[r]) /\ raced' = (r \in crossed)
  /\ IF call[r].op = "heartbeat"
       THEN call' = [call EXCEPT ![r].at = "merge", ![r].age = 0] /\ UNCHANGED crossed
       ELSE Ends(r)
  /\ UNCHANGED <<watchdog, answers, agent_token>>

\* merge loads the row, and copies to it what the device has: the hostname is
\* the one that verify_agent_token had read.
heartbeat_merge(r) ==
  /\ At(r, "heartbeat", "merge")
  /\ call' = [call EXCEPT ![r].at = "merge_commit", ![r].status = device.status,
                          ![r].renames = (device.hostname # call[r].hostname)]
  /\ UNCHANGED <<device, watchdog, answers, agent_token, crossed, raced>>

heartbeat_commit(r) ==
  /\ At(r, "heartbeat", "merge_commit")
  /\ device' = refreshed(call[r]) /\ raced' = (r \in crossed)
  /\ Goes(r, "exit")
  /\ UNCHANGED <<watchdog, answers, agent_token>>

\* At last the dependency's session commits the time it has been given.
heartbeat_exit(r) ==
  /\ At(r, "heartbeat", "exit")
  /\ device' = [device EXCEPT !.age = call[r].age] /\ raced' = (r \in crossed)
  /\ Ends(r)
  /\ UNCHANGED <<watchdog, answers, agent_token>>

------------------------------------------------------------------------------
\* Requests that have read the row, or are about to insert it.
UnderWay == {r \in Requests : call[r].at \notin {"none", "begun"}}

\* Mutant: selects the devices that are online, however old their last request.
check_agent_heartbeats_any ==
  /\ ~watchdog /\ FactoryReady /\ KeywordLogging
  /\ device # NoDevice /\ device.status = "online"
  /\ watchdog' = TRUE
  /\ crossed' = UnderWay
  /\ UNCHANGED <<device, call, answers, agent_token, raced>>

\* check_agent_heartbeats_job: without a session factory it returns, and the log
\* call that follows the assignment comes before the commit.
check_agent_heartbeats ==
  /\ ~watchdog /\ FactoryReady /\ KeywordLogging
  /\ device # NoDevice /\ device.status = "online" /\ device.age = Stale
  /\ watchdog' = TRUE
  /\ crossed' = UnderWay
  /\ UNCHANGED <<device, call, answers, agent_token, raced>>

\* Its UPDATE finds the row by its key and looks at nothing else.
check_agent_heartbeats_commit ==
  /\ watchdog
  /\ device' = [device EXCEPT !.status = "offline"]
  /\ watchdog' = FALSE
  /\ UNCHANGED <<call, answers, agent_token, crossed, raced>>

Older(age) == IF age = Stale THEN Stale ELSE age + 1

Tick ==
  /\ call' = [r \in Requests |->
                IF call[r].at \in {"none", "begun"} THEN call[r]
                  ELSE [call[r] EXCEPT !.age = Older(@)]]
  /\ device' = IF device = NoDevice THEN NoDevice ELSE [device EXCEPT !.age = Older(@)]
  /\ UNCHANGED <<watchdog, answers, agent_token, crossed, raced>>

------------------------------------------------------------------------------
Served(r) ==
  \/ register_update(r) \/ register_insert(r)
  \/ verify_agent_token(r) \/ verify_commit(r)
  \/ heartbeat_merge(r) \/ heartbeat_commit(r) \/ heartbeat_exit(r)

Next ==
  \/ \E r \in Requests :
       \/ \E h \in Hosts : register(r, h)
       \/ \E op \in {"heartbeat", "other"} : request(r, op)
       \/ Served(r)
  \/ \E token \in answers : configure_token(token)
  \/ check_agent_heartbeats \/ check_agent_heartbeats_commit
  \/ Tick

Spec == Init /\ [][Next]_vars

\* Requests are served and time passes.  Nothing in the repository schedules the
\* watchdog's job, so nothing makes it run.
Fairness ==
  /\ \A r \in Requests : WF_vars(Served(r))
  /\ WF_vars(check_agent_heartbeats_commit)
  /\ WF_vars(Tick)

FairSpec == Spec /\ Fairness

------------------------------------------------------------------------------
\* Row, requests, tokens and ages are of their kinds.
TypeOK ==
  /\ device \in Devices \union {NoDevice}
  /\ call \in [Requests -> Calls]
  /\ watchdog \in BOOLEAN
  /\ answers \subseteq Requests
  /\ agent_token \in Requests \union {NoToken}
  /\ crossed \subseteq Requests /\ raced \in BOOLEAN

\* Two agents, or an agent started twice, may register a new TV at once: a token
\* that was answered is the row's, and lets the agent in for good.
AgentIsLetIn == \A token \in answers : device # NoDevice /\ device.token = token

\* The watchdog commits what it decided earlier, and a request writes a status
\* only where it differs from what it read.  A device that is offline although it
\* has been heard in time was heard last by a request that a run of the watchdog
\* overlapped, and in no other way.
OfflineIsSilent ==
  device # NoDevice /\ device.status = "offline" /\ device.age # Stale => raced

\* A device that is offline, also by a watchdog that came too late, is online
\* again by the agent's next request.
SpeakingGoesOnline ==
  \A r \in Requests :
    (/\ call[r].at = "begun"
     /\ device # NoDevice /\ device.token = agent_token /\ device.status = "offline") ~>
      (device # NoDevice /\ device.status = "online")

------------------------------------------------------------------------------
(* What the code's words promise and the code does not keep.                *)

\* api/routers/agent.py:280: "agents that haven't sent heartbeat recently".
OfflineWasStale ==
  [][device # NoDevice /\ device.status = "online" /\ device'.status = "offline" =>
       device.age = Stale]_vars

\* services/scheduler_jobs.py:65: "Job: check for stale agent heartbeats."  An
\* agent that falls silent is offline in the end: nothing runs the job.
SilentGoesOffline ==
  <>[](\A r \in Requests : call[r].at = "none") =>
    <>[](device # NoDevice => device.status = "offline")

\* api/routers/agent.py:137: the row has the hostname it was registered with.
HostnameIsRegistered ==
  [][device # NoDevice /\ device'.hostname # device.hostname =>
       \E r \in Requests : call[r].op = "register" /\ call'[r].op = "none"]_vars
==============================================================================
