---------------------------- MODULE AgentCommands ----------------------------
(***************************************************************************)
(* Commands on their way from the backend to the agent of one TV: queued   *)
(* in the memory of the API process, polled by number, executed one after  *)
(* the other, and taken off the queue when a report names their number.    *)
(*                                                                         *)
(* The agent's requests may fail, its reports may arrive late or never,    *)
(* and either process may stop and be started again with its memory gone.  *)
(* VLC is what the agent's controller knows of the process it launched.    *)
(***************************************************************************)
EXTENDS Integers, Sequences

CONSTANTS
  MaxIssued,      \* bound: commands queued in one behaviour
  PlaybackIds,    \* playback_command_id values START_PLAYBACK is queued with
  BackendStops,   \* the API process may be stopped and started again
  AgentStops,     \* the agent's process may be stopped and started again
  KeywordLogging  \* log calls accept keyword fields; logging.Logger does not

ASSUME MaxIssuedIsNat == MaxIssued \in Nat
ASSUME PlaybackIdsArePositive == PlaybackIds \subseteq Nat \ {0}
ASSUME AgentModes ==
  BackendStops \in BOOLEAN /\ AgentStops \in BOOLEAN /\ KeywordLogging \in BOOLEAN

VARIABLES
  counter,          \* _command_counter of the API process
  queue,            \* the device's list in _command_queues, ordered by id
  up,               \* the agent polls: run has got past register
  last_command_id,  \* TVAgent._last_command_id
  batch,            \* commands of the last poll response still to be executed
  waiting,          \* the command whose VLCController.play has not returned yet
  vlc,              \* VLCController: current_command_id and its process
  network,          \* reports sent and not received: on their way, or lost
  issued,           \* history: how many commands were queued; names the next one
  life,             \* history: commands begun since the agent's start, in order
  before,           \* history: commands begun before that
  played            \* history: playback numbers VLC was launched under

backend == <<counter, queue, issued>>
memory  == <<up, last_command_id, batch, waiting, vlc, life, before, played>>
vars    == <<backend, memory, network>>

Types == {"start_playback", "play", "stop", "other"}

Commands ==
  [id : Nat, type : {"start_playback"}, playback_command_id : PlaybackIds, ticket : Nat]
    \union [id : Nat, type : Types \ {"start_playback"}, playback_command_id : {0},
            ticket : Nat]

\* All reports look alike to the backend: a number, and whether it went well.
Reports == [command_id : Nat, success : BOOLEAN]

NoVlc == [current_command_id |-> 0, process |-> "none"]

Begun == {life[i] : i \in DOMAIN life}

Greater(m, n) == IF m < n THEN n ELSE m

InitBackend ==
  /\ counter = 0
  /\ queue = {}
  /\ issued = 0

InitAgent ==
  /\ up = FALSE
  /\ last_command_id = 0
  /\ batch = {} /\ waiting = {}
  /\ vlc = NoVlc
  /\ life = <<>> /\ before = {} /\ played = {}

Init == InitBackend /\ InitAgent /\ network = {}

------------------------------------------------------------------------------
(* The backend.                                                             *)

\* Mutant: numbers a command by its place in the queue.
add_command_by_place(type, p) ==
  /\ issued < MaxIssued
  /\ counter' = counter + 1
  /\ issued' = issued + 1
  /\ queue' = queue \union {[id |-> IF queue = {} THEN 1 ELSE counter + 1, type |-> type,
                             playback_command_id |-> p, ticket |-> issued + 1]}
  /\ UNCHANGED <<memory, network>>

\* Mutant: queues START_PLAYBACK without the number it is to be reported with.
add_command_unnumbered(type, p) ==
  /\ issued < MaxIssued
  /\ counter' = counter + 1
  /\ issued' = issued + 1
  /\ queue' = queue \union {[id |-> counter + 1, type |-> type,
                             playback_command_id |-> 0, ticket |-> issued + 1]}
  /\ UNCHANGED <<memory, network>>

\* _add_command, by whichever queue_..._command function.
add_command(type, p) ==
  /\ issued < MaxIssued  \* bound: MaxIssued
  /\ counter' = counter + 1
  /\ issued' = issued + 1
  /\ queue' = queue \union {[id |-> counter + 1, type |-> type,
                             playback_command_id |-> p, ticket |-> issued + 1]}
  /\ UNCHANGED <<memory, network>>

queue_command ==
  \/ \E p \in PlaybackIds : add_command("start_playback", p)
  \/ \E type \in Types \ {"start_playback"} : add_command(type, 0)

\* Mutant: takes off what was queued up to the number reported and one more.
report_result_off_by_one(r) ==
  /\ r \in network
  /\ network' = network \ {r}
  /\ queue' = {c \in queue : c.id > r.command_id + 1}
  /\ UNCHANGED <<counter, issued, memory>>

\* POST /report.  Its log call comes before the removal.
report_result(r) ==
  /\ r \in network
  /\ network' = network \ {r}
  /\ queue' = IF KeywordLogging THEN {c \in queue : c.id # r.command_id} ELSE queue
  /\ UNCHANGED <<counter, issued, memory>>

restart_backend ==
  /\ BackendStops
  /\ counter' = 0
  /\ queue' = {}
  /\ UNCHANGED <<issued, memory, network>>

------------------------------------------------------------------------------
(* The agent.                                                               *)

report(id, success) == [command_id |-> id, success |-> success]

\* Mutant: asks for the command it has just executed once more.
poll_commands_from_last ==
  /\ up /\ batch = {} /\ waiting = {}
  /\ batch' = {c \in queue : c.id >= last_command_id}
  /\ UNCHANGED <<backend, network, up, last_command_id, waiting, vlc, life, before, played>>

\* GET /poll.  A request that fails, or finds nothing new, changes nothing.
poll_commands ==
  /\ up /\ batch = {} /\ waiting = {}
  /\ batch' = {c \in queue : c.id > last_command_id}
  /\ UNCHANGED <<backend, network, up, last_command_id, waiting, vlc, life, before, played>>

\* VLCController.play up to where it waits: whatever played is stopped, and
\* VLC is launched under the number playback is to be reported with.  When the
\* launch fails the command's failure is reported, and so it is when there is
\* no path to play, with nothing stopped.
play(c) ==
  LET starts == c.type = "start_playback"
      id == IF starts THEN c.playback_command_id ELSE c.id
      launched(process) ==
        vlc' = [current_command_id |-> id, process |-> process]
      failed == network' = network \union {report(c.id, FALSE)} IN
  \/ /\ launched("launched")
     /\ played' = IF starts THEN played \union {id} ELSE played
     /\ waiting' = {c}
     /\ UNCHANGED network
  \/ launched("none") /\ failed /\ UNCHANGED <<waiting, played>>
  \/ failed /\ UNCHANGED <<vlc, waiting, played>>

\* VLCController.stop: a VLC that was launched is forgotten with its number.
stop == vlc' = IF vlc.process = "none" THEN vlc ELSE NoVlc

\* Pause, seek and volume always fail, the index and the status may be sent:
\* what playback depends on stays as it is.
other(c) ==
  /\ \E success \in BOOLEAN : network' = network \union {report(c.id, success)}
  /\ UNCHANGED <<vlc, waiting, played>>

\* One turn of the loop over a poll response.
execute_command(c) ==
  /\ up /\ waiting = {}
  /\ c \in batch
  /\ \A d \in batch : c.id <= d.id
  /\ last_command_id' = Greater(last_command_id, c.id)
  /\ batch' = batch \ {c}
  /\ life' = Append(life, c.ticket)
  /\ \/ c.type \in {"start_playback", "play"} /\ play(c)
     \/ /\ c.type = "stop"
        /\ stop
        /\ network' = network \union {report(c.id, TRUE)}
        /\ UNCHANGED <<waiting, played>>
     \/ c.type = "other" /\ other(c)
  /\ UNCHANGED <<backend, up, before>>

\* Mutant: waits for the start of playback without a limit.
play_returns_started ==
  \E c \in waiting :
    /\ vlc.process = "started"
    /\ waiting' = {}
    /\ network' = network \union {report(c.id, TRUE)}
    /\ UNCHANGED <<backend, up, last_command_id, batch, vlc, life, before, played>>

\* play returns: playback has started, or ten seconds have passed.
play_returns ==
  \E c \in waiting, success \in BOOLEAN :
    /\ success <=> vlc.process = "started"
    /\ waiting' = {}
    /\ network' = network \union {report(c.id, success)}
    /\ UNCHANGED <<backend, up, last_command_id, batch, vlc, life, before, played>>

\* _report_playback_started and _report_playback_ended.
report_playback ==
  network' = IF vlc.current_command_id = 0 THEN network
             ELSE network \union {report(vlc.current_command_id, TRUE)}

\* _monitor_process reads that playback has started.
playback_started ==
  /\ vlc.process = "launched"
  /\ vlc' = [vlc EXCEPT !.process = "started"]
  /\ report_playback
  /\ UNCHANGED <<backend, up, last_command_id, batch, waiting, life, before, played>>

\* VLC ends by itself.  The monitor may see its output end before it sees the
\* process end, and then reports nothing.
playback_ended ==
  /\ vlc.process \in {"launched", "started"}
  /\ vlc' = [vlc EXCEPT !.process = "exited"]
  /\ report_playback \/ UNCHANGED network
  /\ UNCHANGED <<backend, up, last_command_id, batch, waiting, life, before, played>>

\* The POST succeeds or fails; either is logged, by a call that may raise.
register == KeywordLogging

\* The agent registers once, whatever comes of it, and begins to poll.
start_agent ==
  /\ ~up
  /\ register
  /\ up' = TRUE
  /\ UNCHANGED <<backend, network, last_command_id, batch, waiting, vlc, life, before, played>>

\* Shut down, or killed: a VLC that plays on is not known to the next agent.
stop_agent ==
  /\ AgentStops /\ up
  /\ up' = FALSE
  /\ last_command_id' = 0
  /\ batch' = {} /\ waiting' = {} /\ vlc' = NoVlc
  /\ before' = before \union Begun
  /\ life' = <<>>
  /\ UNCHANGED <<backend, network, played>>

Next ==
  \/ queue_command
  \/ \E r \in network : report_result(r)
  \/ restart_backend
  \/ poll_commands
  \/ \E c \in batch : execute_command(c)
  \/ play_returns
  \/ playback_started
  \/ playback_ended
  \/ start_agent
  \/ stop_agent

Spec == Init /\ [][Next]_vars

\* The agent's own loop: it is started, polls every few seconds, and neither
\* its requests nor its commands wait without a limit.
Fairness ==
  /\ WF_vars(start_agent)
  /\ WF_vars(poll_commands)
  /\ WF_vars(\E c \in batch : execute_command(c))
  /\ WF_vars(play_returns)

FairSpec == Spec /\ Fairness

------------------------------------------------------------------------------
\* Queue, agent and network hold commands and reports.
TypeOK ==
  /\ counter \in Nat /\ issued \in Nat /\ last_command_id \in Nat
  /\ queue \subseteq Commands /\ batch \subseteq Commands /\ waiting \subseteq Commands
  /\ up \in BOOLEAN
  /\ vlc \in [current_command_id : Nat, process : {"none", "launched", "started", "exited"}]
  /\ network \subseteq Reports
  /\ life \in Seq(Nat) /\ before \subseteq Nat /\ played \subseteq PlaybackIds

\* From one start to the next the agent executes commands in the order in
\* which they were queued, and none twice: also when reports are lost or late,
\* and when the backend has started over with its numbers in between.
InOrderOnce == \A i, j \in DOMAIN life : i < j => life[i] < life[j]

\* A command the agent has not taken up is one the next poll returns.
UnfetchedIsPollable ==
  \A c \in queue : c.ticket \in Begun \/ c \in batch \/ c.id > last_command_id

\* A command leaves the queue only after the agent has begun to execute it,
\* whatever reports arrive and however late, or when its number is also the one
\* of a playback: reports of that name the playback's number.
KeptUntilBegun ==
  \A t \in 1..issued :
    (\E c \in queue : c.ticket = t) \/ t \in Begun \union before \union played

\* Every command is executed, however many reports are lost, unless it shares
\* its number with a playback.
CommandsAreExecuted ==
  \A t \in 1..MaxIssued : (issued >= t) ~> (t \in Begun \union played)

------------------------------------------------------------------------------
(* What the code's words promise and the code does not keep.                *)

\* docs/issues.md 4.2: commands are idempotent; polling again repeats nothing.
CommandsExecutedOnce == Begun \intersect before = {}

\* api/routers/agent.py:190: "Report command execution result."  The report of a
\* playback takes another command off the queue, which is never executed.
OnlyExecutedLeave ==
  \A t \in 1..issued : (\E c \in queue : c.ticket = t) \/ t \in Begun \union before

\* agent/main.py:466: a play that is reported as failed is not playing.
FailedPlayIsOver ==
  \A r \in network :
    (~r.success /\ r.command_id = vlc.current_command_id) =>
      vlc.process \notin {"launched", "started"}

\* agent/main.py:3: the agent polls the backend for commands.
AgentPolls == <>up
==============================================================================
