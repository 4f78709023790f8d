----------------------------- MODULE VlcController ----------------------------
(***************************************************************************)
(* The agent's process on the TV's computer: the tasks that share one      *)
(* VLCController on asyncio's event loop, the VLC processes they launch,   *)
(* and what a signal does to them.  A step takes a task from one await to  *)
(* the next; in between any other task may go on.                          *)
(*                                                                         *)
(* A cancellation is thrown into a task at its await.  While the task      *)
(* waits for the monitor in VLCController.stop it is lost: it is passed on *)
(* to the monitor, which takes it for its own, or stop() swallows it.      *)
(***************************************************************************)
EXTENDS Integers, FiniteSets

CONSTANTS
  Poll,       \* the task of _poll_loop
  Shutdowns,  \* the tasks of shutdown, one for each signal
  MaxPlays    \* bound: play commands in one behaviour

ASSUME PollIsNoShutdown == Poll \notin Shutdowns
ASSUME MaxPlaysIsNat == MaxPlays \in Nat

Tasks == {Poll} \union Shutdowns
Plays == 1..MaxPlays  \* a play command, the VLC it launches and its monitor

VARIABLES
  vlc,      \* the controller's process, current_command_id, _monitor_task and
            \* _playback_started; 0 is None
  running,  \* running, of agent and controller
  at,       \* per task: the await it is at
  doing,    \* per task: what the stop() it waits in was called for
  waits,    \* per task: the process whose end that stop() waits for
  monitor,  \* per play: the await its _monitor_process is at
  heart,    \* the task of _heartbeat_loop
  main,     \* the task of main, and the process that ends after it
  issued,   \* how many play commands were begun
  alive,    \* VLC processes that run
  closed,   \* those that have closed their output
  told,     \* those that were told to terminate
  threads,  \* those some thread of the executor waits for
  playing,  \* history: VLC processes that have said that they play
  true,     \* history: plays that returned True
  reports   \* history: <<event, command_id, the monitor's play>> sent

tasks == <<at, doing, waits, heart, main>>
os    == <<alive, closed, told, playing>>
vars  == <<vlc, running, tasks, monitor, issued, os, threads, true, reports>>

TaskAwaits == {"none", "idle", "new", "stop_monitor", "stop_wait", "starting", "aclose",
               "cancelled", "over"}
MonitorAwaits == {"none", "new", "reading", "reporting", "ending", "cancelled", "done"}

Init ==
  /\ vlc = [process |-> 0, command |-> 0, monitor |-> 0, started |-> FALSE]
  /\ running = TRUE
  /\ at = [t \in Tasks |-> IF t = Poll THEN "idle" ELSE "none"]
  /\ doing = [t \in Tasks |-> "none"]
  /\ waits = [t \in Tasks |-> 0]
  /\ monitor = [k \in Plays |-> "none"]
  /\ heart = "on" /\ main = "gather"
  /\ issued = 0
  /\ alive = {} /\ closed = {} /\ told = {} /\ threads = {}
  /\ playing = {} /\ true = {} /\ reports = {}

\* The tasks ts are cancelled; a task that waits for the monitor does not see it.
Cancelled(ts) ==
  [t \in Tasks |->
     IF t \in ts /\ at[t] \notin {"none", "stop_monitor", "over"} THEN "cancelled" ELSE at[t]]

MonitorsCancelled(ks) ==
  [k \in Plays |->
     IF k \in ks /\ monitor[k] \notin {"none", "done"} THEN "cancelled" ELSE monitor[k]]

------------------------------------------------------------------------------
(* VLCController.  c is the controller as the step has left it so far, pcs  *)
(* the tasks' awaits, and call what stop() was called for.                  *)

\* play once stop() has returned: VLC is launched with its monitor, or fails.
launch(t, c, pcs) ==
  LET k == issued + 1
      asked == [c EXCEPT !.command = k, !.started = FALSE] IN
  /\ issued' = k
  /\ \/ /\ vlc' = [asked EXCEPT !.process = k, !.monitor = k]
        /\ alive' = alive \union {k}
        /\ monitor' = [monitor EXCEPT ![k] = "new"]
        /\ at' = [pcs EXCEPT ![t] = "starting"]
     \/ /\ vlc' = asked
        /\ at' = [pcs EXCEPT ![t] = "idle"]
        /\ UNCHANGED <<alive, monitor>>

stop_returns(t, call, c, pcs) ==
  /\ doing' = [doing EXCEPT ![t] = "none"]
  /\ waits' = [waits EXCEPT ![t] = 0]
  /\ \/ call = "play" /\ launch(t, c, pcs)
     \/ /\ call # "play"
        /\ vlc' = c
        /\ at' = [pcs EXCEPT ![t] = IF call = "stop" THEN "idle" ELSE "aclose"]
        /\ UNCHANGED <<alive, monitor, issued>>

\* Mutant: terminates also when there is no process.
stop_process_unguarded(t, call, pcs) ==
  /\ told' = told \union {vlc.process}
  /\ vlc' = [vlc EXCEPT !.monitor = 0]
  /\ doing' = [doing EXCEPT ![t] = call]
  /\ waits' = [waits EXCEPT ![t] = vlc.process]
  /\ threads' = threads \union {vlc.process}
  /\ at' = [pcs EXCEPT ![t] = "stop_wait"]
  /\ UNCHANGED <<alive, monitor, issued>>

\* stop() once the monitor is over: VLC, if there is one, is told to terminate.
\* That does not fail here: on POSIX terminate() of a child not yet reaped cannot,
\* and of a reaped one does nothing, so the branch for any other error is left out.
stop_process(t, call, pcs) ==
  LET c == [vlc EXCEPT !.monitor = 0] IN
  \/ /\ c.process # 0
     /\ vlc' = c
     /\ told' = told \union {c.process}
     /\ doing' = [doing EXCEPT ![t] = call]
     /\ waits' = [waits EXCEPT ![t] = c.process]
     /\ threads' = threads \union {c.process}
     /\ at' = [pcs EXCEPT ![t] = "stop_wait"]
     /\ UNCHANGED <<alive, monitor, issued>>
  \/ /\ c.process = 0
     /\ stop_returns(t, call, c, pcs)
     /\ UNCHANGED <<told, threads>>

\* Mutant: leaves the monitor as it is.
stop_not_monitor(t, call, pcs) == stop_process(t, call, pcs)

\* stop() from its beginning: the monitor, unless it is over, is cancelled and
\* awaited.
stop(t, call, pcs) ==
  LET k == vlc.monitor IN
  \/ /\ k # 0 /\ monitor[k] # "done"
     /\ monitor' = MonitorsCancelled({k})
     /\ doing' = [doing EXCEPT ![t] = call]
     /\ at' = [pcs EXCEPT ![t] = "stop_monitor"]
     /\ UNCHANGED <<vlc, waits, issued, alive, told, threads>>
  \/ /\ k # 0 => monitor[k] = "done"
     /\ stop_process(t, call, pcs)

\* The monitor awaited is over.
monitor_awaited(t) ==
  /\ at[t] = "stop_monitor"
  /\ \A k \in Plays : monitor[k] # "cancelled"
  /\ stop_process(t, doing[t], at)
  /\ UNCHANGED <<running, heart, main, closed, playing, true, reports>>

\* The process that stop() waits for has ended.
process_awaited(t) ==
  /\ at[t] = "stop_wait"
  /\ waits[t] \notin alive
  /\ stop_returns(t, doing[t], [vlc EXCEPT !.process = 0, !.command = 0], at)
  /\ UNCHANGED <<running, heart, main, closed, told, playing, threads,
                 true, reports>>

\* Mutant: waits again without killing.
process_timeout_no_kill(t) ==
  /\ at[t] = "stop_wait"
  /\ waits[t] \in alive
  /\ UNCHANGED vars

\* It has not after five seconds, and is killed and awaited again.  When some
\* other call of stop() has forgotten it, there is nothing to kill: an error
\* leaves stop().
process_timeout(t) ==
  /\ at[t] = "stop_wait"
  /\ waits[t] \in alive
  /\ \/ /\ vlc.process # 0
        /\ alive' = alive \ {vlc.process}
        /\ closed' = closed \union {vlc.process}
        /\ waits' = [waits EXCEPT ![t] = vlc.process]
        /\ UNCHANGED <<at, doing>>
     \/ /\ vlc.process = 0
        /\ at' = [at EXCEPT ![t] = IF t = Poll THEN "idle" ELSE "over"]
        /\ doing' = [doing EXCEPT ![t] = "none"]
        /\ waits' = [waits EXCEPT ![t] = 0]
        /\ UNCHANGED <<alive, closed>>
  /\ UNCHANGED <<vlc, running, heart, main, monitor, issued, told, playing,
                 threads, true, reports>>

\* play's wait ends: playback has started, or ten seconds have passed.
play_returns ==
  /\ at[Poll] = "starting"
  /\ at' = [at EXCEPT ![Poll] = "idle"]
  /\ true' = IF vlc.started THEN true \union {issued} ELSE true
  /\ UNCHANGED <<vlc, running, doing, waits, heart, main, monitor, issued, os, threads, reports>>

------------------------------------------------------------------------------
(* _monitor_process of the VLC that play k launched.                        *)

\* The head of its loop, where it may begin to read a line, and what follows
\* the loop.  (Without a process there is nothing to ask: the error is logged.)
monitor_loop(k, output_ended) ==
  LET p == vlc.process IN
  \/ /\ p \in alive /\ running /\ ~output_ended
     /\ monitor' = [monitor EXCEPT ![k] = "reading"]
     /\ threads' = threads \union {p}
     /\ UNCHANGED reports
  \/ /\ p \notin alive \union {0} /\ vlc.command # 0
     /\ monitor' = [monitor EXCEPT ![k] = "ending"]
     /\ reports' = reports \union {<<"PLAYBACK_ENDED", vlc.command, k>>}
     /\ UNCHANGED threads
  \/ /\ \/ p = 0
        \/ p \in alive /\ (~running \/ output_ended)
        \/ p \notin alive /\ vlc.command = 0
     /\ monitor' = [monitor EXCEPT ![k] = "done"]
     /\ UNCHANGED <<threads, reports>>

monitor_begins(k) ==
  /\ monitor[k] = "new"
  /\ monitor_loop(k, FALSE)
  /\ UNCHANGED <<vlc, running, tasks, issued, os, true>>

\* VLC writes that it plays, and the monitor reads it.
playback_started(k) ==
  /\ monitor[k] = "reading"
  /\ k \notin closed
  /\ playing' = playing \union {k}
  /\ vlc' = [vlc EXCEPT !.started = TRUE]
  /\ \/ /\ ~vlc.started /\ vlc.command # 0
        /\ monitor' = [monitor EXCEPT ![k] = "reporting"]
        /\ reports' = reports \union {<<"PLAYBACK_STARTED", vlc.command, k>>}
        /\ UNCHANGED threads
     \/ (vlc.started \/ vlc.command = 0) /\ monitor_loop(k, FALSE)
  /\ UNCHANGED <<running, tasks, issued, alive, closed, told, true>>

\* A report is answered, or has failed.
report_returns(k) ==
  /\ \/ monitor[k] = "reporting" /\ monitor_loop(k, FALSE)
     \/ /\ monitor[k] = "ending"
        /\ monitor' = [monitor EXCEPT ![k] = "done"]
        /\ UNCHANGED <<threads, reports>>
  /\ UNCHANGED <<vlc, running, tasks, issued, os, true>>

\* The monitor reads the end of the output.  VLC itself may not have ended
\* yet, and then no end is reported.
output_ended(k) ==
  /\ monitor[k] = "reading"
  /\ k \in closed
  /\ monitor_loop(k, TRUE)
  /\ UNCHANGED <<vlc, running, tasks, issued, os, true>>

monitor_cancelled(k) ==
  /\ monitor[k] = "cancelled"
  /\ monitor' = [monitor EXCEPT ![k] = "done"]
  /\ UNCHANGED <<vlc, running, tasks, issued, os, threads, true, reports>>

\* VLC closes its output, and then it ends.
vlc_closes(k) ==
  /\ k \in alive \ closed
  /\ closed' = closed \union {k}
  /\ UNCHANGED <<vlc, running, tasks, monitor, issued, alive, told, playing, threads, true, reports>>

vlc_ends(k) ==
  /\ k \in alive \intersect closed
  /\ alive' = alive \ {k}
  /\ UNCHANGED <<vlc, running, tasks, monitor, issued, closed, told, playing, threads, true, reports>>

------------------------------------------------------------------------------
(* TVAgent.                                                                 *)

\* Mutant: plays over what plays already.
execute_play_over ==
  /\ at[Poll] = "idle" /\ issued < MaxPlays
  /\ launch(Poll, vlc, at)
  /\ UNCHANGED <<running, doing, waits, heart, main, closed, told, playing, threads, true, reports>>

\* execute_command of a play command.  The loop looks at running only when all
\* commands of a poll response are executed.
execute_play ==
  /\ at[Poll] = "idle"
  /\ issued < MaxPlays  \* bound: MaxPlays
  /\ stop(Poll, "play", at)
  /\ UNCHANGED <<running, heart, main, closed, playing, true, reports>>

execute_stop ==
  /\ at[Poll] = "idle"
  /\ stop(Poll, "stop", at)
  /\ UNCHANGED <<running, heart, main, closed, playing, true, reports>>

poll_loop_ends ==
  /\ at[Poll] = "idle" /\ ~running
  /\ at' = [at EXCEPT ![Poll] = "over"]
  /\ UNCHANGED <<vlc, running, doing, waits, heart, main, monitor, issued, os, threads, true, reports>>

\* SIGTERM or SIGINT: the handler makes a task of shutdown.  Bound: Shutdowns,
\* and none when run has returned.
handle_signal(s) ==
  /\ at[s] = "none" /\ main = "gather"
  /\ at' = [at EXCEPT ![s] = "new"]
  /\ UNCHANGED <<vlc, running, doing, waits, heart, main, monitor, issued, os, threads, true, reports>>

HeartCancelled == IF heart = "on" THEN "cancelled" ELSE heart

\* Mutant: cancels the loops and leaves VLC to itself.
shutdown_no_stop(s) ==
  /\ at[s] = "new"
  /\ running' = FALSE
  /\ heart' = HeartCancelled
  /\ at' = [Cancelled({Poll}) EXCEPT ![s] = "aclose"]
  /\ UNCHANGED <<vlc, doing, waits, main, monitor, issued, os, threads, true, reports>>

\* shutdown: the loops are cancelled, and VLC is stopped.
shutdown(s) ==
  /\ at[s] = "new"
  /\ running' = FALSE
  /\ heart' = HeartCancelled
  /\ stop(s, "shutdown", Cancelled({Poll}))
  /\ UNCHANGED <<main, closed, playing, true, reports>>

\* The client is closed, and shutdown returns.
shutdown_returns(s) ==
  /\ at[s] = "aclose"
  /\ at' = [at EXCEPT ![s] = "over"]
  /\ UNCHANGED <<vlc, running, doing, waits, heart, main, monitor, issued, os, threads, true, reports>>

task_cancelled(t) ==
  /\ at[t] = "cancelled"
  /\ at' = [at EXCEPT ![t] = "over"]
  /\ doing' = [doing EXCEPT ![t] = "none"]
  /\ waits' = [waits EXCEPT ![t] = 0]
  /\ UNCHANGED <<vlc, running, heart, main, monitor, issued, os, threads, true, reports>>

heart_cancelled ==
  /\ heart = "cancelled"
  /\ heart' = "over"
  /\ UNCHANGED <<vlc, running, at, doing, waits, main, monitor, issued, os, threads, true, reports>>

\* gather, and with it run, ends with the first loop that was cancelled, and
\* asyncio.run then cancels every task there is: also shutdown.
run_returns ==
  /\ main = "gather" /\ heart = "over"
  /\ main' = "over"
  /\ at' = Cancelled(Tasks)
  /\ monitor' = MonitorsCancelled(Plays)
  /\ UNCHANGED <<vlc, running, doing, waits, heart, issued, os, threads, true, reports>>

\* asyncio.run returns when the tasks and the executor's threads are done.
agent_exits ==
  /\ main = "over"
  /\ \A t \in Tasks : at[t] \in {"none", "over"}
  /\ threads \intersect alive = {}
  /\ main' = "exited"
  /\ UNCHANGED <<vlc, running, at, doing, waits, heart, monitor, issued, os, threads, true, reports>>

------------------------------------------------------------------------------
Vlc(k) == vlc_closes(k) \/ vlc_ends(k)

Monitor(k) ==
  monitor_begins(k) \/ report_returns(k) \/ output_ended(k) \/ monitor_cancelled(k)

Task(t) == monitor_awaited(t) \/ process_awaited(t) \/ process_timeout(t) \/ task_cancelled(t)

Shutdown(s) == shutdown(s) \/ shutdown_returns(s)

Next ==
  \/ execute_play \/ execute_stop \/ play_returns \/ poll_loop_ends
  \/ \E t \in Tasks : Task(t)
  \/ \E k \in Plays : Vlc(k) \/ Monitor(k) \/ playback_started(k)
  \/ \E s \in Shutdowns : handle_signal(s) \/ Shutdown(s)
  \/ heart_cancelled \/ run_returns \/ agent_exits

Spec == Init /\ [][Next]_vars

\* The event loop runs every task that can go on, and timers expire.  Of the
\* backend: a batch of commands ends.  Of VLC nothing.
Fairness ==
  /\ \A t \in Tasks : WF_vars(Task(t))
  /\ \A k \in Plays : WF_vars(Monitor(k))
  /\ \A s \in Shutdowns : WF_vars(Shutdown(s))
  /\ WF_vars(play_returns) /\ SF_vars(poll_loop_ends)
  /\ WF_vars(heart_cancelled) /\ WF_vars(run_returns) /\ WF_vars(agent_exits)

\* VLC ends some time after it was told to terminate.
VlcObeys == \A k \in Plays : WF_vars(k \in told /\ Vlc(k))

FairSpec == Spec /\ Fairness

------------------------------------------------------------------------------
\* Awaits, processes and reports are of their kinds.
TypeOK ==
  /\ vlc \in [process : 0..MaxPlays, command : 0..MaxPlays, monitor : 0..MaxPlays,
              started : BOOLEAN]
  /\ running \in BOOLEAN
  /\ at \in [Tasks -> TaskAwaits]
  /\ doing \in [Tasks -> {"none", "play", "stop", "shutdown"}]
  /\ waits \in [Tasks -> 0..MaxPlays]
  /\ monitor \in [Plays -> MonitorAwaits]
  /\ heart \in {"on", "cancelled", "over"}
  /\ main \in {"gather", "over", "exited"}
  /\ issued \in 0..MaxPlays
  /\ alive \subseteq Plays /\ closed \subseteq Plays /\ told \subseteq Plays
  /\ threads \subseteq Plays /\ playing \subseteq Plays /\ true \subseteq Plays
  /\ reports \subseteq {"PLAYBACK_STARTED", "PLAYBACK_ENDED"} \X (0..MaxPlays) \X Plays

\* One VLC runs at most, and the controller knows it and can stop it: also when
\* a shutdown is under way, has cancelled the poll loop and stops VLC beside it,
\* until a shutdown's stop() is over and may have forgotten a VLC it did not wait
\* for.
RunningVlcIsKnown ==
  (\A s \in Shutdowns : at[s] \in {"none", "new", "stop_monitor", "stop_wait"})
    => alive \subseteq {vlc.process}

\* A play that returned True is one whose own VLC has said that it plays.  Until
\* a signal arrives every report goes out under the command whose VLC it is
\* about, and says what is so: it plays, or it has ended.
ReportsAreTrue ==
  /\ true \subseteq playing
  /\ running => \A r \in reports :
       /\ r[2] = r[3]
       /\ r[1] = "PLAYBACK_STARTED" => r[3] \in playing
       /\ r[1] = "PLAYBACK_ENDED" => r[3] \notin alive

\* A call of stop() ends, also when VLC does not: the poll loop goes on to the
\* next command.
StopReturns == (at[Poll] \in {"stop_monitor", "stop_wait"}) ~>
                 (at[Poll] \notin {"stop_monitor", "stop_wait"})

\* After a signal the agent's process ends, if VLC obeys.
SignalEndsAgent ==
  VlcObeys => ((\E s \in Shutdowns : at[s] # "none") ~> (main = "exited"))

------------------------------------------------------------------------------
(* What the code's words promise and the code does not keep.                *)

\* agent/main.py:108: play stops any existing playback.  A stop() that has
\* waited for an earlier VLC forgets the one that runs now.
OneVlc == \A j, k \in alive : j = k

\* agent/main.py:587: a graceful shutdown stops VLC.
ShutdownStopsVlc == main = "exited" => alive = {}

\* The same when VLC does not obey: shutdown would kill it after five seconds,
\* but is cancelled itself.
SignalEndsAgentAnyway == (\E s \in Shutdowns : at[s] # "none") ~> (main = "exited")

\* agent/main.py:249: the end of playback is reported to the backend.
EndIsReported ==
  \A k \in Plays :
    (k \in closed /\ k \notin told /\ running) ~>
      (k \in told \/ ~running \/ <<"PLAYBACK_ENDED", k, k>> \in reports)
==============================================================================
