-------------------------- MODULE VlcController_proofs ------------------------
(***************************************************************************)
(* Proofs about VlcController, for any number of play commands and of      *)
(* signals.                                                                *)
(*                                                                         *)
(* Until the first signal is handled only the poll loop calls the          *)
(* controller, and the argument is about what it has left behind at each   *)
(* of its awaits: at most one monitor is at work and the controller holds  *)
(* it, at most one VLC runs and the controller holds it, and the command   *)
(* the controller names is the one it began last.  A signal ends it; what  *)
(* is kept is that no monitor reads on, and, until a shutdown's stop() is  *)
(* over, that the controller holds the VLC that runs (Held).               *)
(***************************************************************************)
EXTENDS VlcController, TLAPS

\* What VLCController keeps.
Controllers == [process : 0..MaxPlays, command : 0..MaxPlays, monitor : 0..MaxPlays,
                started : BOOLEAN]

\* A monitor in one of these does nothing more of its own.
Quiet == {"none", "done"}

\* Before shutdown has run, no loop is cancelled and only the poll loop works.
Calm == running =>
  /\ heart = "on"
  /\ \A s \in Shutdowns : at[s] \in {"none", "new"}
  /\ at[Poll] \in {"idle", "stop_monitor", "stop_wait", "starting"}
  /\ at[Poll] \in {"stop_monitor", "stop_wait"} => doing[Poll] \in {"play", "stop"}

\* Only the poll loop plays, and for the command it began last.
OnlyPolledPlays ==
  /\ \A t \in Tasks : doing[t] = "play" => t = Poll /\ issued < MaxPlays
  /\ at[Poll] = "starting" => issued # 0

\* Before shutdown has run, the monitor at work is the one the controller
\* holds; after it no monitor reads, so that nothing is said to play.
KnownMonitor ==
  /\ running =>
       /\ \A k \in Plays : monitor[k] \notin Quiet => k = vlc.monitor
       /\ vlc.monitor \in {0, issued}
       /\ at[Poll] = "stop_monitor" =>
            \A k \in Plays : monitor[k] \in Quiet \union {"cancelled"}
       /\ at[Poll] = "stop_wait" => vlc.monitor = 0
  /\ ~running => \A k \in Plays : monitor[k] # "reading"

\* Before shutdown has run, the VLC that runs is the one the controller holds,
\* and stop() waits for that one.
KnownProcess == running =>
  /\ alive \subseteq {vlc.process}
  /\ at[Poll] = "stop_wait" => waits[Poll] = vlc.process

\* What was said of a VLC is so, and no report is about a VLC to come.
Truths ==
  /\ vlc.started => issued \in playing
  /\ true \subseteq playing
  /\ running =>
       /\ vlc.command \in {0, issued}
       /\ \A r \in reports :
            /\ r[2] = r[3] /\ r[3] <= issued
            /\ r[1] = "PLAYBACK_STARTED" => r[3] \in playing
            /\ r[1] = "PLAYBACK_ENDED" => r[3] \notin alive

IInv == TypeOK /\ Calm /\ OnlyPolledPlays /\ KnownMonitor /\ KnownProcess /\ Truths

------------------------------------------------------------------------------
\* No play was asked for and no VLC runs at first.
LEMMA InitIInv == Init => IInv
<1> SUFFICES ASSUME Init PROVE IInv
  OBVIOUS
<1> USE MaxPlaysIsNat, PollIsNoShutdown DEF Init, Tasks, Plays
<1>1. TypeOK
  BY DEF TypeOK, TaskAwaits, MonitorAwaits
<1>2. Calm /\ OnlyPolledPlays
  BY DEF Calm, OnlyPolledPlays
<1>3. KnownMonitor /\ KnownProcess /\ Truths
  BY DEF KnownMonitor, KnownProcess, Truths, Quiet
<1> QED
  BY <1>1, <1>2, <1>3 DEF IInv

------------------------------------------------------------------------------
(* stop() and what follows it, from any of its callers.                     *)

\* A task about to stop VLC: only the poll loop does it before shutdown has run.
Caller(t, call, pcs) ==
  /\ t \in Tasks
  /\ call \in {"none", "play", "stop", "shutdown"}
  /\ call = "play" => t = Poll /\ issued < MaxPlays
  /\ pcs \in [Tasks -> TaskAwaits]
  /\ pcs[Poll] = "starting" => issued # 0
  /\ running' \in BOOLEAN /\ heart' \in {"on", "cancelled", "over"}
  /\ running' => running /\ heart' = heart /\ t = Poll /\ pcs = at /\ call \in {"play", "stop"}
  /\ UNCHANGED <<main, closed, playing, true, reports>>

\* What follows once stop() has returned keeps the invariant: when only the
\* poll loop works, it finds no VLC and no monitor at work.
LEMMA StopReturnsKeeps ==
  ASSUME IInv,
         NEW t, NEW call, NEW pcs, NEW c,
         Caller(t, call, pcs),
         c \in Controllers,
         c.started = vlc.started,
         running => \A k \in Plays : monitor[k] \in Quiet,
         running' => alive = {} /\ c.process = 0 /\ c.monitor = 0 /\ c.command \in {0, issued},
         stop_returns(t, call, c, pcs),
         UNCHANGED <<told, threads>>
  PROVE  IInv'
<1> USE MaxPlaysIsNat DEF Plays
<1>u. /\ t \in Tasks
      /\ call \in {"none", "play", "stop", "shutdown"}
      /\ call = "play" => t = Poll /\ issued < MaxPlays
      /\ pcs \in [Tasks -> TaskAwaits]
      /\ pcs[Poll] = "starting" => issued # 0
      /\ running' => running /\ heart' = heart /\ t = Poll /\ pcs = at /\ call \in {"play", "stop"}
  BY DEF Caller
<1>v. /\ running' \in BOOLEAN /\ heart' \in {"on", "cancelled", "over"}
      /\ UNCHANGED <<main, closed, playing, true, reports>>
  BY DEF Caller
<1>t. /\ Poll \in Tasks /\ issued \in Nat /\ at \in [Tasks -> TaskAwaits]
      /\ monitor \in [Plays -> MonitorAwaits]
      /\ doing \in [Tasks -> {"none", "play", "stop", "shutdown"}]
      /\ waits \in [Tasks -> 0..MaxPlays]
      /\ issued \in 0..MaxPlays /\ alive \subseteq Plays
  BY DEF IInv, TypeOK, Tasks, Controllers
<1>d. /\ doing' = [doing EXCEPT ![t] = "none"]
      /\ waits' = [waits EXCEPT ![t] = 0]
  BY DEF stop_returns
<1>1. ASSUME call = "play", launch(t, c, pcs) PROVE IInv'
  <2>1. /\ issued' = issued + 1 /\ issued' \in 1..MaxPlays /\ t = Poll
    BY <1>1, <1>t, <1>u, <1>v DEF launch
  <2> DEFINE asked == [c EXCEPT !.command = issued', !.started = FALSE]
  <2>a. /\ asked \in Controllers /\ asked.started = FALSE /\ asked.command = issued'
        /\ asked.monitor = c.monitor /\ asked.process = c.process
    <3>1. asked = [process |-> c.process, command |-> issued', monitor |-> c.monitor,
                   started |-> FALSE]
      <4> SUFFICES ASSUME NEW d, d = asked
                   PROVE  d = [process |-> c.process, command |-> issued',
                               monitor |-> c.monitor, started |-> FALSE]
        OBVIOUS
      <4> QED
        BY DEF Controllers
    <3>2. c.process \in 0..MaxPlays /\ c.monitor \in 0..MaxPlays /\ issued' \in 0..MaxPlays
      BY <2>1 DEF Controllers
    <3> HIDE DEF asked
    <3> QED
      BY <3>1, <3>2 DEF Controllers
  <2>b. \/ /\ vlc' = [asked EXCEPT !.process = issued', !.monitor = issued']
           /\ alive' = alive \union {issued'}
           /\ monitor' = [monitor EXCEPT ![issued'] = "new"]
           /\ at' = [pcs EXCEPT ![t] = "starting"]
        \/ /\ vlc' = asked
           /\ at' = [pcs EXCEPT ![t] = "idle"]
           /\ UNCHANGED <<alive, monitor>>
    BY <1>1 DEF launch
  <2> HIDE DEF asked
  <2>2. /\ vlc' \in Controllers
        /\ vlc'.started = FALSE /\ vlc'.command = issued'
        /\ \/ /\ vlc'.process = issued' /\ vlc'.monitor = issued'
              /\ alive' = alive \union {issued'}
              /\ monitor' = [monitor EXCEPT ![issued'] = "new"]
              /\ at' = [pcs EXCEPT ![t] = "starting"]
           \/ /\ vlc'.process = c.process /\ vlc'.monitor = c.monitor
              /\ at' = [pcs EXCEPT ![t] = "idle"]
              /\ UNCHANGED <<alive, monitor>>
    <3>1. issued' \in 1..MaxPlays
      BY <2>1
    <3>2. CASE vlc' = asked /\ at' = [pcs EXCEPT ![t] = "idle"] /\ UNCHANGED <<alive, monitor>>
      BY <3>2, <2>a
    <3>3. CASE /\ vlc' = [asked EXCEPT !.process = issued', !.monitor = issued']
               /\ alive' = alive \union {issued'}
               /\ monitor' = [monitor EXCEPT ![issued'] = "new"]
               /\ at' = [pcs EXCEPT ![t] = "starting"]
      <4>1. vlc' = [process |-> issued', command |-> asked.command, monitor |-> issued',
                    started |-> asked.started]
        BY <3>3, <2>a DEF Controllers
      <4> QED
        BY <3>1, <3>3, <2>a, <4>1 DEF Controllers
    <3> QED
      BY <2>a, <2>b, <3>2, <3>3
  <2>3. /\ at' \in [Tasks -> TaskAwaits]
        /\ at'[Poll] \in {"idle", "starting"}
        /\ \A s \in Shutdowns : at'[s] = pcs[s]
    BY <1>t, <1>u, <2>1, <2>2, PollIsNoShutdown DEF TaskAwaits, Tasks
  <2>4. /\ monitor' \in [Plays -> MonitorAwaits]
        /\ \A k \in Plays : monitor'[k] = monitor[k] \/ (k = issued' /\ monitor'[k] = "new")
        /\ \A k \in Plays : monitor'[k] # monitor[k] => vlc'.monitor = k
    <3>1. issued' \in Plays
      BY <2>1
    <3> HIDE DEF Plays
    <3> QED
      BY <1>t, <2>2, <3>1 DEF MonitorAwaits
  <2>5. /\ alive' = alive \/ (alive' = alive \union {issued'} /\ vlc'.process = issued')
        /\ alive' \subseteq Plays
    <3>1. issued' \in Plays
      BY <2>1
    <3> QED
      BY <1>t, <2>2, <3>1
  <2>6. TypeOK'
    <3>1. /\ doing' \in [Tasks -> {"none", "play", "stop", "shutdown"}]
          /\ waits' \in [Tasks -> 0..MaxPlays]
          /\ issued' \in 0..MaxPlays
      BY <1>t, <1>d, <2>1
    <3>2. vlc' \in Controllers /\ at' \in [Tasks -> TaskAwaits]
          /\ monitor' \in [Plays -> MonitorAwaits] /\ alive' \subseteq Plays
      BY <2>2, <2>3, <2>4, <2>5
    <3> QED
      BY <1>v, <3>1, <3>2 DEF IInv, TypeOK, Controllers
  <2>7. Calm'
    BY <1>u, <2>3 DEF IInv, Calm, Tasks
  <2>8. OnlyPolledPlays'
    BY <1>t, <1>u, <1>v, <1>d, <2>1 DEF IInv, OnlyPolledPlays
  <2>9. KnownMonitor'
    BY <1>t, <1>u, <1>v, <2>1, <2>2, <2>3, <2>4 DEF IInv, KnownMonitor, Quiet
  <2>10. KnownProcess'
    BY <2>3, <2>5 DEF KnownProcess
  <2>11. Truths'
    <3>1. ASSUME running', NEW r \in reports
          PROVE  /\ r[2] = r[3] /\ r[3] <= issued'
                 /\ r[1] = "PLAYBACK_STARTED" => r[3] \in playing
                 /\ r[3] \notin alive'
      <4>1. /\ r[2] = r[3] /\ r[3] <= issued
            /\ r[1] = "PLAYBACK_STARTED" => r[3] \in playing
        BY <1>u, <3>1 DEF IInv, Truths
      <4>2. r[3] \in Plays
        BY DEF IInv, TypeOK
      <4> QED
        BY <1>t, <1>u, <1>v, <2>1, <2>5, <3>1, <4>1, <4>2
    <3> QED
      BY <1>u, <1>v, <2>2, <3>1 DEF IInv, Truths
  <2> QED
    BY <2>6, <2>7, <2>8, <2>9, <2>10, <2>11 DEF IInv
<1>2. ASSUME call # "play",
             vlc' = c,
             at' = [pcs EXCEPT ![t] = IF call = "stop" THEN "idle" ELSE "aclose"],
             UNCHANGED <<alive, monitor, issued>>
      PROVE  IInv'
  <2>1. TypeOK'
    BY <1>t, <1>u, <1>v, <1>d, <1>2 DEF IInv, TypeOK, TaskAwaits, Controllers
  <2>2. Calm'
    BY <1>t, <1>u, <1>v, <1>2, PollIsNoShutdown DEF IInv, Calm, Tasks
  <2>3. OnlyPolledPlays'
    BY <1>t, <1>u, <1>v, <1>d, <1>2 DEF IInv, OnlyPolledPlays
  <2>4. KnownMonitor'
    BY <1>t, <1>u, <1>v, <1>2 DEF IInv, KnownMonitor, Quiet
  <2>5. KnownProcess'
    BY <1>t, <1>u, <1>v, <1>2 DEF IInv, KnownProcess
  <2>6. Truths'
    BY <1>v, <1>u, <1>2 DEF IInv, Truths
  <2> QED
    BY <2>1, <2>2, <2>3, <2>4, <2>5, <2>6 DEF IInv
<1> QED
  BY <1>1, <1>2 DEF stop_returns

\* stop() from the point where the monitor is over.
LEMMA StopProcessKeeps ==
  ASSUME IInv,
         NEW t, NEW call, NEW pcs,
         Caller(t, call, pcs),
         running => \A k \in Plays : monitor[k] \in Quiet,
         stop_process(t, call, pcs)
  PROVE  IInv'
<1> USE MaxPlaysIsNat DEF Plays
<1>u. /\ t \in Tasks
      /\ call \in {"none", "play", "stop", "shutdown"}
      /\ call = "play" => t = Poll /\ issued < MaxPlays
      /\ pcs \in [Tasks -> TaskAwaits]
      /\ pcs[Poll] = "starting" => issued # 0
      /\ running' => running /\ heart' = heart /\ t = Poll /\ pcs = at /\ call \in {"play", "stop"}
  BY DEF Caller
<1>v. /\ running' \in BOOLEAN /\ heart' \in {"on", "cancelled", "over"}
      /\ UNCHANGED <<main, closed, playing, true, reports>>
  BY DEF Caller
<1>t. /\ Poll \in Tasks /\ at \in [Tasks -> TaskAwaits]
      /\ monitor \in [Plays -> MonitorAwaits]
      /\ doing \in [Tasks -> {"none", "play", "stop", "shutdown"}]
      /\ waits \in [Tasks -> 0..MaxPlays] /\ alive \subseteq Plays
      /\ vlc \in Controllers
  BY DEF IInv, TypeOK, Tasks, Controllers
<1> DEFINE c == [vlc EXCEPT !.monitor = 0]
<1>c. /\ c \in Controllers
      /\ c.started = vlc.started /\ c.command = vlc.command
      /\ c.process = vlc.process /\ c.monitor = 0
  BY <1>t DEF Controllers
<1> HIDE DEF c
<1>1. ASSUME c.process # 0,
             vlc' = c,
             told' = told \union {c.process},
             doing' = [doing EXCEPT ![t] = call],
             waits' = [waits EXCEPT ![t] = c.process],
             threads' = threads \union {c.process},
             at' = [pcs EXCEPT ![t] = "stop_wait"],
             UNCHANGED <<alive, monitor, issued>>
      PROVE  IInv'
  <2>1. TypeOK'
    <3>1. /\ doing' \in [Tasks -> {"none", "play", "stop", "shutdown"}]
          /\ waits' \in [Tasks -> 0..MaxPlays]
          /\ at' \in [Tasks -> TaskAwaits]
          /\ UNCHANGED <<alive, monitor, issued>>
      BY <1>t, <1>u, <1>c, <1>1 DEF TaskAwaits, Controllers
    <3>2. c.process \in Plays
      BY <1>c, <1>1 DEF Controllers
    <3> QED
      BY <1>v, <1>c, <1>1, <3>1, <3>2 DEF IInv, TypeOK, Controllers
  <2>2. Calm'
    BY <1>t, <1>u, <1>v, <1>1, PollIsNoShutdown DEF IInv, Calm, Tasks
  <2>3. OnlyPolledPlays'
    BY <1>t, <1>u, <1>v, <1>1 DEF IInv, OnlyPolledPlays
  <2>4. KnownMonitor'
    BY <1>t, <1>u, <1>v, <1>c, <1>1 DEF IInv, KnownMonitor, Quiet
  <2>5. KnownProcess'
    BY <1>t, <1>u, <1>v, <1>c, <1>1 DEF IInv, KnownProcess
  <2>6. Truths'
    BY <1>v, <1>u, <1>c, <1>1 DEF IInv, Truths
  <2> QED
    BY <2>1, <2>2, <2>3, <2>4, <2>5, <2>6 DEF IInv
<1>2. ASSUME c.process = 0,
             stop_returns(t, call, c, pcs),
             UNCHANGED <<told, threads>>
      PROVE  IInv'
  <2>1. running' => alive = {} /\ c.process = 0 /\ c.monitor = 0 /\ c.command \in {0, issued}
    BY <1>t, <1>u, <1>v, <1>c, <1>2 DEF IInv, KnownProcess, Truths
  <2> QED
    BY <1>c, <1>2, <2>1, StopReturnsKeeps
<1> QED
  BY <1>1, <1>2 DEF stop_process, c

\* stop() from its beginning.
LEMMA StopKeeps ==
  ASSUME IInv,
         NEW t, NEW call, NEW pcs,
         Caller(t, call, pcs),
         stop(t, call, pcs)
  PROVE  IInv'
<1> USE MaxPlaysIsNat DEF Plays
<1>u. /\ t \in Tasks
      /\ call \in {"none", "play", "stop", "shutdown"}
      /\ call = "play" => t = Poll /\ issued < MaxPlays
      /\ pcs \in [Tasks -> TaskAwaits]
      /\ pcs[Poll] = "starting" => issued # 0
      /\ running' => running /\ heart' = heart /\ t = Poll /\ pcs = at /\ call \in {"play", "stop"}
  BY DEF Caller
<1>v. /\ running' \in BOOLEAN /\ heart' \in {"on", "cancelled", "over"}
      /\ UNCHANGED <<main, closed, playing, true, reports>>
  BY DEF Caller
<1>t. /\ Poll \in Tasks /\ at \in [Tasks -> TaskAwaits]
      /\ monitor \in [Plays -> MonitorAwaits]
      /\ doing \in [Tasks -> {"none", "play", "stop", "shutdown"}]
      /\ vlc.monitor \in 0..MaxPlays
  BY DEF IInv, TypeOK, Tasks, Controllers
<1>1. ASSUME vlc.monitor # 0, monitor[vlc.monitor] # "done",
             monitor' = MonitorsCancelled({vlc.monitor}),
             doing' = [doing EXCEPT ![t] = call],
             at' = [pcs EXCEPT ![t] = "stop_monitor"],
             UNCHANGED <<vlc, waits, issued, alive, told, threads>>
      PROVE  IInv'
  <2>1. /\ monitor' \in [Plays -> MonitorAwaits]
        /\ \A k \in Plays : monitor'[k] = monitor[k] \/ monitor'[k] = "cancelled"
        /\ \A k \in Plays : monitor[k] \in Quiet => monitor'[k] \in Quiet
        /\ monitor'[vlc.monitor] \in Quiet \union {"cancelled"}
    <3>1. \A k \in Plays :
            monitor'[k] = IF k = vlc.monitor /\ monitor[k] \notin Quiet
                          THEN "cancelled" ELSE monitor[k]
      BY <1>1 DEF MonitorsCancelled, Quiet
    <3>2. monitor' \in [Plays -> MonitorAwaits]
      BY <1>t, <1>1 DEF MonitorsCancelled, MonitorAwaits
    <3>3. vlc.monitor \in Plays
      BY <1>t, <1>1
    <3> QED
      BY <3>1, <3>2, <3>3 DEF Quiet
  <2>2. TypeOK'
    BY <1>t, <1>u, <1>v, <1>1, <2>1 DEF IInv, TypeOK, TaskAwaits, Controllers
  <2>3. Calm'
    BY <1>t, <1>u, <1>v, <1>1, PollIsNoShutdown DEF IInv, Calm, Tasks
  <2>4. OnlyPolledPlays'
    BY <1>t, <1>u, <1>v, <1>1 DEF IInv, OnlyPolledPlays
  <2>5. KnownMonitor'
    <3>1. ASSUME running PROVE \A k \in Plays : monitor'[k] \in Quiet \union {"cancelled"}
      BY <2>1, <3>1 DEF IInv, KnownMonitor
    <3>2. ASSUME ~running PROVE \A k \in Plays : monitor'[k] # "reading"
      BY <2>1, <3>2 DEF IInv, KnownMonitor
    <3>3. running' => running /\ at'[Poll] = "stop_monitor"
      BY <1>t, <1>u, <1>1
    <3>4. running' => /\ \A k \in Plays : monitor'[k] \notin Quiet => k = vlc'.monitor
                      /\ vlc'.monitor \in {0, issued'}
      BY <1>1, <2>1, <3>3 DEF IInv, KnownMonitor
    <3>5. ~running' => \A k \in Plays : monitor'[k] # "reading"
      <4>1. CASE ~running
        BY <3>2, <4>1
      <4>2. CASE running
        BY <3>1, <4>2 DEF Quiet
      <4> QED
        BY <4>1, <4>2
    <3> QED
      BY <3>1, <3>3, <3>4, <3>5 DEF KnownMonitor
  <2>6. KnownProcess'
    BY <1>t, <1>u, <1>v, <1>1 DEF IInv, KnownProcess
  <2>7. Truths'
    BY <1>v, <1>u, <1>1 DEF IInv, Truths
  <2> QED
    BY <2>2, <2>3, <2>4, <2>5, <2>6, <2>7 DEF IInv
<1>2. ASSUME vlc.monitor # 0 => monitor[vlc.monitor] = "done",
             stop_process(t, call, pcs)
      PROVE  IInv'
  <2>1. running => \A k \in Plays : monitor[k] \in Quiet
    BY <1>t, <1>u, <1>v, <1>2 DEF IInv, KnownMonitor, Quiet
  <2> QED
    BY <1>2, <2>1, StopProcessKeeps
<1> QED
  BY <1>1, <1>2 DEF stop

------------------------------------------------------------------------------
(* The monitor.                                                             *)

\* A step of the monitor at work: it may report, and what it reports is so.
LEMMA MonitorStepKeeps ==
  ASSUME IInv,
         NEW k \in Plays, monitor[k] \notin Quiet \union {"cancelled"},
         \/ UNCHANGED <<vlc, playing>>
         \/ /\ running /\ vlc' = [vlc EXCEPT !.started = TRUE]
            /\ playing' = playing \union {k},
         NEW n \in MonitorAwaits, monitor' = [monitor EXCEPT ![k] = n],
         n = "reading" => running,
         NEW r, \/ reports' = reports
                \/ /\ reports' = reports \union {r} /\ vlc.command # 0
                   /\ \/ r = <<"PLAYBACK_STARTED", vlc.command, k>> /\ k \in playing'
                      \/ r = <<"PLAYBACK_ENDED", vlc.command, k>> /\ (running => alive = {}),
         threads' \subseteq Plays,
         UNCHANGED <<running, tasks, issued, alive, closed, told, true>>
  PROVE  IInv'
<1> USE DEF tasks
<1>t. /\ vlc \in Controllers /\ issued \in Nat /\ vlc.command \in 0..MaxPlays
      /\ monitor \in [Plays -> MonitorAwaits] /\ playing \subseteq Plays
      /\ k \in Nat /\ k # 0
  BY MaxPlaysIsNat DEF IInv, TypeOK, Controllers, Plays
<1>1. running => k = vlc.monitor /\ k = issued
  BY <1>t DEF IInv, KnownMonitor
<1>2. /\ vlc' \in Controllers /\ vlc'.process = vlc.process /\ vlc'.command = vlc.command
      /\ vlc'.monitor = vlc.monitor
  BY <1>t DEF Controllers
<1>3. /\ monitor' \in [Plays -> MonitorAwaits]
      /\ \A j \in Plays : j # k => monitor'[j] = monitor[j]
      /\ monitor'[k] = n
  BY <1>t
<1>4. playing' \subseteq Plays /\ playing \subseteq playing'
  BY <1>t
<1>5. TypeOK'
  <2>1. \/ r \in {"PLAYBACK_STARTED", "PLAYBACK_ENDED"} \X (0..MaxPlays) \X Plays
        \/ reports' = reports
    BY <1>t
  <2> QED
    BY <1>2, <1>3, <1>4, <2>1 DEF IInv, TypeOK, Controllers
<1>6. Calm' /\ OnlyPolledPlays'
  BY DEF IInv, Calm, OnlyPolledPlays
<1>7. KnownMonitor'
  BY <1>1, <1>2, <1>3 DEF IInv, KnownMonitor, Quiet
<1>8. KnownProcess'
  BY <1>2 DEF IInv, KnownProcess
<1>9. Truths'
  <2>1. vlc'.started => issued' \in playing'
    BY <1>1, <1>t, <1>4 DEF IInv, Truths
  <2>2. true' \subseteq playing'
    BY <1>4 DEF IInv, Truths
  <2>3. running' => vlc'.command \in {0, issued'}
    BY <1>2 DEF IInv, Truths
  <2>4. ASSUME running', NEW q \in reports'
        PROVE  /\ q[2] = q[3] /\ q[3] <= issued'
               /\ q[1] = "PLAYBACK_STARTED" => q[3] \in playing'
               /\ q[1] = "PLAYBACK_ENDED" => q[3] \notin alive'
    <3>1. CASE q \in reports
      BY <1>4, <2>4, <3>1 DEF IInv, Truths
    <3>2. CASE q \notin reports
      <4>1. vlc.command = k /\ k = issued
        BY <1>1, <2>4, <3>2 DEF IInv, Truths
      <4>2. \/ q = <<"PLAYBACK_STARTED", k, k>> /\ k \in playing'
            \/ q = <<"PLAYBACK_ENDED", k, k>> /\ alive = {}
        BY <2>4, <3>2, <4>1
      <4> QED
        BY <1>t, <4>1, <4>2
    <3> QED
      BY <3>1, <3>2
  <2> QED
    BY <2>1, <2>2, <2>3, <2>4 DEF Truths
<1> QED
  BY <1>5, <1>6, <1>7, <1>8, <1>9 DEF IInv

\* The head of the monitor's loop, whether or not it has just read that VLC plays.
LEMMA MonitorLoopKeeps ==
  ASSUME IInv,
         NEW k \in Plays, monitor[k] \notin Quiet \union {"cancelled"},
         NEW ended, monitor_loop(k, ended),
         \/ UNCHANGED <<vlc, playing>>
         \/ /\ running /\ vlc' = [vlc EXCEPT !.started = TRUE]
            /\ playing' = playing \union {k},
         UNCHANGED <<running, tasks, issued, alive, closed, told, true>>
  PROVE  IInv'
<1>t. alive \subseteq Plays /\ threads \subseteq Plays
  BY DEF IInv, TypeOK
<1>1. CASE /\ vlc.process \in alive /\ running
           /\ monitor' = [monitor EXCEPT ![k] = "reading"]
           /\ threads' = threads \union {vlc.process}
           /\ UNCHANGED reports
  <2>1. threads' \subseteq Plays /\ "reading" \in MonitorAwaits
    BY <1>t, <1>1 DEF MonitorAwaits
  <2> QED
    BY <1>1, <2>1, MonitorStepKeeps
<1>2. CASE /\ vlc.process \notin alive \union {0} /\ vlc.command # 0
           /\ monitor' = [monitor EXCEPT ![k] = "ending"]
           /\ reports' = reports \union {<<"PLAYBACK_ENDED", vlc.command, k>>}
           /\ UNCHANGED threads
  <2>1. running => alive = {}
    BY <1>2 DEF IInv, KnownProcess
  <2>2. threads' \subseteq Plays /\ "ending" \in MonitorAwaits
    BY <1>t, <1>2 DEF MonitorAwaits
  <2> QED
    BY <1>2, <2>1, <2>2, MonitorStepKeeps
<1>3. CASE /\ monitor' = [monitor EXCEPT ![k] = "done"]
           /\ UNCHANGED <<threads, reports>>
  <2>1. threads' \subseteq Plays /\ "done" \in MonitorAwaits
    BY <1>t, <1>3 DEF MonitorAwaits
  <2> QED
    BY <1>3, <2>1, MonitorStepKeeps
<1> QED
  BY <1>1, <1>2, <1>3 DEF monitor_loop

\* Each step of a monitor, cancelled or not.
LEMMA MonitorKeeps ==
  ASSUME IInv, NEW k \in Plays, Monitor(k)
  PROVE  IInv'
<1> USE DEF Quiet
<1>1. CASE monitor_begins(k)
  BY <1>1, MonitorLoopKeeps DEF monitor_begins, os
<1>2. CASE report_returns(k)
  <2>1. CASE monitor[k] = "reporting" /\ monitor_loop(k, FALSE)
    BY <1>2, <2>1, MonitorLoopKeeps DEF report_returns, os
  <2>2. CASE monitor[k] = "ending" /\ monitor' = [monitor EXCEPT ![k] = "done"]
             /\ UNCHANGED <<threads, reports>>
    <3>1. threads' \subseteq Plays /\ "done" \in MonitorAwaits
      BY <2>2 DEF IInv, TypeOK, MonitorAwaits
    <3> QED
      BY <1>2, <2>2, <3>1, MonitorStepKeeps DEF report_returns, os
  <2> QED
    BY <1>2, <2>1, <2>2 DEF report_returns
<1>3. CASE output_ended(k)
  BY <1>3, MonitorLoopKeeps DEF output_ended, os
<1>4. CASE monitor_cancelled(k)
  <2>t. monitor \in [Plays -> MonitorAwaits]
    BY DEF IInv, TypeOK
  <2>1. TypeOK'
    BY <1>4, <2>t DEF monitor_cancelled, IInv, TypeOK, MonitorAwaits, tasks, os
  <2>2. Calm' /\ OnlyPolledPlays' /\ KnownProcess' /\ Truths'
    BY <1>4 DEF monitor_cancelled, IInv, Calm, OnlyPolledPlays, KnownProcess, Truths, tasks, os
  <2>3. KnownMonitor'
    BY <1>4, <2>t DEF monitor_cancelled, IInv, KnownMonitor, tasks, os
  <2> QED
    BY <2>1, <2>2, <2>3 DEF IInv
<1> QED
  BY <1>1, <1>2, <1>3, <1>4 DEF Monitor

\* VLC says that it plays.
LEMMA PlaybackStartedKeeps ==
  ASSUME IInv, NEW k \in Plays, playback_started(k)
  PROVE  IInv'
<1>1. running /\ monitor[k] \notin Quiet \union {"cancelled"}
  BY DEF playback_started, IInv, KnownMonitor, Quiet
<1>2. CASE /\ vlc.command # 0
           /\ monitor' = [monitor EXCEPT ![k] = "reporting"]
           /\ reports' = reports \union {<<"PLAYBACK_STARTED", vlc.command, k>>}
           /\ UNCHANGED threads
  <2>1. /\ threads' \subseteq Plays /\ "reporting" \in MonitorAwaits
        /\ k \in playing'
    BY <1>2 DEF playback_started, IInv, TypeOK, MonitorAwaits
  <2> QED
    BY <1>1, <1>2, <2>1, MonitorStepKeeps DEF playback_started
<1>3. CASE monitor_loop(k, FALSE)
  BY <1>1, <1>3, MonitorLoopKeeps DEF playback_started
<1> QED
  BY <1>2, <1>3 DEF playback_started

------------------------------------------------------------------------------
(* The tasks, VLC itself and the end of the agent.                          *)

\* A task goes on from an await in stop(), or is cancelled.
LEMMA TaskKeeps ==
  ASSUME IInv, NEW t \in Tasks, Task(t)
  PROVE  IInv'
<1>t. /\ Poll \in Tasks /\ at \in [Tasks -> TaskAwaits]
      /\ doing \in [Tasks -> {"none", "play", "stop", "shutdown"}]
      /\ waits \in [Tasks -> 0..MaxPlays]
      /\ vlc \in Controllers /\ alive \subseteq Plays
      /\ running \in BOOLEAN /\ heart \in {"on", "cancelled", "over"}
  BY DEF IInv, TypeOK, Tasks, Controllers
<1>c. ASSUME at[t] \in {"stop_monitor", "stop_wait"},
             UNCHANGED <<running, heart, main, closed, playing, true, reports>>
      PROVE  running => t = Poll
  BY <1>c DEF IInv, Calm, Tasks
<1>1. CASE monitor_awaited(t)
  <2>1. running => t = Poll /\ doing[t] \in {"play", "stop"}
    BY <1>1, <1>c DEF monitor_awaited, IInv, Calm
  <2>2. Caller(t, doing[t], at)
    BY <1>1, <1>t, <2>1 DEF Caller, monitor_awaited, IInv, OnlyPolledPlays
  <2>3. running => \A k \in Plays : monitor[k] \in Quiet
    BY <1>1, <1>c DEF monitor_awaited, IInv, KnownMonitor
  <2> QED
    BY <1>1, <2>2, <2>3, StopProcessKeeps DEF monitor_awaited
<1>2. CASE process_awaited(t)
  <2> DEFINE c == [vlc EXCEPT !.process = 0, !.command = 0]
  <2>1. running => t = Poll /\ doing[t] \in {"play", "stop"}
    BY <1>2, <1>c DEF process_awaited, IInv, Calm
  <2>2. Caller(t, doing[t], at)
    BY <1>2, <1>t, <2>1 DEF Caller, process_awaited, IInv, OnlyPolledPlays
  <2>3. running => /\ \A k \in Plays : monitor[k] \in Quiet
                   /\ vlc.monitor = 0 /\ alive = {}
    <3> SUFFICES ASSUME running PROVE /\ \A k \in Plays : monitor[k] \in Quiet
                                      /\ vlc.monitor = 0 /\ alive = {}
      OBVIOUS
    <3>1. at[Poll] = "stop_wait" /\ waits[Poll] \notin alive
      BY <1>2, <2>1 DEF process_awaited
    <3>2. vlc.monitor = 0 /\ alive = {}
      BY <3>1 DEF IInv, KnownMonitor, KnownProcess
    <3>3. \A k \in Plays : k # 0
      BY MaxPlaysIsNat DEF Plays
    <3> QED
      BY <3>2, <3>3 DEF IInv, KnownMonitor
  <2>4. /\ c \in Controllers /\ c.process = 0 /\ c.command = 0
        /\ c.monitor = vlc.monitor /\ c.started = vlc.started
    <3>1. c = [process |-> 0, command |-> 0, monitor |-> vlc.monitor, started |-> vlc.started]
      <4> SUFFICES ASSUME NEW d, d = c
                   PROVE  d = [process |-> 0, command |-> 0, monitor |-> vlc.monitor,
                               started |-> vlc.started]
        OBVIOUS
      <4> QED
        BY <1>t DEF Controllers
    <3> HIDE DEF c
    <3> QED
      BY <1>t, <3>1, MaxPlaysIsNat DEF Controllers
  <2>5. stop_returns(t, doing[t], c, at) /\ UNCHANGED <<running, told, threads>>
    BY <1>2 DEF process_awaited
  <2> HIDE DEF c
  <2> QED
    BY <2>2, <2>3, <2>4, <2>5, StopReturnsKeeps
<1>3. CASE process_timeout(t)
  <2>1. CASE /\ vlc.process # 0
             /\ alive' = alive \ {vlc.process}
             /\ closed' = closed \union {vlc.process}
             /\ waits' = [waits EXCEPT ![t] = vlc.process]
             /\ UNCHANGED <<at, doing>>
    <3>1. vlc.process \in Plays
      BY <1>t, <2>1, MaxPlaysIsNat DEF Controllers, Plays
    <3>2. TypeOK'
      BY <1>3, <1>t, <2>1, <3>1 DEF process_timeout, IInv, TypeOK, Controllers
    <3>3. Calm' /\ OnlyPolledPlays' /\ KnownMonitor'
      BY <1>3, <2>1 DEF process_timeout, IInv, Calm, OnlyPolledPlays, KnownMonitor
    <3>4. KnownProcess'
      BY <1>3, <1>t, <2>1 DEF process_timeout, IInv, KnownProcess
    <3>5. Truths'
      BY <1>3, <2>1 DEF process_timeout, IInv, Truths
    <3> QED
      BY <3>2, <3>3, <3>4, <3>5 DEF IInv
  <2>2. CASE /\ vlc.process = 0
             /\ at' = [at EXCEPT ![t] = IF t = Poll THEN "idle" ELSE "over"]
             /\ doing' = [doing EXCEPT ![t] = "none"]
             /\ waits' = [waits EXCEPT ![t] = 0]
             /\ UNCHANGED <<alive, closed>>
    <3>1. TypeOK'
      BY <1>3, <1>t, <2>2, MaxPlaysIsNat DEF process_timeout, IInv, TypeOK, TaskAwaits
    <3>2. running => t = Poll
      BY <1>3, <1>t DEF process_timeout, IInv, Calm, Tasks
    <3>3. Calm' /\ OnlyPolledPlays'
      BY <1>3, <1>t, <2>2, <3>2, PollIsNoShutdown
      DEF process_timeout, IInv, Calm, OnlyPolledPlays, Tasks
    <3>4. KnownMonitor' /\ KnownProcess' /\ Truths'
      BY <1>3, <1>t, <2>2, <3>2
      DEF process_timeout, IInv, KnownMonitor, KnownProcess, Truths
    <3> QED
      BY <3>1, <3>3, <3>4 DEF IInv
  <2> QED
    BY <1>3, <2>1, <2>2 DEF process_timeout
<1>4. CASE task_cancelled(t)
  <2>1. ~running
    BY <1>4 DEF task_cancelled, IInv, Calm, Tasks
  <2>2. TypeOK'
    BY <1>4, <1>t, MaxPlaysIsNat DEF task_cancelled, IInv, TypeOK, TaskAwaits, os
  <2>3. OnlyPolledPlays'
    BY <1>4, <1>t DEF task_cancelled, IInv, OnlyPolledPlays
  <2>4. Calm' /\ KnownMonitor' /\ KnownProcess' /\ Truths'
    BY <1>4, <2>1 DEF task_cancelled, IInv, Calm, KnownMonitor, KnownProcess, Truths, os
  <2> QED
    BY <2>2, <2>3, <2>4 DEF IInv
<1> QED
  BY <1>1, <1>2, <1>3, <1>4 DEF Task

\* VLC closes its output or ends by itself.
LEMMA VlcKeeps ==
  ASSUME IInv, NEW k \in Plays, Vlc(k)
  PROVE  IInv'
<1>1. TypeOK'
  BY DEF Vlc, vlc_closes, vlc_ends, IInv, TypeOK, tasks
<1>2. Calm' /\ OnlyPolledPlays' /\ KnownMonitor'
  BY DEF Vlc, vlc_closes, vlc_ends, IInv, Calm, OnlyPolledPlays, KnownMonitor, tasks
<1>3. KnownProcess' /\ Truths'
  BY DEF Vlc, vlc_closes, vlc_ends, IInv, KnownProcess, Truths, tasks
<1> QED
  BY <1>1, <1>2, <1>3 DEF IInv

\* The commands of the poll loop, and its end.
LEMMA PollKeeps ==
  ASSUME IInv, execute_play \/ execute_stop \/ play_returns \/ poll_loop_ends
  PROVE  IInv'
<1>t. /\ Poll \in Tasks /\ at \in [Tasks -> TaskAwaits]
      /\ running \in BOOLEAN /\ heart \in {"on", "cancelled", "over"}
  BY DEF IInv, TypeOK, Tasks
<1>1. CASE execute_play
  <2>1. Caller(Poll, "play", at)
    BY <1>1, <1>t DEF Caller, execute_play
  <2> QED
    BY <1>1, <2>1, StopKeeps DEF execute_play
<1>2. CASE execute_stop
  <2>1. Caller(Poll, "stop", at)
    BY <1>2, <1>t DEF Caller, execute_stop
  <2> QED
    BY <1>2, <2>1, StopKeeps DEF execute_stop
<1>3. CASE play_returns
  <2>1. true' \subseteq playing /\ playing' = playing
    BY <1>3 DEF play_returns, IInv, Truths, os
  <2>2. TypeOK'
    BY <1>3, <1>t, <2>1 DEF play_returns, IInv, TypeOK, TaskAwaits, os
  <2>3. Calm' /\ OnlyPolledPlays' /\ KnownMonitor' /\ KnownProcess'
    BY <1>3, <1>t, PollIsNoShutdown
    DEF play_returns, IInv, Calm, OnlyPolledPlays, KnownMonitor, KnownProcess, Tasks, os
  <2>4. Truths'
    BY <1>3, <2>1 DEF play_returns, IInv, Truths, os
  <2> QED
    BY <2>2, <2>3, <2>4 DEF IInv
<1>4. CASE poll_loop_ends
  <2>1. TypeOK'
    BY <1>4, <1>t DEF poll_loop_ends, IInv, TypeOK, TaskAwaits, os
  <2>2. Calm' /\ OnlyPolledPlays' /\ KnownMonitor' /\ KnownProcess' /\ Truths'
    BY <1>4, <1>t DEF poll_loop_ends, IInv, Calm, OnlyPolledPlays, KnownMonitor, KnownProcess,
                      Truths, os
  <2> QED
    BY <2>1, <2>2 DEF IInv
<1> QED
  BY <1>1, <1>2, <1>3, <1>4

\* A signal, and the shutdown it starts.
LEMMA ShutdownKeeps ==
  ASSUME IInv, NEW s \in Shutdowns, handle_signal(s) \/ Shutdown(s)
  PROVE  IInv'
<1>t. /\ s \in Tasks /\ s # Poll /\ at \in [Tasks -> TaskAwaits]
      /\ heart \in {"on", "cancelled", "over"}
  BY PollIsNoShutdown DEF IInv, TypeOK, Tasks
<1>1. CASE shutdown(s)
  <2>1. /\ Cancelled({Poll}) \in [Tasks -> TaskAwaits]
        /\ Cancelled({Poll})[Poll] # "starting"
    BY <1>t DEF Cancelled, TaskAwaits, Tasks
  <2>2. Caller(s, "shutdown", Cancelled({Poll}))
    BY <1>1, <1>t, <2>1 DEF Caller, shutdown, HeartCancelled
  <2> QED
    BY <1>1, <2>2, StopKeeps DEF shutdown
<1>2. CASE handle_signal(s)
  <2>1. TypeOK'
    BY <1>2, <1>t DEF handle_signal, IInv, TypeOK, TaskAwaits, os
  <2>2. Calm' /\ OnlyPolledPlays' /\ KnownMonitor' /\ KnownProcess' /\ Truths'
    BY <1>2, <1>t DEF handle_signal, IInv, Calm, OnlyPolledPlays, KnownMonitor, KnownProcess,
                      Truths, os, Tasks
  <2> QED
    BY <2>1, <2>2 DEF IInv
<1>3. CASE shutdown_returns(s)
  <2>1. ~running
    BY <1>3 DEF shutdown_returns, IInv, Calm
  <2>2. TypeOK'
    BY <1>3, <1>t DEF shutdown_returns, IInv, TypeOK, TaskAwaits, os
  <2>3. Calm' /\ OnlyPolledPlays' /\ KnownMonitor' /\ KnownProcess' /\ Truths'
    BY <1>3, <1>t, <2>1 DEF shutdown_returns, IInv, Calm, OnlyPolledPlays, KnownMonitor,
                            KnownProcess, Truths, os
  <2> QED
    BY <2>2, <2>3 DEF IInv
<1> QED
  BY <1>1, <1>2, <1>3 DEF Shutdown

\* The end of the heartbeat loop, of run and of the process.
LEMMA EndKeeps ==
  ASSUME IInv, heart_cancelled \/ run_returns \/ agent_exits
  PROVE  IInv'
<1>t. at \in [Tasks -> TaskAwaits] /\ monitor \in [Plays -> MonitorAwaits] /\ Poll \in Tasks
  BY DEF IInv, TypeOK, Tasks
<1>1. CASE heart_cancelled \/ agent_exits
  <2>1. TypeOK'
    BY <1>1 DEF heart_cancelled, agent_exits, IInv, TypeOK, os
  <2>2. Calm' /\ OnlyPolledPlays'
    BY <1>1 DEF heart_cancelled, agent_exits, IInv, Calm, OnlyPolledPlays, os
  <2>3. KnownMonitor' /\ KnownProcess' /\ Truths'
    BY <1>1 DEF heart_cancelled, agent_exits, IInv, KnownMonitor, KnownProcess, Truths, os
  <2> QED
    BY <2>1, <2>2, <2>3 DEF IInv
<1>2. CASE run_returns
  <2>1. ~running
    BY <1>2 DEF run_returns, IInv, Calm
  <2>2. /\ at' \in [Tasks -> TaskAwaits] /\ monitor' \in [Plays -> MonitorAwaits]
        /\ at'[Poll] # "starting"
        /\ \A k \in Plays : monitor'[k] # "reading"
    BY <1>2, <1>t DEF run_returns, Cancelled, MonitorsCancelled, TaskAwaits, MonitorAwaits
  <2>3. TypeOK'
    BY <1>2, <2>2 DEF run_returns, IInv, TypeOK, os
  <2>4. OnlyPolledPlays'
    BY <1>2, <2>2 DEF run_returns, IInv, OnlyPolledPlays
  <2>5. Calm' /\ KnownMonitor' /\ KnownProcess' /\ Truths'
    BY <1>2, <2>1, <2>2 DEF run_returns, IInv, Calm, KnownMonitor, KnownProcess, Truths, os
  <2> QED
    BY <2>3, <2>4, <2>5 DEF IInv
<1> QED
  BY <1>1, <1>2

\* Every step keeps the invariant.
LEMMA NextIInv == IInv /\ [Next]_vars => IInv'
<1> SUFFICES ASSUME IInv, [Next]_vars PROVE IInv'
  OBVIOUS
<1>1. CASE execute_play \/ execute_stop \/ play_returns \/ poll_loop_ends
  BY <1>1, PollKeeps
<1>2. ASSUME NEW t \in Tasks, Task(t) PROVE IInv'
  BY <1>2, TaskKeeps
<1>3. ASSUME NEW k \in Plays, Vlc(k) \/ Monitor(k) \/ playback_started(k) PROVE IInv'
  BY <1>3, VlcKeeps, MonitorKeeps, PlaybackStartedKeeps
<1>4. ASSUME NEW s \in Shutdowns, handle_signal(s) \/ Shutdown(s) PROVE IInv'
  BY <1>4, ShutdownKeeps
<1>5. CASE heart_cancelled \/ run_returns \/ agent_exits
  BY <1>5, EndKeeps
<1>6. CASE UNCHANGED vars
  <2> USE <1>6 DEF vars, tasks, os
  <2>1. TypeOK'
    BY DEF IInv, TypeOK
  <2>2. Calm' /\ OnlyPolledPlays' /\ KnownMonitor'
    BY DEF IInv, Calm, OnlyPolledPlays, KnownMonitor
  <2>3. KnownProcess' /\ Truths'
    BY DEF IInv, KnownProcess, Truths
  <2> QED
    BY <2>1, <2>2, <2>3 DEF IInv
<1> QED
  BY <1>1, <1>2, <1>3, <1>4, <1>5, <1>6 DEF Next

------------------------------------------------------------------------------
\* The inductive invariant holds always, whatever MaxPlays and Shutdowns are.
THEOREM Inductive == Spec => []IInv
<1> QED
  BY InitIInv, NextIInv, PTL DEF Spec

\* Whatever commands, signals and VLC itself do, each task of the agent is at an
\* await of its own and the controller names plays that were begun.
THEOREM TypeCorrect == Spec => []TypeOK
<1>1. IInv => TypeOK
  BY DEF IInv
<1> QED
  BY <1>1, Inductive, PTL

------------------------------------------------------------------------------
(* The process that runs, beyond the signal.                                *)

\* A shutdown waits in its own stop(), and as long as no shutdown's is over, the
\* VLC that runs is the one the controller holds and the poll loop waits for.
NoneStopped == \A s \in Shutdowns : at[s] \in {"none", "new", "stop_monitor", "stop_wait"}

Held ==
  /\ \A s \in Shutdowns : at[s] \in {"stop_monitor", "stop_wait"} => doing[s] = "shutdown"
  /\ NoneStopped =>
       /\ alive \subseteq {vlc.process}
       /\ at[Poll] = "stop_wait" => waits[Poll] = vlc.process

\* What a step needs to know of the types.
LEMMA HeldTypes ==
  ASSUME IInv
  PROVE  /\ Poll \in Tasks /\ Poll \notin Shutdowns /\ Shutdowns \subseteq Tasks
         /\ Tasks = {Poll} \union Shutdowns
         /\ at \in [Tasks -> TaskAwaits]
         /\ doing \in [Tasks -> {"none", "play", "stop", "shutdown"}]
         /\ waits \in [Tasks -> 0..MaxPlays]
         /\ vlc \in Controllers /\ issued \in Nat
         /\ alive \subseteq Plays /\ 0 \notin Plays
         /\ \A t \in Tasks : doing[t] = "play" => t = Poll
  BY MaxPlaysIsNat, PollIsNoShutdown
  DEF IInv, TypeOK, Tasks, Plays, Controllers, OnlyPolledPlays

\* After stop() a play has the VLC it launches, and a shutdown is over with it.
LEMMA HeldReturns ==
  ASSUME IInv, Held, NEW t \in Tasks, NEW call, NEW pcs, NEW c,
         c \in Controllers, c.process = 0,
         pcs \in [Tasks -> TaskAwaits],
         \A s \in Shutdowns : pcs[s] = at[s],
         call = "play" => t = Poll,
         t \in Shutdowns => call = "shutdown",
         t = Poll /\ NoneStopped => alive = {},
         stop_returns(t, call, c, pcs)
  PROVE  Held'
<1>t. /\ Poll \in Tasks /\ Poll \notin Shutdowns /\ Shutdowns \subseteq Tasks
      /\ Tasks = {Poll} \union Shutdowns
      /\ at \in [Tasks -> TaskAwaits]
      /\ doing \in [Tasks -> {"none", "play", "stop", "shutdown"}]
  BY HeldTypes
<1>1. /\ \A s \in Shutdowns \ {t} : at'[s] = at[s] /\ doing'[s] = doing[s]
      /\ at'[t] \in {"idle", "aclose", "starting"}
      /\ t \in Shutdowns => at'[t] = "aclose"
  <2>1. doing' = [doing EXCEPT ![t] = "none"]
    BY DEF stop_returns
  <2>2. at' \in {[pcs EXCEPT ![t] = "starting"], [pcs EXCEPT ![t] = "idle"],
                 [pcs EXCEPT ![t] = "aclose"]}
    BY DEF stop_returns, launch
  <2>3. t \in Shutdowns => at' = [pcs EXCEPT ![t] = "aclose"]
    BY <1>t DEF stop_returns
  <2> QED
    BY <1>t, <2>1, <2>2, <2>3
<1>2. \A s \in Shutdowns : at'[s] \in {"stop_monitor", "stop_wait"} => doing'[s] = "shutdown"
  BY <1>1 DEF Held
<1>3. ASSUME NoneStopped' PROVE t = Poll /\ alive = {}
  <2>1. t = Poll
    BY <1>1, <1>3, <1>t DEF NoneStopped
  <2>2. NoneStopped
    BY <1>1, <1>3, <1>t, <2>1 DEF NoneStopped
  <2> QED
    BY <2>1, <2>2
<1>4. ASSUME NoneStopped', call = "play"
      PROVE  alive' \subseteq {vlc'.process}
  <2>1. launch(t, c, pcs)
    BY <1>4 DEF stop_returns
  <2>2. CASE alive' = alive
    BY <1>3, <1>4, <2>2
  <2>3. CASE alive' # alive
    <3> DEFINE asked == [c EXCEPT !.command = issued + 1, !.started = FALSE]
    <3>1. /\ vlc' = [asked EXCEPT !.process = issued + 1, !.monitor = issued + 1]
          /\ alive' = alive \union {issued + 1}
      BY <2>1, <2>3 DEF launch
    <3>2. vlc'.process = issued + 1
      BY <3>1 DEF Controllers
    <3> QED
      BY <1>3, <1>4, <3>1, <3>2
  <2> QED
    BY <2>2, <2>3
<1>5. ASSUME NoneStopped', call # "play"
      PROVE  alive' \subseteq {vlc'.process}
  BY <1>3, <1>5 DEF stop_returns
<1>6. NoneStopped' => at'[Poll] # "stop_wait"
  BY <1>1, <1>3
<1> QED
  BY <1>2, <1>4, <1>5, <1>6 DEF Held

\* stop(), from its second half and from its beginning.
LEMMA HeldStops ==
  ASSUME IInv, Held, NEW t \in Tasks, NEW call, NEW pcs,
         pcs \in [Tasks -> TaskAwaits],
         \A s \in Shutdowns : pcs[s] = at[s],
         pcs[Poll] \in {at[Poll], "cancelled"},
         call = "play" => t = Poll,
         t \in Shutdowns => call = "shutdown" /\ at[t] \in {"new", "stop_monitor"},
         stop_process(t, call, pcs) \/ stop(t, call, pcs)
  PROVE  Held'
<1>t. /\ Poll \in Tasks /\ Poll \notin Shutdowns /\ Shutdowns \subseteq Tasks
      /\ Tasks = {Poll} \union Shutdowns
      /\ at \in [Tasks -> TaskAwaits]
      /\ doing \in [Tasks -> {"none", "play", "stop", "shutdown"}]
      /\ waits \in [Tasks -> 0..MaxPlays]
      /\ vlc \in Controllers /\ alive \subseteq Plays /\ 0 \notin Plays
  BY HeldTypes
<1> DEFINE c == [vlc EXCEPT !.monitor = 0]
<1>c. c \in Controllers /\ c.process = vlc.process
  BY <1>t, MaxPlaysIsNat DEF Controllers
\* A shutdown that waits is not over with stop().
<1>1. ASSUME NEW new \in {"stop_monitor", "stop_wait"},
             at' = [pcs EXCEPT ![t] = new], doing' = [doing EXCEPT ![t] = call],
             alive' = alive, vlc'.process = vlc.process,
             \/ waits' = waits /\ new = "stop_monitor"
             \/ waits' = [waits EXCEPT ![t] = vlc.process] /\ new = "stop_wait"
      PROVE  Held'
  <2>1. /\ \A s \in Shutdowns \ {t} : at'[s] = at[s] /\ doing'[s] = doing[s]
        /\ at'[t] = new /\ doing'[t] = call
    BY <1>1, <1>t
  <2>2. NoneStopped' => NoneStopped
    BY <2>1 DEF NoneStopped
  <2>3. \A s \in Shutdowns : at'[s] \in {"stop_monitor", "stop_wait"} => doing'[s] = "shutdown"
    BY <2>1 DEF Held
  <2>4. CASE t = Poll
    <3>1. at'[Poll] = "stop_wait" => waits'[Poll] = vlc.process
      BY <1>1, <1>t, <2>1, <2>4
    <3> QED
      BY <1>1, <2>2, <2>3, <3>1 DEF Held
  <2>5. CASE t # Poll
    <3>1. at'[Poll] = pcs[Poll] /\ waits'[Poll] = waits[Poll]
      BY <1>1, <1>t, <2>5
    <3> QED
      BY <1>1, <2>2, <2>3, <3>1 DEF Held
  <2> QED
    BY <2>4, <2>5
<1>2. ASSUME stop_process(t, call, pcs) PROVE Held'
  <2> HIDE DEF c
  <2>1. CASE c.process # 0
    <3>1. /\ vlc' = c /\ doing' = [doing EXCEPT ![t] = call]
          /\ waits' = [waits EXCEPT ![t] = vlc.process]
          /\ at' = [pcs EXCEPT ![t] = "stop_wait"] /\ alive' = alive
      BY <1>2, <1>c, <2>1 DEF stop_process, stop_returns, c
    <3> QED
      BY <1>1, <1>c, <3>1
  <2>2. CASE c.process = 0
    <3>1. stop_returns(t, call, c, pcs)
      BY <1>2, <2>2 DEF stop_process, c
    <3>2. NoneStopped => alive = {}
      BY <1>c, <1>t, <2>2 DEF Held
    <3> QED
      BY <1>c, <2>2, <3>1, <3>2, HeldReturns
  <2> QED
    BY <2>1, <2>2
<1>3. ASSUME stop(t, call, pcs), ~stop_process(t, call, pcs) PROVE Held'
  <2>1. /\ doing' = [doing EXCEPT ![t] = call]
        /\ at' = [pcs EXCEPT ![t] = "stop_monitor"]
        /\ UNCHANGED <<vlc, waits, alive>>
    BY <1>3 DEF stop
  <2> QED
    BY <1>1, <2>1
<1> QED
  BY <1>2, <1>3

\* A step that calls no stop(), takes no shutdown back and launches nothing.
LEMMA HeldKept ==
  ASSUME IInv, Held, alive' \subseteq alive, vlc'.process = vlc.process,
         NoneStopped' => NoneStopped,
         \A s \in Shutdowns : at'[s] \in {"stop_monitor", "stop_wait"} =>
           at'[s] = at[s] /\ doing'[s] = doing[s],
         at'[Poll] = "stop_wait" => at[Poll] = "stop_wait" /\ waits'[Poll] = waits[Poll]
  PROVE  Held'
  BY DEF Held

\* Every step keeps Held.
LEMMA HeldStep == ASSUME IInv, Held, [Next]_vars PROVE Held'
<1>t. /\ Poll \in Tasks /\ Poll \notin Shutdowns /\ Shutdowns \subseteq Tasks
      /\ Tasks = {Poll} \union Shutdowns
      /\ at \in [Tasks -> TaskAwaits]
      /\ doing \in [Tasks -> {"none", "play", "stop", "shutdown"}]
      /\ waits \in [Tasks -> 0..MaxPlays]
      /\ vlc \in Controllers /\ alive \subseteq Plays /\ 0 \notin Plays
      /\ \A t \in Tasks : doing[t] = "play" => t = Poll
  BY HeldTypes
<1>p. Cancelled({Poll}) \in [Tasks -> TaskAwaits] /\ Cancelled(Tasks) \in [Tasks -> TaskAwaits]
  BY <1>t DEF Cancelled, TaskAwaits
<1>1. CASE execute_play \/ execute_stop
  BY <1>1, <1>t, HeldStops DEF execute_play, execute_stop
<1>2. ASSUME NEW t \in Tasks, monitor_awaited(t) PROVE Held'
  <2>1. at[t] = "stop_monitor" /\ stop_process(t, doing[t], at)
    BY <1>2 DEF monitor_awaited
  <2>2. t \in Shutdowns => doing[t] = "shutdown"
    BY <2>1 DEF Held
  <2> QED
    BY <1>t, <2>1, <2>2, HeldStops
<1>3. ASSUME NEW t \in Tasks, process_awaited(t) PROVE Held'
  <2> DEFINE c == [vlc EXCEPT !.process = 0, !.command = 0]
  <2>1. at[t] = "stop_wait" /\ waits[t] \notin alive /\ stop_returns(t, doing[t], c, at)
    BY <1>3 DEF process_awaited
  <2>2. t \in Shutdowns => doing[t] = "shutdown"
    BY <2>1 DEF Held
  <2>3. c \in Controllers /\ c.process = 0
    <3>1. vlc \in Controllers /\ 0 \in 0..MaxPlays
      BY <1>t, MaxPlaysIsNat
    <3> QED
      BY <3>1 DEF Controllers
  <2>4. t = Poll /\ NoneStopped => alive = {}
    BY <2>1 DEF Held
  <2> HIDE DEF c
  <2> QED
    BY <1>t, <2>1, <2>2, <2>3, <2>4, HeldReturns
<1>4. ASSUME NEW t \in Tasks, process_timeout(t) PROVE Held'
  <2>1. at[t] = "stop_wait" /\ vlc' = vlc
    BY <1>4 DEF process_timeout
  <2>2. CASE vlc.process # 0
    <3>1. alive' = alive \ {vlc.process} /\ waits' = [waits EXCEPT ![t] = vlc.process]
          /\ at' = at /\ doing' = doing
      BY <1>4, <2>2 DEF process_timeout
    <3>2. NoneStopped' => NoneStopped
      BY <3>1 DEF NoneStopped
    <3> QED
      BY <1>t, <2>1, <3>1, <3>2 DEF Held
  <2>3. CASE vlc.process = 0
    <3>1. /\ alive' = alive
          /\ at' = [at EXCEPT ![t] = IF t = Poll THEN "idle" ELSE "over"]
          /\ doing' = [doing EXCEPT ![t] = "none"]
          /\ waits' = [waits EXCEPT ![t] = 0]
      BY <1>4, <2>3 DEF process_timeout
    <3>2. NoneStopped' => t = Poll /\ NoneStopped
      BY <1>t, <3>1 DEF NoneStopped
    <3>3. \A s \in Shutdowns : at'[s] \in {"stop_monitor", "stop_wait"} =>
             at'[s] = at[s] /\ doing'[s] = doing[s]
      BY <1>t, <3>1
    <3>4. at'[Poll] = "stop_wait" => at[Poll] = "stop_wait" /\ waits'[Poll] = waits[Poll]
      BY <1>t, <3>1
    <3> QED
      BY <2>1, <3>1, <3>2, <3>3, <3>4, HeldKept
  <2> QED
    BY <2>2, <2>3
<1>5. ASSUME NEW t \in Tasks, task_cancelled(t) PROVE Held'
  <2>1. /\ at[t] = "cancelled" /\ at' = [at EXCEPT ![t] = "over"]
        /\ doing' = [doing EXCEPT ![t] = "none"] /\ waits' = [waits EXCEPT ![t] = 0]
        /\ vlc' = vlc /\ alive' = alive
    BY <1>5 DEF task_cancelled, os
  <2>2. NoneStopped' => NoneStopped
    BY <1>t, <2>1 DEF NoneStopped
  <2>3. \A k \in Tasks : at'[k] \in {"stop_monitor", "stop_wait"} =>
          at'[k] = at[k] /\ doing'[k] = doing[k] /\ waits'[k] = waits[k]
    BY <1>t, <2>1
  <2> QED
    BY <1>t, <2>1, <2>2, <2>3, HeldKept
<1>6. ASSUME NEW k \in Plays, Vlc(k) \/ Monitor(k) \/ playback_started(k) PROVE Held'
  <2>1. /\ alive' \subseteq alive /\ UNCHANGED tasks
        /\ vlc' \in {vlc, [vlc EXCEPT !.started = TRUE]}
    BY <1>6
    DEF Vlc, vlc_closes, vlc_ends, Monitor, monitor_begins, report_returns, output_ended,
        monitor_cancelled, playback_started, os
  <2>2. vlc'.process = vlc.process
    BY <1>t, <2>1 DEF Controllers
  <2>3. UNCHANGED <<at, doing, waits>>
    BY <2>1 DEF tasks
  <2>4. NoneStopped' => NoneStopped
    BY <2>3 DEF NoneStopped
  <2> QED
    BY <2>1, <2>2, <2>3, <2>4, HeldKept
<1>7. CASE play_returns \/ poll_loop_ends
  <2>1. /\ at[Poll] \in {"starting", "idle"}
        /\ \/ at' = [at EXCEPT ![Poll] = "idle"]
           \/ at' = [at EXCEPT ![Poll] = "over"]
        /\ UNCHANGED <<vlc, alive, doing, waits>>
    BY <1>7 DEF play_returns, poll_loop_ends, os
  <2>2. \A s \in Shutdowns : at'[s] = at[s]
    BY <1>t, <2>1
  <2>3. at'[Poll] # "stop_wait" /\ (NoneStopped' => NoneStopped)
    BY <1>t, <2>1, <2>2 DEF NoneStopped
  <2> QED
    BY <2>1, <2>2, <2>3, HeldKept
<1>8. ASSUME NEW s \in Shutdowns, handle_signal(s) \/ shutdown_returns(s) PROVE Held'
  <2>1. /\ \/ at[s] = "none" /\ at' = [at EXCEPT ![s] = "new"]
           \/ at' = [at EXCEPT ![s] = "over"]
        /\ UNCHANGED <<vlc, alive, doing, waits>>
    BY <1>8 DEF handle_signal, shutdown_returns, os
  <2>2. \A k \in Tasks : at'[k] \in {"stop_monitor", "stop_wait"} => at'[k] = at[k]
    BY <1>t, <2>1
  <2>3. NoneStopped' => NoneStopped
    BY <1>t, <2>1 DEF NoneStopped
  <2> QED
    BY <1>t, <2>1, <2>2, <2>3, HeldKept
<1>9. ASSUME NEW s \in Shutdowns, shutdown(s) PROVE Held'
  <2>1. at[s] = "new" /\ stop(s, "shutdown", Cancelled({Poll}))
    BY <1>9 DEF shutdown
  <2>2. \A k \in Shutdowns : Cancelled({Poll})[k] = at[k]
    BY <1>t DEF Cancelled
  <2>3. Cancelled({Poll})[Poll] \in {at[Poll], "cancelled"}
    BY <1>t DEF Cancelled
  <2>4. s \in Tasks /\ s # Poll
    BY <1>t
  <2> QED
    BY <1>p, <2>1, <2>2, <2>3, <2>4, HeldStops
<1>10. CASE heart_cancelled \/ agent_exits \/ UNCHANGED vars
  <2>1. UNCHANGED <<vlc, at, doing, waits, alive>>
    BY <1>10 DEF heart_cancelled, agent_exits, vars, tasks, os
  <2>2. NoneStopped' => NoneStopped
    BY <2>1 DEF NoneStopped
  <2> QED
    BY <2>1, <2>2, HeldKept
<1>11. CASE run_returns
  <2>1. at' = Cancelled(Tasks) /\ UNCHANGED <<vlc, doing, waits, alive>>
    BY <1>11 DEF run_returns, os
  <2>2. \A k \in Tasks : at'[k] = at[k] \/ at'[k] = "cancelled"
    BY <1>t, <2>1 DEF Cancelled
  <2>3. NoneStopped' => NoneStopped
    BY <1>t, <2>2 DEF NoneStopped
  <2> QED
    BY <1>t, <2>1, <2>2, <2>3, HeldKept
<1> QED
  BY <1>1, <1>2, <1>3, <1>4, <1>5, <1>6, <1>7, <1>8, <1>9, <1>10, <1>11
  DEF Next, Task, Shutdown

\* Also while a shutdown cancels the poll loop and stops VLC beside it,
\* VLCController holds the one VLC that runs and its stop() can end it; only the
\* end of a shutdown's stop() can forget one.
THEOREM KnownVlc == Spec => []RunningVlcIsKnown
<1>1. Init => Held
  BY PollIsNoShutdown DEF Init, Held, Tasks
<1>2. Held => RunningVlcIsKnown
  BY DEF Held, NoneStopped, RunningVlcIsKnown
<1> QED
  BY <1>1, <1>2, Inductive, HeldStep, PTL DEF Spec

\* play() returns True only for a VLC that has said it plays, and until a signal
\* is handled each report names the command its VLC was launched for, and is so.
THEOREM TrueReports == Spec => []ReportsAreTrue
<1>1. IInv => ReportsAreTrue
  BY DEF IInv, Truths, ReportsAreTrue
<1> QED
  BY <1>1, Inductive, PTL

==============================================================================
