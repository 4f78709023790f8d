--------------------------- MODULE BookingScheduler --------------------------
(***************************************************************************)
(* Bookings driven by the clock: SchedulerManager arms up to three date    *)
(* jobs for a booking, keeps them in APScheduler's memory, mirrors them in *)
(* the scheduled_jobs table, and rebuilds the memory from it at start-up.  *)
(*                                                                         *)
(* A unit of time is half an hour, the lead of the confirmation deadline.  *)
(* Due jobs and calls in progress finish within it.  A job's id is made of *)
(* its callback and its time alone: here the id is that pair.              *)
(***************************************************************************)
EXTENDS Bookings

CONSTANTS
  Horizon,      \* bound: the last instant
  Crashes,      \* TRUE: the bot's process may stop and be started again
  MappingArgs   \* TRUE: a job is given its booking as a mapping, which is what
                \* _job_wrapper unpacks; schedule_booking_jobs gives a bare id

ASSUME NoneIsNoId == None \notin Ids
ASSUME SlotsWithinHorizon ==
  Horizon \in Nat /\ \A p \in Slots : 0 <= p[1] /\ p[2] <= Horizon
ASSUME SchedulerModes == Crashes \in BOOLEAN /\ MappingArgs \in BOOLEAN

VARIABLES
  now,        \* the clock
  up,         \* the bot's process runs
  memory,     \* APScheduler's job store: job id -> booking, None if no such job
  scheduled_jobs, \* the table, status "pending": job id -> booking
  todo,       \* per booking: what schedule_booking_jobs has still to schedule
  half,       \* bookings whose next job is in memory and not yet in the table
  planned,    \* history: bookings schedule_booking_jobs was called for
  dropped,    \* history: <<job id, booking>> that cancel_job was called for
  runs,       \* history: how often each job id was run
  cut,        \* history: bookings whose schedule_booking_jobs a crash has cut off
  downAt      \* history: the instants in which the process was down, some time,
              \* while a job of the table had yet to run

schedule == <<memory, scheduled_jobs, todo, half, planned, dropped, runs, cut, downAt>>
allVars  == <<vars, now, up, schedule>>

JobIds == {"expire_pending_booking", "activate_booking", "complete_booking"} \X (0..Horizon)

\* The deadline, the start and the end of a booking that exists.
OwnJobs(i) ==
  {<<"expire_pending_booking", slot[i][1] - 1>>,
   <<"activate_booking", slot[i][1]>>,
   <<"complete_booking", slot[i][2]>>}

\* The jobs schedule_booking_jobs arms, which are those still to come.  It
\* takes them in the order of their times.
BookingJobs(i) == {job \in OwnJobs(i) : job[2] > now}

\* For the history: instant t, if a job of the table is due then and has not run.
AtStake(t) == {t} \intersect
  {job[2] : job \in {k \in JobIds : scheduled_jobs[k] # None /\ runs[k] = 0}}

First(jobs) == {job \in jobs : \A k \in jobs : job[2] <= k[2]}

InitScheduler ==
  /\ Init
  /\ now = 0
  /\ up = TRUE
  /\ memory = [job \in JobIds |-> None]
  /\ scheduled_jobs = [job \in JobIds |-> None]
  /\ todo = [i \in Ids |-> {}]
  /\ half = {}
  /\ planned = {}
  /\ dropped = {}
  /\ runs = [job \in JobIds |-> 0]
  /\ cut = {}
  /\ downAt = {}

------------------------------------------------------------------------------
\* Bound: Ids.  A call that finds its slot free will have a row to insert.
RoomToInsert == {i \in Ids : status[i] = "none"} # {} /\ \A v \in Workers : request[v] = None

\* The booking service as the bot's users call it.  Activating, completing and
\* expiring are left to the jobs.
UserCall ==
  /\ up
  /\ \/ \E w \in Workers, d \in TVs, p \in Slots : RoomToInsert /\ check_conflicts(w, d, p)
     \/ \E w \in Workers, i \in Ids : insert_booking(w, i)
     \/ \E i \in Ids : cancel_booking(i)
     \/ \E i \in Ids : confirm_booking(i)
     \/ \E i \in Ids : set_booking_overrun(i)
     \/ \E i \in Ids : resolve_overrun(i)
  /\ UNCHANGED <<now, up, schedule>>

schedule_booking_jobs(i) ==
  /\ up
  /\ i \notin planned  \* bound: once for each booking
  /\ status[i] # "none"
  /\ todo' = [todo EXCEPT ![i] = BookingJobs(i)]
  /\ planned' = planned \union {i}
  /\ UNCHANGED <<vars, now, up, memory, scheduled_jobs, half, dropped, runs, cut, downAt>>

\* schedule_at, first half: into memory, in place of a job with the same id.
schedule_at(i) ==
  /\ i \notin half
  /\ \E job \in First(todo[i]) : memory' = [memory EXCEPT ![job] = i]
  /\ half' = half \union {i}
  /\ UNCHANGED <<vars, now, up, scheduled_jobs, todo, planned, dropped, runs, cut, downAt>>

\* Mutant: schedules the first of a booking's jobs only.
persist_one(i) ==
  /\ i \in half
  /\ half' = half \ {i}
  /\ \E job \in First(todo[i]) :
       scheduled_jobs' = [scheduled_jobs EXCEPT ![job] = IF @ = None THEN i ELSE @]
  /\ todo' = [todo EXCEPT ![i] = {}]
  /\ UNCHANGED <<vars, now, up, memory, planned, dropped, runs, cut, downAt>>

\* schedule_at, second half: into the table.  Job ids are unique there, rows
\* are never removed, and the error ends schedule_booking_jobs.
persist(i) ==
  /\ i \in half
  /\ half' = half \ {i}
  /\ \E job \in First(todo[i]) :
       \/ /\ scheduled_jobs[job] = None
          /\ scheduled_jobs' = [scheduled_jobs EXCEPT ![job] = i]
          /\ todo' = [todo EXCEPT ![i] = @ \ {job}]
       \/ /\ scheduled_jobs[job] # None
          /\ todo' = [todo EXCEPT ![i] = {}]
          /\ UNCHANGED scheduled_jobs
  /\ UNCHANGED <<vars, now, up, memory, planned, dropped, runs, cut, downAt>>

\* Mutant: does not ask whether there is a row.
cancel_job_any(job) ==
  /\ up
  /\ memory' = [memory EXCEPT ![job] = None]
  /\ dropped' = dropped \union {<<job, scheduled_jobs[job]>>}
  /\ UNCHANGED <<vars, now, up, scheduled_jobs, todo, half, planned, runs, cut, downAt>>

\* Forgets the job, and then fails: session.get is called without a key, so
\* the row keeps its status.
cancel_job(job) ==
  /\ up
  /\ scheduled_jobs[job] # None
  /\ memory' = [memory EXCEPT ![job] = None]
  /\ dropped' = dropped \union {<<job, scheduled_jobs[job]>>}
  /\ UNCHANGED <<vars, now, up, scheduled_jobs, todo, half, planned, runs, cut, downAt>>

------------------------------------------------------------------------------
Due == {job \in JobIds : memory[job] # None /\ job[2] <= now}

\* Mutant: activates without asking which booking it is for.
CallbackWithoutId(name, i) ==
  \/ name = "expire_pending_booking" /\ expire_booking(i)
  \/ /\ name = "activate_booking"
     /\ status' = [j \in Ids |-> IF status[j] = "confirmed" THEN "active" ELSE status[j]]
     /\ UNCHANGED <<held, request, reply, unchecked>>
  \/ name = "complete_booking" /\ complete_booking(i)
  \/ UNCHANGED vars

\* Mutant: the handler of complete_booking is not registered.
CallbackNoCompletion(name, i) ==
  \/ name = "expire_pending_booking" /\ expire_booking(i)
  \/ name = "activate_booking" /\ activate_booking(i)
  \/ /\ name = "activate_booking" => status[i] # "confirmed"
     /\ UNCHANGED vars

\* What a callback does with its booking.  A wrong status is logged, no more.
Callback(name, i) ==
  \/ name = "expire_pending_booking" /\ expire_booking(i)
  \/ name = "activate_booking" /\ activate_booking(i)
  \/ name = "complete_booking" /\ complete_booking(i)
  \/ /\ status[i] # CASE name = "expire_pending_booking" -> "pending"
                      [] name = "activate_booking" -> "confirmed"
                      [] name = "complete_booking" -> "active"
     /\ UNCHANGED vars

\* APScheduler takes the job out and runs _job_wrapper.
run_job(job) ==
  /\ up
  /\ job \in Due
  /\ memory' = [memory EXCEPT ![job] = None]
  /\ runs' = [runs EXCEPT ![job] = @ + 1]
  /\ \/ MappingArgs /\ Callback(job[1], memory[job])
     \/ ~MappingArgs /\ UNCHANGED vars
  /\ UNCHANGED <<now, up, scheduled_jobs, todo, half, planned, dropped, cut, downAt>>

crash ==
  /\ Crashes /\ up
  /\ up' = FALSE
  /\ memory' = [job \in JobIds |-> None]
  /\ todo' = [i \in Ids |-> {}]
  /\ half' = {}
  /\ cut' = cut \union {i \in Ids : todo[i] # {}}
  /\ downAt' = downAt \union AtStake(now)
  /\ abandon(Workers)
  /\ UNCHANGED <<now, scheduled_jobs, planned, dropped, runs>>

\* Mutants: start-up takes up jobs of this very instant again, or no jobs.
start_again ==
  /\ ~up
  /\ up' = TRUE
  /\ memory' = [job \in JobIds |-> IF job[2] >= now THEN scheduled_jobs[job] ELSE None]
  /\ UNCHANGED <<vars, now, scheduled_jobs, todo, half, planned, dropped, runs, cut, downAt>>

start_empty ==
  /\ ~up
  /\ up' = TRUE
  /\ UNCHANGED <<vars, now, memory, scheduled_jobs, todo, half, planned, dropped, runs, cut, downAt>>

\* start, with recover_jobs.
start ==
  /\ ~up
  /\ up' = TRUE
  /\ memory' = [job \in JobIds |-> IF job[2] > now THEN scheduled_jobs[job] ELSE None]
  /\ UNCHANGED <<vars, now, scheduled_jobs, todo, half, planned, dropped, runs, cut, downAt>>

tick ==
  /\ now < Horizon  \* bound: Horizon
  /\ Due = {}
  /\ \A i \in Ids : todo[i] = {}
  /\ \A w \in Workers : request[w] = None
  /\ now' = now + 1
  /\ downAt' = IF up THEN downAt ELSE downAt \union AtStake(now')
  /\ UNCHANGED <<vars, up, memory, scheduled_jobs, todo, half, planned, dropped, runs, cut>>

NextScheduler ==
  \/ UserCall
  \/ \E i \in Ids : schedule_booking_jobs(i)
  \/ \E i \in Ids : schedule_at(i)
  \/ \E i \in Ids : persist(i)
  \/ \E job \in JobIds : cancel_job(job)
  \/ \E job \in JobIds : run_job(job)
  \/ crash
  \/ start
  \/ tick

SpecScheduler == InitScheduler /\ [][NextScheduler]_allVars

\* The clock goes on, APScheduler runs what is due, and calls return.
FairScheduler ==
  /\ SpecScheduler
  /\ WF_allVars(tick)
  /\ WF_allVars(\E job \in JobIds : run_job(job))
  /\ WF_allVars(\E i \in Ids : schedule_at(i) \/ persist(i))
  /\ WF_allVars(\E w \in Workers, i \in Ids : insert_booking(w, i) /\ UNCHANGED <<now, up, schedule>>)

------------------------------------------------------------------------------
\* Jobs name bookings that exist, ids keep their types.
TypeOKScheduler ==
  /\ TypeOK
  /\ now \in 0..Horizon
  /\ up \in BOOLEAN
  /\ memory \in [JobIds -> Ids \union {None}]
  /\ scheduled_jobs \in [JobIds -> Ids \union {None}]
  /\ todo \in [Ids -> SUBSET JobIds]
  /\ half \subseteq Ids /\ planned \subseteq Ids
  /\ dropped \subseteq JobIds \X Ids
  /\ runs \in [JobIds -> Nat]
  /\ cut \subseteq Ids /\ downAt \subseteq 0..Horizon

\* The table is never told that a job was run, yet no restart, and no booking
\* that happens to share the job's id, makes a job run a second time.
NoJobRunsTwice == \A job \in JobIds : runs[job] <= 1

\* Two checked bookings of one TV are active together only when one of them is
\* past its end: no job comes early, goes to another booking's time or comes
\* back too soon from the table, in spite of shared ids and restarts.
OneActiveInTime ==
  \A i, j \in Ids \ unchecked :
    (i # j /\ tv[i] = tv[j] /\ status[i] = "active" /\ status[j] = "active")
      => slot[i][2] <= now \/ slot[j][2] <= now

\* Once a booking's jobs are scheduled, each that is to come is armed while the
\* process runs, through crashes and starts, unless cancel_job was called for it
\* or its id, or that of an earlier job of the booking, is another booking's.
BookedJobsAreArmed ==
  \A i \in planned \ cut : up /\ todo[i] = {} =>
    \A job \in BookingJobs(i) :
      \/ memory[job] = i
      \/ \E j \in Ids : <<job, j>> \in dropped
      \/ \E j \in Ids \ {i} :
           \/ memory[job] = j
           \/ \E k \in OwnJobs(i) \intersect JobIds : k[2] < job[2] /\ scheduled_jobs[k] = j

\* Every row of a job still to come is armed, whatever a crash has cut off.
RowsAreArmed ==
  \A job \in JobIds :
    (up /\ job[2] > now /\ scheduled_jobs[job] # None /\ <<job, scheduled_jobs[job]>> \notin dropped)
      => memory[job] # None

\* No job to come is forgotten: a booking loses one only to a crash in the
\* middle of schedule_booking_jobs, to cancel_job or to a booking of the same time.
FutureJobsAreArmed == BookedJobsAreArmed /\ RowsAreArmed

\* A job of the table that nobody cancelled and that did not run when its time
\* had come was missed: the process was down in that instant.
MissedOnlyWhileDown ==
  \A job \in JobIds :
    (/\ job[2] < now /\ runs[job] = 0
     /\ scheduled_jobs[job] # None /\ <<job, scheduled_jobs[job]>> \notin dropped)
      => job[2] \in downAt

RunningJobs(i) ==
  IF slot[i] = None THEN {}
  ELSE {<<"activate_booking", slot[i][1]>>, <<"complete_booking", slot[i][2]>>}

\* A confirmed booking with both its jobs armed does not stay confirmed or
\* active: it is completed, cancelled or overruns.  Only cancel_job or another
\* booking, with a job of the same id, can take that from it.
ArmedBookingEnds ==
  \A i \in Ids :
    (status[i] = "confirmed" /\ \A job \in RunningJobs(i) : memory[job] = i) ~>
      \/ status[i] \in Finished \union {"overrun"}
      \/ \E job \in RunningJobs(i) : <<job, i>> \in dropped \/ memory[job] \notin {i, None}

------------------------------------------------------------------------------
(* What the code's words promise and the code does not keep.                *)

\* services/scheduler.py:7: the table is kept so that jobs survive restarts.  A
\* job whose time is over was run.
PersistedJobsRun ==
  \A job \in JobIds :
    (job[2] < now /\ scheduled_jobs[job] # None /\ <<job, scheduled_jobs[job]>> \notin dropped)
      => runs[job] > 0

\* services/scheduler.py:271: at its start a confirmed booking is activated.
ActivationActivates ==
  [][\A i \in Ids, t \in 0..Horizon :
       LET job == <<"activate_booking", t>> IN
       (memory[job] = i /\ runs'[job] > runs[job] /\ status[i] = "confirmed")
         => status'[i] = "active"]_allVars

\* services/scheduler.py:257: a booking gets its completion job.
JobsAreScheduled ==
  \A i \in planned :
    (todo[i] = {} /\ status[i] \in Blocking /\ slot[i][2] > now) =>
      scheduled_jobs[<<"complete_booking", slot[i][2]>>] = i

\* services/scheduler.py:197: a job is written to the table before it is armed.
MemoryIsPersisted ==
  \A job \in JobIds : memory[job] # None => scheduled_jobs[job] = memory[job]

\* services/scheduler.py:237: a cancelled job is out of memory and table.
CancelledJobsStayAway ==
  \A job \in JobIds, i \in Ids : <<job, i>> \in dropped => memory[job] # i
==============================================================================
