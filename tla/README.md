# QueBaykal in TLA+

QueBaykal is a Telegram bot with which a chat suggests films, votes for one,
downloads it, books a TV and plays it there. This directory holds TLA+ modules
of its core logic, the TLC instances that check them, and TLAPS proofs of what
matters most. Module and action names are those of the Python functions, and
`PROJECT.json` gives for every definition the source lines it stands for.

## The system

Two processes share one PostgreSQL database: `bot` (aiogram handlers and an
APScheduler) and `api` (FastAPI). An agent on each TV's computer polls `api`.

| Component | Source | State | Operations | What is hard |
|---|---|---|---|---|
| Voting service | `services/voting.py` | `vote_sessions`, `event_movies`, `votes` | suggest, react, filter, final ballot, winner, cancel, retry | counters beside the votes they count, rounds started over, timers of old rounds |
| Voting handlers, jobs | `bot/handlers/voting.py`, `bot/handlers/downloader.py`, `services/scheduler_jobs.py` | the same and `users`, through one database session per call | `/vote` and its buttons, `/provide_link`, `/play`, `/stop`, the two timers | every `await` lets another task in between a check and its write; commands find their session by its state |
| Booking service | `services/bookings.py` | `bookings` | create, confirm, activate, complete, cancel, overrun, expire, list free slots | check and INSERT apart; OVERRUN gives the slot up and takes it back |
| Scheduler | `services/scheduler.py` | APScheduler's memory and the table `scheduled_jobs` | schedule, cancel, run, recover at start | two stores written one after the other, job ids shared by bookings, crashes |
| Agent API | `api/routers/agent.py` | command queues and a counter in memory, `tv_devices` | queue, poll, report, register, heartbeat, watchdog | restarts on either side, late and lost reports |
| TV agent | `agent/main.py` | last command number, the VLC process, its monitor task | poll loop, execute, VLC play/stop/monitor, signals | a play that waits, VLC that ends or hangs, cancellations that are swallowed or passed on, two kinds of numbers |
| Downloader | `services/downloader.py` | `media_files`, files | download, move, record, link to the film | long awaits, failures half way |
| Notifications | `services/notifications.py`, `bot/notifiers.py` | settings JSON of a chat | reminders, settings | nothing reaches them (see below) |
| The rest | delivery, observability, wiring, config, migrations | none of their own | | |

How they interact: a handler or a job opens a session, calls service functions
that read, check and write, and commits; the scheduler calls back into the
service with a job's arguments; the API queues commands the agent fetches, and
the agent's reports take them off the queue. Nothing but the database and the
event loop keeps two calls apart.

What makes each part correct: a vote counts once, and the film that wins is the
one most members voted for; a TV is never promised twice for one instant; what
was scheduled happens, once; a command is carried out once and in order.

### What the repository does at start-up

As committed, the program does not run. The models describe the logic behind
these defects, under the assumption stated with each:

* `bot/__main__.py:46` imports `bot/handlers/bookings.py`, which is missing:
  the booking commands are modelled as any caller of `services/bookings.py`
  (`UserCall`), which has no other.
* No middleware gives a handler its `session`: each call is taken to run in
  `db.session.session_scope`, which commits on return and rolls back on an exception.
* `db.session.async_session_maker` is never assigned (`FactoryReady` of
  `VoteSession` and `Devices`, configuration `MCVoteSession_factory.cfg`).
* `SchedulerManager.schedule_once`, used by `bot/handlers/voting.py` and
  `services/notifications.py`, does not exist: the voting timers are taken to be
  one-shot jobs. `services.voting:end_suggest_job` is taken to mean the job of
  that name in `services/scheduler_jobs.py`.
* Several modules call a standard `logging.Logger` with keyword fields, which
  raises TypeError (`KeywordLogging`, configuration
  `MCAgentCommands_logging.cfg`; the runs take a logger that accepts them, as
  the one of `core/logging.py` does; `Downloads` lets a failed download end either way).
* Wrong arguments make single statements fail: `session.get(ScheduledJob, )`
  (modelled in `cancel_job`), bare ids as job arguments (`MappingArgs`,
  configuration `MCBookingScheduler_bare_id.cfg`), `ChatTVBinding` not imported
  (`bot/handlers/voting.py:177`), the join of `bot/handlers/downloader.py:64`
  (taken to find its film), `session.get(x.__class__, ...)` in lines 142 and 274.
* `api/routers/agent.py` writes times without a zone into columns that have one
  (`Devices` takes them to be stored and compared as UTC). `/dl_status` raises
  once its chat has had two sessions; it changes nothing.
* `/vote planned` parses its date as a number (`bot/handlers/voting.py:156`) and
  raises, so a booking is never made by a vote and the voting and booking
  modules do not share state.
* The agent router's prefix is given twice, `shutdown` awaits None
  (`services/scheduler.py:136`), foreign keys of the models are ambiguous.
* No code sets COMPLETED or FAILED, and none schedules the watchdog: `Devices` lets it run
  at any moment and never makes it run (configuration `MCDevices_unwatched.cfg`).

## The modules

**`VoteSession`** is the abstract specification of one session: every handler
and job is one step. State: the columns of the session (`state`, `top_n`,
`winner_movie_id`), of its films (`status`, `reaction_count`, `final_votes`,
`media`), the votes rows by type (`fires`, `ballots`) and the timers still held
(`jobs`). CREATED, FILTER and WINNER_SELECTED are passed inside one transaction
and never committed. With `ServiceCallers` the service functions are called
directly too, as their signature allows and the bot does not (`retry_vote`).

**`VotingTx`** is the detailed specification: each handler is a `begin` that
reads and decides and a `commit` that writes the changed columns, and up to
`Workers` of them overlap, as PostgreSQL's READ COMMITTED and the ORM's unit of
work make them. All reads of a transaction are taken at one point. With one
worker it implements `VoteSession` (`VS == INSTANCE VoteSession WITH ...`);
films are rows there and titles here, since two rows can get one title.

**`Bookings`** has `create_booking` in two steps (query, INSERT) and every other
operation in one. `unchecked` remembers which bookings hold a slot without a
check. `Serial` says whether two `create_booking` calls may overlap.
**`FreeSlots`** adds `list_free_slots`, a sweep over the bookings in order of
their start (`Swept`), and compares it with what `create_booking` would accept, slot by
slot, in every reachable state of `Bookings`.

**`BookingScheduler`** EXTENDS `Bookings` with the clock, APScheduler's memory,
the table, the jobs still to be scheduled and those half written, crashes and
starts. Jobs, crashes and starts move a booking only by the actions of `Bookings`, so that
every behaviour is one of it. The histories `cut` (bookings whose scheduling a crash cut off) and
`downAt` (instants at which the process was down with a job due) say how a job may be lost.

**`AgentCommands`** is one TV's command queue and its agent: `add_command`,
`poll_commands`, `execute_command`, the wait of `VLCController.play`, the
monitor's reports, and restarts of either process. A report that is never
received is a lost one; any order and delay is possible. `played` remembers the numbers
playbacks have had: they count from 1 as the commands do. The command kinds that
touch nothing modelled (pause, seek, volume, index, status) are one, `"other"`.

**`Downloads`** is the fetching of a winner's file by overlapping calls.
`/provide_link` keeps one transaction open from its first query to its answer;
`task` says where each call is, the state and the file it will commit, and
`holder` which transaction's UPDATE locks the session's and the film's row. Only
a call over a *failed* session updates, and locks, the session before the download
(assigning the state it already has emits no statement), so two calls may lock the rows in
opposite orders; `deadlock_detected` is PostgreSQL's answer. `disk` changes when the
file is moved, the rows only at `commit`. The semaphore of a `Downloader` is not
a step: every call makes its own (`DownloadsAreLimited`). yt-dlp is a step that ends with
a file, without one, or by an exception.

**`ChatSessions`** has the sessions of one chat as far as the commands tell them
apart: which one a command finds by its state, or that it finds two and raises, and
the state it commits later. `/vote` is its steps from the look-up of the user
(`telegram_id` is unique, so a second INSERT waits for the first) over the look-up of an active
session to `create_vote_session`; every other command is a begin and a `commit`, with the
row lock of `/provide_link` between. What happens inside a session is a free choice
among the states it may go on to. `overlapped`, `before` and `failed` are histories that
the properties need.

**`Devices`** is the row of one TV in `tv_devices`. A request is the steps of its
transactions: `verify_agent_token` reads and commits, `/heartbeat` then merges the
device it was given into a second session, and the first session commits at its exit;
`refreshed` is the ORM's UPDATE of the columns that differ from what was read. Register
and its unique key, the watchdog's query and its commit are apart in the same way; `crossed` and
`raced` remember which requests a run of the watchdog has overlapped. Times
are ages in units of a heartbeat. One device: the device number of a request is its own.

**`VlcController`** is one agent process on asyncio's event loop: the poll task, the
tasks of `shutdown`, the monitors of the VLC processes, and the processes themselves,
each at one of its awaits. It follows a cancellation to where it goes: `stop()` awaits
the monitor and swallows what is thrown into it there, whoever it was meant for. A
stop that another stop has overtaken (`self.process` is None already) fails at
`kill`. The branch of `stop` for any other error (`agent/main.py:169`) is left out: on POSIX
`terminate` of a child that was not reaped cannot fail, and of one that was it does nothing. `asyncio.run` cancels what is left when the loops are over and waits for
the executor's threads. It shares no variable with `AgentCommands`, where the same agent
is seen from the backend.

`MC<Module>.tla` has the instance's sets and its symmetry, `<Module>_proofs.tla`
the theorems (those of `Bookings` and `FreeSlots` are in `BookingScheduler_proofs`). Definitions commented `Mutant:` are broken variants of the one
that follows; each property of a run is known to fail when its mutant is put in
place. Two invariants name what belongs together: `FairRounds` is `OneFinalVotePerUser`,
`BallotsOnlyForFinalists` and `RoundStartsClean`; `LegitimateOutcome` is `WinnerIsUnique`,
`WinnerIsLegitimate` and `ReadyHasWinnersFile`.

## What the runs check

Passing:

| Run | Bounds | Shows |
|---|---|---|
| `VoteSession_rounds` | 2 members, 3 films, quorum 2, top 2 or 5, any number of rounds | counters agree with votes; rounds are fair (`FairRounds`) and what is played was chosen (`LegitimateOutcome`); the filter keeps the top; suggestions end; an armed final vote is decided |
| `VotingTx_serial` | 2 members, 2 titles, 2 rows, 1 worker | the transactions implement `VoteSession`, where no title is suggested twice |
| `VotingTx_overlap` | 2 members, 1 film, 2 workers | no ballot is credited that was not cast; what downloads or plays has its winner |
| `FreeSlots_slots` | 3 bookings, 2 TVs, 3 slots | checked bookings never share an instant of a TV; the free slots are what can be booked, as separate intervals |
| `BookingScheduler_restarts` | 2 bookings, slots 1-3 and 3-4, 4 half hours, crashes | no job runs twice, one booking active in time; a job to come is armed but for a crash within its scheduling, `cancel_job` or a booking of the same instant, and one of the table is missed only when the process was down at its instant |
| `BookingScheduler_steady` | the same without crashes | a booking with both jobs armed ends |
| `AgentCommands_order` | 3 commands, both processes restart, numbers collide | in order and once in one life of the agent |
| `AgentCommands_delivered` | 3 commands, no restarts, numbers collide | no command is hidden; one leaves the queue unbegun only if a playback has had its number; all others are executed |
| `Downloads_overlap` | 3 calls, 2 files, crashes | recorded files are on disk, what is ready can be played, every call ends |
| `VlcController_signals` | 3 plays, any number of stops, a signal | one VLC at a time, known to the controller, until a shutdown's `stop()` is over; until the signal true reports; True means that it played; every stop returns; the signal ends the agent if VLC obeys |
| `Devices_heartbeats` | 2 requests, 2 hostnames, stale after 2 | an answered token lets the agent in; a TV heard in time is OFFLINE only after its last request met a run of the watchdog; a request leads to ONLINE |
| `ChatSessions_chat` | 2 calls, 2 members, 3 sessions | votes meet only when neither `/vote` could see the other; one at a time, at most two sessions are active, the older one a revived failure |

Beyond these, properties that a comment, a docstring or a document of the repository
states and the code does not keep are defined at the end of each module, and TLC gives
the counterexample. A configuration in bold checks its property as it stands (`tlc -config
MC<Module>_<name>.cfg MC<Module>.tla`); for the others, put the property in place of
those the configuration names.

| Module | Configuration | Refutes | What happens |
|---|---|---|---|
| `VoteSession` | **`final_vote_ends`** | `FinalVoteEnds` | the suggestion timer, or a round without a finalist, enters a final vote that no timer ends (`bot/handlers/voting.py:403`) |
| `VoteSession` | **`quorum`** | `QuorumFailureCancels` | a missed quorum raises instead of cancelling, the session stays in FINAL_VOTE |
| `VoteSession` | `final_vote_ends` | `RetryCommandAvailable` | `/retry_vote` looks for an active session and wants one that is not |
| `VoteSession` | **`cancelled`** | `CancelledIsFinal` | the service's `retry_vote` reopens a cancelled session |
| `VoteSession` | `cancelled` | `RetryReopensFinalVote` | `retry_vote` goes back to the suggestions, the README says to the final |
| `VoteSession` | **`factory`** | `SuggestionsEnd` | without a session factory the timer does nothing |
| `VotingTx` | **`double_ballot`** | `OneFinalVotePerUser` | two taps served at once are both counted (`services/voting.py:341`) |
| `VotingTx` | `double_ballot` | `ReactionCountMatches` | two reactions at once move the counter by one |
| `VotingTx` | `double_ballot` | `TitlesAreUnique` | one title suggested twice at once makes two films |
| `VotingTx` | `double_ballot` | `BallotsOnlyForFinalists` | a late reaction takes a film off the finalists after ballots were cast |
| `VotingTx` | `double_ballot` | `CancelledIsFinal` | a handler commits its own state over CANCELLED |
| `Bookings` | **`overrun`** | `SlotExclusive` | a resolved overrun takes back a slot that was given away (`services/bookings.py:244`) |
| `Bookings` | **`race`** | `CheckedBookingsExclusive` | two overlapping `create_booking` calls both insert |
| `Bookings` | **`two_conflicts`** | `ConflictIsReported` | two conflicting rows raise MultipleResultsFound |
| `BookingScheduler` | **`survive`** | `PersistedJobsRun` | jobs missed while the process was down never run |
| `BookingScheduler` | **`bare_id`** | `ActivationActivates` | `args=[booking.id]` does not fit `**job_kwargs` |
| `BookingScheduler` | `steady` | `JobsAreScheduled` | the slot of a cancelled booking gives its job ids to the next one |
| `BookingScheduler` | `survive` | `MemoryIsPersisted` | a job is in memory before its row exists |
| `BookingScheduler` | `survive` | `CancelledJobsStayAway` | a cancelled job comes back at the next start |
| `AgentCommands` | **`backend_restart`** | `UnfetchedIsPollable` | after a restart of the API new commands are numbered below what the agent has seen (`api/routers/agent.py:180`) |
| `AgentCommands` | **`agent_restart`** | `CommandsExecutedOnce` | an agent that restarts executes a queued command again |
| `AgentCommands` | **`playback_id`** | `OnlyExecutedLeave` | a playback report removes another command of that number |
| `AgentCommands` | `delivered` | `FailedPlayIsOver` | a slow VLC is reported failed and goes on to play |
| `AgentCommands` | **`logging`** | `AgentPolls` | a log call raises, the agent never polls |
| `Downloads` | `overlap` | `DownloadsAreLimited` | three downloads at once, though `max_concurrent` is 2 |
| `Downloads` | `overlap` | `ReadyStays` | a failing call takes a ready session back to DOWNLOAD_FAILED |
| `VlcController` | `signals` | `ShutdownStopsVlc` | the agent ends and its VLC plays on: `shutdown` is cancelled inside its own stop, or the poll task outlives its cancellation and plays (`agent/main.py:587`) |
| `VlcController` | `signals` | `OneVlc` | a `stop()` that has waited for an earlier VLC forgets the one that runs now: after a signal two run at once (`agent/main.py:108`) |
| `VlcController` | `signals` | `EndIsReported` | the monitor reads the end of the output before the process has ended, and reports nothing (`agent/main.py:249`) |
| `VlcController` | `signals` | `SignalEndsAgentAnyway` | a VLC that ignores SIGTERM keeps the agent's process from ending |
| `Devices` | `heartbeats` | `OfflineWasStale` | the watchdog writes OFFLINE over a heartbeat that came after its query (`api/routers/agent.py:280`) |
| `Devices` | `heartbeats` | `HostnameIsRegistered` | a heartbeat writes back the hostname from before a registration |
| `Devices` | **`unwatched`** | `SilentGoesOffline` | nothing schedules the watchdog: a silent TV stays ONLINE, also with a session factory and a logger that takes keyword fields (`services/scheduler_jobs.py:65`) |
| `ChatSessions` | `chat` | `OneActiveSession` | two `/vote` at once make two sessions, and from then on every command raises |
| `ChatSessions` | `chat` | `OneActiveInTurn` | the same without overlap: a download fails, `/vote`, `/retry_download` |
| `ChatSessions` | `chat` | `LinkCanBeProvided` | with two sessions that wait for a link `/provide_link` raises |

Why the bounds are enough to be interesting: two members tie or differ, three
films overfill a top 2 and tie at its edge, and retries reuse every column. Three
slots that touch, overlap and nest give each case of the overlap test, three
bookings an overrun with a successor. Two touching slots share a job time, and
four half hours contain deadline, start and end of both. Three commands let one be
executed, one be fetched and one wait. Three calls let two wait for each other
while a third waits for either. Three plays let a VLC meet its successor, and a call of `stop()` one
that was launched after the VLC it waits for; with two signals, where a shutdown is overtaken by
another, the invariants hold in all 1.7 million states (run by hand). Two requests are a heartbeat and what comes
between its reads and its writes. Three sessions are one more than the chat is ever shown to have
active (four give no counterexample in the first 13 million states either). `MaxCount` (lost updates can raise a
counter for ever), `Horizon`, `MaxIssued`, `MaxPlays`, `MaxSessions`, `Rows`, `Ids` and `Files` are the bounds on what grows.
`CHECK_DEADLOCK FALSE` is set where a behaviour may end: the horizon or every
booking is used up, or a cancelled session has nothing left to do; that no call of
`Downloads` waits for ever is then `CallsEnd`.

Fairness. In `VoteSession`: the two timers only (APScheduler runs a job whose
time has come); people need not act. In `BookingScheduler`: the clock, due jobs,
and calls in progress. In `AgentCommands`: the agent's own loop, whose waits all
have a limit; nothing is assumed of reports, of VLC or of the people who queue commands. In
`Downloads`: a call that can go on does (yt-dlp has timeouts), PostgreSQL grants a row in
the order of waiting (strong fairness of the waiting steps) and looks for deadlocks. In
`VlcController`: the event loop runs every task that can go on, timers expire, a batch
of commands ends; that VLC ends when told to is a premise of `SignalEndsAgent`, not of the
specification. In `Devices`: requests are served, time passes, and a run of the watchdog
that has begun commits. Nothing makes one begin, since the repository has the job and nothing that
schedules it; the agent need not send anything either. `VotingTx`, `FreeSlots` and
`ChatSessions` state no liveness: people need not act.

## What is proved

TLAPS checks, for every value of the constants that satisfies the ASSUMEs:

* `VoteSession_proofs`: `TypeCorrect`, then `RoundShape`, the inductive core: which
  film statuses, votes and winner each session state allows. `FinalistsStay`
  alone is not inductive, since nothing in it says that a film cannot be filtered
  again while ballots are cast; `Shape` ties statuses to states. On it rest
  `BallotsAreFair` (`OneVoteEach`, `FinalistsStay`), `OutcomeIsLegitimate`
  (`OneWinner`, `RightWinner`, `FileAtHand`), `CleanRounds`, and with them
  `FairRoundsHold` and `LegitimateOutcomes`; then `CountersCorrect`
  (cardinalities of voters, lemmas `VoteAdded`, `VoteRemoved`, `NoVotes`) and the
  action property `FilterCorrect` (an order of the films lists each once,
  `OrderListsAll`). `Users` and `Movies` are finite.
* `VotingTx_proofs`, for any number of overlapping transactions: types; `NoneInvented`
  and `WinnerRecorded` as long as only the bot calls the service (`~ServiceCallers`:
  `retry_vote`, which no command of the bot reaches, removes ballots and winner). Inductive with
  what is still so of the writes of an open transaction, whatever was committed since it read: a
  credited film comes with its ballot and one more than there were at most
  (`CreditsItsBallot`), a decided state with its winner (`BringsWinner`). Then
  `SerialImplements`: with one worker every commit is the step of `VoteSession` its handler
  names, under the mapping of rows to titles. Its invariant (`SInv`) is that titles are unique and
  that an open transaction writes exactly what its handler would decide from what is
  committed now (`Decides`). `end_suggest` picks its finalists by an order of the films; that
  any set of the top films begins such an order is `OrderBegins`.
* `BookingScheduler_proofs`, the service alone: `NoDoubleBooking` when `create_booking` calls
  do not overlap. Its invariant adds to disjointness that one request is on its way and
  that the slot it found free is still free (`Reserved`). `FreeSlotsHold`: the loop of
  `list_free_slots` keeps the invariant `SweptSoFar` (what lies before the cursor is decided: gaps
  are apart, free of every booking, and hold whatever fits), for any windows and any
  number of bookings, overlapping or nested; that the table is finite is an invariant of its own.
* `BookingScheduler_proofs`, with the clock: types; `RunOnce`, with
  the invariant that an id run once lies in the past of memory, table and clock;
  `OneAtATime`, from `NoDoubleBooking` and the invariant that a job in memory or
  table carries the time of its booking (`JobTimes`), by way of `RefinesBookings` (every step is
  one of `Bookings` or none, which the definitions say almost by themselves: a lemma, not a result);
  `FutureArmed`, with what the process has half done (`HalfDone`), that every row of a job to come
  that nobody cancelled is in memory while the process is up (`Armed`), and that each planned job is
  still to be scheduled, has a row of its id, or comes after an id another booking has taken
  (`Booked`); `MissedDown`, with the invariant that a job due now is in memory, has run, or met the
  process down (`KeptOrRun`).
* `VlcController_proofs`: types, `KnownVlc` and `TrueReports`, for any number of plays, stops and
  signals. Until the signal is handled only the poll loop calls the controller (`Calm`), at most one
  monitor and one VLC are at work and the controller holds both (`KnownMonitor`, `KnownProcess`);
  after it no monitor reads on, so nothing more is said of a VLC (`Truths`). `KnownVlc` goes beyond the
  signal: while shutdowns cancel the poll loop and stop VLC beside it, the process the
  controller holds is the one that runs and the one the poll loop waits for, until the first
  shutdown's `stop()` is over (`Held`).
* `AgentCommands_proofs`: `Ordered`, from the invariant that numbers and tickets of
  queue and poll response grow together and that what was executed in this life
  lies before both (a backend that starts over breaks the numbers, not the
  tickets of one poll). While the backend does not stop, a command's number is its ticket
  (`Numbers`); then `Pollable` and `KeptInQueue`: every report names a command that was begun
  or the number of a playback (`Reported`).
* `Downloads_proofs`: types, `Recorded` and `Playable`. Inductive with `Carried`: a call
  has its file on disk before it inserts, links or announces it, and the
  committed link is to a committed row. For any number of calls, files and crashes.
* `ChatSessions_proofs`: `TypeCorrect`, with one row per user, `VotesMeet` and
  `SecondActive`, for any number of calls, members and sessions. Inductive with `CallsKnow`
  (a call that may create has seen no vote among the sessions committed when it began, and no
  command takes a session back to voting), `InsertsAlone` and, for calls that do not
  overlap, `InTurn`: what the one call under way has read is still so, every session
  but the youngest has failed once or is cancelled, and beside two active sessions there is
  none that could be taken up (`TwoAtMost`).
* `Devices_proofs`: types and `LetIn`. Inductive with `HasDevice`: a request past its
  look-up has read a row, and rows do not go away. `OfflineSilent`, with `Crossing` (while the
  watchdog is between query and commit, every request that reads is marked) and
  `SelectedIsSilent` (what it selected is stale, or was heard by a marked request).

Every invariant, action property and refinement of the passing runs is proved. Some
theorems have a hypothesis, and each is one the code can meet: `Serial` (calls of
`create_booking` that do not overlap), a backend that does not stop, calls served in turn, `~ServiceCallers`, one worker; a
configuration or a refuted property above shows what happens without it (`race`,
`backend_restart`, `OneActiveSession`, `double_ballot`). Without `~ServiceCallers` both invariants fail, when `retry_vote` removes the
ballots and the winner between another call's reads and its commit (configuration `overlap`
with `ServiceCallers = TRUE`).

Checked by TLC only: liveness, that is `SuggestionsEnd`, `ArmedFinalVoteIsDecided`,
`ArmedBookingEnds`, `CommandsAreExecuted`, `CallsEnd`, `StopReturns`, `SignalEndsAgent`
and `SpeakingGoesOnline`; it rests on fairness and ENABLED, which the
prover does not reason about. The library's induction theorems take an operator as a
parameter and cannot be used either; the two inductions the proofs need (over the subsets of a
finite set of films, over the turns of a loop) are done by a smallest counterexample, from the
library's first-order theorem that strict subsets of a finite set are well founded
(`LeastSubset`, `UpTo`). No module declares a RECURSIVE operator. `TypeOK` of `VotingTx` and of
`Bookings` is in no run, and proved.

## What is not modelled

Notifications, reminders and settings: no code calls what schedules a reminder or sends a
notice, `SchedulerManager.schedule_once` does not exist, nothing calls
`dispatcher.set_bot`, and the settings commands look the chat up once more with its row
number where a Telegram number is compared, and answer "not found" before they write. The downloader's options, metadata, subtitles and checksums, and the agent's library
scan, decide nothing. `VlcController` and `AgentCommands` are two views of one agent and
are not composed, and neither are `Devices` and `AgentCommands`: a poll's token is checked
before it and its answer does not depend on the row. Delivery,
observability, wiring, configuration, migrations and message texts keep no state
a decision depends on. Columns no modelled decision reads are left out. A
database outage is seen only as a call that is rolled back.

## Plan

Done: the modules above, in the order given: voting first, since it is what the bot is
for; its transactions; bookings, slots, scheduler; the agent's commands; downloads; the agent's
process; devices; the sessions of a chat.

Proved: the safety properties of all runs. Next, proving what would say more than the runs do: the
fair rounds and legitimate outcomes of `VoteSession` for the transactions of one worker,
through `SerialImplements`; the safety half of `CallsEnd`, that calls of `Downloads` which
wait for each other form a cycle of two that `deadlock_detected` can break.
