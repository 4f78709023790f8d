------------------------------ MODULE Downloads ------------------------------
(***************************************************************************)
(* The bot fetches the winner's file.  Each /provide_link is a task with a *)
(* database transaction of its own that stays open for the whole download; *)
(* several may be served at once, together with /retry_download and with   *)
(* the cancellation of the session.                                        *)
(*                                                                         *)
(* A task reads the committed row, decides, and writes later: an UPDATE    *)
(* takes the lock of its row and keeps it to the end of the transaction.   *)
(* The file is moved into the download directory long before the commit,   *)
(* and stays there whatever becomes of the transaction.                    *)
(***************************************************************************)
EXTENDS Integers, FiniteSets

CONSTANTS
  Tasks,           \* handler invocations that may overlap
  Files,           \* bound: names the uuid4 suffix gives to downloaded files
  NoFile,          \* a NULL media_file_id, and a task that has no file yet
  NoTask,          \* nobody holds the row
  max_concurrent   \* places in a Downloader's semaphore

ASSUME NoFileIsNoFile == NoFile \notin Files
ASSUME NoTaskIsNoTask == NoTask \notin Tasks
ASSUME PlacesAreNat == max_concurrent \in Nat

VARIABLES
  state,          \* vote_sessions.state of the session, as committed
  media_file_id,  \* event_movies.media_file_id of its winner, as committed
  media_files,    \* committed rows of media_files
  disk,           \* files in download_dir
  holder,         \* the task whose uncommitted UPDATE locks the row
  task            \* where each task is, the state and the file it will commit

vars == <<state, media_file_id, media_files, disk, holder, task>>

Rows   == {"session", "movie"}
States == {"downloading", "download_failed", "ready", "cancelled"}

Idle == [pc |-> "idle", result |-> "downloading", file |-> NoFile]

Init ==
  /\ state = "downloading"
  /\ media_file_id = NoFile
  /\ media_files = {}
  /\ disk = {}
  /\ holder = [row \in Rows |-> NoTask]
  /\ task = [t \in Tasks |-> Idle]

At(t, pc) == task[t].pc = pc

Go(t, pc) == task' = [task EXCEPT ![t].pc = pc]

\* The transaction's hold on the row: it waits while another task has it.
lock(t, row) ==
  /\ holder[row] \in {NoTask, t}
  /\ holder' = [holder EXCEPT ![row] = t]

release(t) == holder' = [row \in Rows |-> IF holder[row] = t THEN NoTask ELSE holder[row]]

\* Mutant: a handler that raises leaves its transaction open.
rollback_missing(t) ==
  /\ task' = [task EXCEPT ![t] = Idle]
  /\ UNCHANGED <<state, media_file_id, media_files, disk, holder>>

\* The handler ends by an exception, and its transaction with it.
rollback(t) ==
  /\ task' = [task EXCEPT ![t] = Idle]
  /\ release(t)
  /\ UNCHANGED <<state, media_file_id, media_files, disk>>

-----------------------------------------------------------------------------
\* A session that downloads already is assigned the state it has, and the flush
\* emits nothing: only a failed one is updated, and locked, before the download.
cmd_provide_link(t) ==
  /\ At(t, "idle")
  /\ state \in {"downloading", "download_failed"}
  /\ Go(t, IF state = "downloading" THEN "download" ELSE "flush")
  /\ UNCHANGED <<state, media_file_id, media_files, disk, holder>>

flush(t) ==
  /\ At(t, "flush")
  /\ lock(t, "session")
  /\ Go(t, "download")
  /\ UNCHANGED <<state, media_file_id, media_files, disk>>

\* What /provide_link, once it knows, and the short handlers have left to do.
Assign(t, result) == task' = [task EXCEPT ![t].pc = "update", ![t].result = result]

cmd_retry_download(t) ==
  /\ At(t, "idle")
  /\ state = "download_failed"
  /\ Assign(t, "downloading")
  /\ UNCHANGED <<state, media_file_id, media_files, disk, holder>>

cancel_session(t) ==
  /\ At(t, "idle")
  /\ state # "cancelled"
  /\ Assign(t, "cancelled")
  /\ UNCHANGED <<state, media_file_id, media_files, disk, holder>>

\* Mutant: the failure is taken for a success.
download_fails_unchecked(t) ==
  /\ At(t, "download")
  /\ Assign(t, "ready")
  /\ UNCHANGED <<state, media_file_id, media_files, disk, holder>>

\* yt-dlp left no video file (or raised, were its failure not logged as below).
download_fails(t) ==
  /\ At(t, "download")
  /\ Assign(t, "download_failed")
  /\ UNCHANGED <<state, media_file_id, media_files, disk, holder>>

\* yt-dlp raised, and the log call with keyword fields that should note it
\* raises TypeError out of the except branch; or the rename raises OSError.
download_raises(t) ==
  /\ At(t, "download")
  /\ rollback(t)

\* Mutant: the file is left in the temporary directory, which is removed.
download_done_unmoved(t) ==
  /\ At(t, "download")
  /\ \E file \in Files \ disk : task' = [task EXCEPT ![t].pc = "insert", ![t].file = file]
  /\ UNCHANGED <<state, media_file_id, media_files, disk, holder>>

\* The video is hashed and leaves its temporary directory.
download_done(t) ==
  /\ At(t, "download")
  /\ \E file \in Files \ disk :
       /\ disk' = disk \union {file}
       /\ task' = [task EXCEPT ![t].pc = "insert", ![t].file = file]
  /\ UNCHANGED <<state, media_file_id, media_files, holder>>

\* INSERT INTO media_files; a size beyond INTEGER is refused.
insert(t) ==
  /\ At(t, "insert")
  /\ \/ /\ Go(t, "link")
        /\ UNCHANGED <<state, media_file_id, media_files, disk, holder>>
     \/ rollback(t)

link(t) ==
  /\ At(t, "link")
  /\ lock(t, "movie")
  /\ Assign(t, "ready")
  /\ UNCHANGED <<state, media_file_id, media_files, disk>>

\* The state is written over whatever was committed since it was read.
update(t) ==
  /\ At(t, "update")
  /\ lock(t, "session")
  /\ Go(t, "commit")
  /\ UNCHANGED <<state, media_file_id, media_files, disk>>

\* Mutant: a row is inserted for a failed download as well.
commit_always_inserts(t) ==
  /\ At(t, "commit")
  /\ state' = task[t].result
  /\ media_file_id' = IF task[t].file # NoFile THEN task[t].file ELSE media_file_id
  /\ media_files' = media_files \union {task[t].file}
  /\ task' = [task EXCEPT ![t] = Idle]
  /\ release(t)
  /\ UNCHANGED disk

\* The answer is sent and session_scope commits; or sending it raises.
commit(t) ==
  /\ At(t, "commit")
  /\ \/ /\ state' = task[t].result
        /\ media_file_id' = IF task[t].file # NoFile THEN task[t].file ELSE media_file_id
        /\ media_files' = media_files \union ({task[t].file} \ {NoFile})
        /\ task' = [task EXCEPT ![t] = Idle]
        /\ release(t)
        /\ UNCHANGED disk
     \/ rollback(t)

-----------------------------------------------------------------------------
\* The row the next statement of the task has to wait for.
Wants(t, row) ==
  /\ \/ row = "session" /\ task[t].pc \in {"flush", "update"}
     \/ row = "movie" /\ At(t, "link")
  /\ holder[row] \notin {NoTask, t}

\* PostgreSQL aborts one of two transactions that wait for each other.
deadlock_detected(t) ==
  /\ \E row, other \in Rows :
       /\ Wants(t, row)
       /\ holder[other] = t
       /\ Wants(holder[row], other)
  /\ rollback(t)

\* The bot stops: every open transaction is rolled back, the disk stays.
crash ==
  /\ \E t \in Tasks : ~At(t, "idle")
  /\ task' = [t \in Tasks |-> Idle]
  /\ holder' = [row \in Rows |-> NoTask]
  /\ UNCHANGED <<state, media_file_id, media_files, disk>>

Starts(t) == cmd_provide_link(t) \/ cmd_retry_download(t) \/ cancel_session(t)

Runs(t) == download_fails(t) \/ download_raises(t) \/ download_done(t) \/ insert(t) \/ commit(t)

Waits(t) == flush(t) \/ link(t) \/ update(t)

Next ==
  \/ \E t \in Tasks : Starts(t) \/ Runs(t) \/ Waits(t) \/ deadlock_detected(t)
  \/ crash

Spec == Init /\ [][Next]_vars

\* yt-dlp has timeouts of its own and the loop serves every task; PostgreSQL
\* grants a row in the order of waiting, and looks for deadlocks.
Fairness ==
  \A t \in Tasks : /\ WF_vars(Runs(t))
                   /\ SF_vars(Waits(t))
                   /\ WF_vars(deadlock_detected(t))

FairSpec == Spec /\ Fairness

-----------------------------------------------------------------------------
\* The rows and the tasks hold what their columns and locals can hold.
TypeOK ==
  /\ state \in States
  /\ media_file_id \in Files \union {NoFile}
  /\ media_files \subseteq Files
  /\ disk \subseteq Files
  /\ holder \in [Rows -> Tasks \union {NoTask}]
  /\ task \in [Tasks ->
       [pc : {"idle", "flush", "download", "insert", "link", "update", "commit"},
        result : States, file : Files \union {NoFile}]]

\* A row of media_files names a file that is in the download directory,
\* whatever failed, was rolled back or was overwritten on the way
\* (services/downloader.py:294 moves the file, 314 inserts the row).
RowsHaveFiles == media_files \subseteq disk

\* A session announced as ready has a winner with a recorded file, also when
\* another call failed meanwhile or before (bot/handlers/downloader.py:98).
ReadyIsPlayable == state = "ready" => media_file_id \in media_files \intersect disk

\* A call that began comes to its end: overlapping calls take the rows of the
\* session and of the film in different orders and may wait for each other.
CallsEnd == \A t \in Tasks : ~At(t, "idle") ~> At(t, "idle")

\* What the semaphore of services/downloader.py:213 is there for.
DownloadsAreLimited == Cardinality({t \in Tasks : At(t, "download")}) <= max_concurrent

\* A film that is ready is not taken back by another call's failure: the table
\* of services/voting.py:57 lets READY be followed by PLAYING only.
ReadyStays == [][state = "ready" => state' \in {"ready", "cancelled"}]_vars
=============================================================================
