--------------------------- MODULE Downloads_proofs ---------------------------
(***************************************************************************)
(* Any number of overlapping calls, of files and of crashes: the types of  *)
(* Downloads, that a recorded file is on disk, and that a session that is  *)
(* ready can be played.                                                    *)
(***************************************************************************)
EXTENDS Downloads, TLAPS

\* A task that is past the move of its file, or about to announce it, has one.
HasMoved(t) ==
  \/ task[t].pc \in {"insert", "link"}
  \/ task[t].pc \in {"update", "commit"} /\ task[t].result = "ready"

\* What makes the two invariants inductive: a file is on disk before its task
\* inserts, links or announces it, and the committed link is to a recorded row.
Carried ==
  /\ \A t \in Tasks : task[t].file \in disk \union {NoFile}
  /\ \A t \in Tasks : HasMoved(t) => task[t].file \in disk
  /\ media_file_id \in media_files \union {NoFile}
  /\ state = "ready" => media_file_id # NoFile

IInv == TypeOK /\ RowsHaveFiles /\ Carried

USE DEF Rows, States, Idle, At, Go, Assign

LEMMA InitOK == Init => IInv
BY NoFileIsNoFile DEF Init, IInv, TypeOK, RowsHaveFiles, Carried, HasMoved

\* A rolled back call leaves the database and the disk as they are.
LEMMA RollbackOK ==
  ASSUME IInv, NEW t \in Tasks, rollback(t)
  PROVE  IInv'
<1>1. TypeOK'
  BY DEF IInv, TypeOK, rollback, release
<1>2. RowsHaveFiles'
  BY DEF IInv, RowsHaveFiles, rollback
<1>3. Carried'
  <2>1. \A u \in Tasks : task'[u] = IF u = t THEN Idle ELSE task[u]
    BY DEF IInv, TypeOK, rollback
  <2> QED
    BY <2>1, NoFileIsNoFile DEF IInv, TypeOK, Carried, HasMoved, rollback
<1> QED
  BY <1>1, <1>2, <1>3 DEF IInv

\* What one task does that neither moves a file nor commits.
LEMMA StepOK ==
  ASSUME IInv, NEW t \in Tasks,
         \/ cmd_provide_link(t) \/ cmd_retry_download(t) \/ cancel_session(t)
         \/ flush(t) \/ link(t) \/ update(t) \/ download_fails(t)
  PROVE  IInv'
<1> USE DEF cmd_provide_link, cmd_retry_download, cancel_session, flush, link, update,
            download_fails, lock
<1>1. TypeOK'
  BY DEF IInv, TypeOK
<1>2. RowsHaveFiles'
  BY DEF IInv, RowsHaveFiles
<1>3. Carried'
  <2>1. \A u \in Tasks \ {t} : task'[u] = task[u]
    BY DEF IInv, TypeOK
  <2>2. task'[t].file = task[t].file /\ (HasMoved(t)' => HasMoved(t))
    BY DEF IInv, TypeOK, HasMoved
  <2>3. \A u \in Tasks : task'[u].file = task[u].file /\ (HasMoved(u)' => HasMoved(u))
    BY <2>1, <2>2 DEF HasMoved
  <2> QED
    BY <2>3 DEF IInv, Carried
<1> QED
  BY <1>1, <1>2, <1>3 DEF IInv

LEMMA DownloadDoneOK ==
  ASSUME IInv, NEW t \in Tasks, download_done(t)
  PROVE  IInv'
<1>1. PICK file \in Files \ disk :
        /\ disk' = disk \union {file}
        /\ task' = [task EXCEPT ![t].pc = "insert", ![t].file = file]
  BY DEF download_done
<1>2. TypeOK'
  <2>1. task' = [task EXCEPT ![t] = [task[t] EXCEPT !.pc = "insert", !.file = file]]
    BY <1>1 DEF IInv, TypeOK
  <2>2. [task[t] EXCEPT !.pc = "insert", !.file = file] \in
          [pc : {"idle", "flush", "download", "insert", "link", "update", "commit"},
           result : States, file : Files \union {NoFile}]
    BY <1>1 DEF IInv, TypeOK
  <2>3. task' \in
          [Tasks -> [pc : {"idle", "flush", "download", "insert", "link", "update", "commit"},
                     result : States, file : Files \union {NoFile}]]
    BY <2>1, <2>2 DEF IInv, TypeOK
  <2> QED
    BY <1>1, <2>3 DEF IInv, TypeOK, download_done
<1>3. RowsHaveFiles'
  BY <1>1 DEF IInv, RowsHaveFiles, download_done
<1>4. Carried'
  <2>1. \A u \in Tasks \ {t} : task'[u] = task[u]
    BY <1>1 DEF IInv, TypeOK
  <2>2. task'[t].file = file
    BY <1>1 DEF IInv, TypeOK
  <2> QED
    BY <1>1, <2>1, <2>2 DEF IInv, Carried, HasMoved, download_done
<1> QED
  BY <1>2, <1>3, <1>4 DEF IInv

LEMMA InsertOK ==
  ASSUME IInv, NEW t \in Tasks, insert(t)
  PROVE  IInv'
<1>1. CASE rollback(t)
  BY <1>1, RollbackOK
<1>2. CASE /\ At(t, "insert")
           /\ Go(t, "link")
           /\ UNCHANGED <<state, media_file_id, media_files, disk, holder>>
  <2>1. TypeOK' /\ RowsHaveFiles'
    BY <1>2 DEF IInv, TypeOK, RowsHaveFiles
  <2>2. \A u \in Tasks : task'[u].file = task[u].file /\ (HasMoved(u)' => HasMoved(u))
    BY <1>2 DEF IInv, TypeOK, HasMoved
  <2>3. Carried'
    BY <1>2, <2>2 DEF IInv, Carried
  <2> QED
    BY <2>1, <2>3 DEF IInv
<1> QED
  BY <1>1, <1>2 DEF insert

LEMMA CommitOK ==
  ASSUME IInv, NEW t \in Tasks, commit(t)
  PROVE  IInv'
<1>1. CASE rollback(t)
  BY <1>1, RollbackOK
<1>2. CASE /\ state' = task[t].result
           /\ media_file_id' = IF task[t].file # NoFile THEN task[t].file ELSE media_file_id
           /\ media_files' = media_files \union ({task[t].file} \ {NoFile})
           /\ task' = [task EXCEPT ![t] = Idle]
           /\ release(t)
           /\ UNCHANGED disk
  <2>1. task[t].file \in disk \union {NoFile} /\ task[t].pc = "commit"
    BY DEF IInv, Carried, commit
  <2>2. TypeOK'
    BY <1>2, <2>1 DEF IInv, TypeOK, release
  <2>3. RowsHaveFiles'
    BY <1>2, <2>1 DEF IInv, RowsHaveFiles
  <2>4. Carried'
    <3>1. \A u \in Tasks : task'[u] = IF u = t THEN Idle ELSE task[u]
      BY <1>2 DEF IInv, TypeOK
    <3>2. \A u \in Tasks : task'[u].file \in disk' \union {NoFile}
      BY <1>2, <3>1 DEF IInv, Carried
    <3>3. \A u \in Tasks : HasMoved(u)' => task'[u].file \in disk'
      BY <1>2, <3>1 DEF IInv, Carried, HasMoved
    <3>4. media_file_id' \in media_files' \union {NoFile}
      BY <1>2 DEF IInv, Carried
    <3>5. state' = "ready" => media_file_id' # NoFile
      BY <1>2, <2>1, NoFileIsNoFile DEF IInv, TypeOK, Carried, HasMoved
    <3> QED
      BY <3>2, <3>3, <3>4, <3>5 DEF Carried
  <2> QED
    BY <2>2, <2>3, <2>4 DEF IInv
<1> QED
  BY <1>1, <1>2 DEF commit

LEMMA CrashOK ==
  ASSUME IInv, crash
  PROVE  IInv'
<1>1. \A u \in Tasks : task'[u] = Idle
  BY DEF crash
<1> QED
  BY <1>1, NoFileIsNoFile DEF IInv, TypeOK, RowsHaveFiles, Carried, HasMoved, crash

LEMMA NextOK == IInv /\ [Next]_vars => IInv'
<1> SUFFICES ASSUME IInv, [Next]_vars PROVE IInv'
  OBVIOUS
<1>1. CASE UNCHANGED vars
  BY <1>1 DEF IInv, TypeOK, RowsHaveFiles, Carried, HasMoved, vars
<1>2. CASE crash
  BY <1>2, CrashOK
<1>3. ASSUME NEW t \in Tasks,
             Starts(t) \/ Runs(t) \/ Waits(t) \/ deadlock_detected(t)
      PROVE  IInv'
  <2>1. CASE Starts(t) \/ Waits(t) \/ download_fails(t)
    BY <2>1, StepOK DEF Starts, Waits
  <2>2. CASE download_raises(t) \/ deadlock_detected(t)
    BY <2>2, RollbackOK DEF download_raises, deadlock_detected
  <2>3. CASE download_done(t)
    BY <2>3, DownloadDoneOK
  <2>4. CASE insert(t)
    BY <2>4, InsertOK
  <2>5. CASE commit(t)
    BY <2>5, CommitOK
  <2> QED
    BY <1>3, <2>1, <2>2, <2>3, <2>4, <2>5 DEF Runs
<1> QED
  BY <1>1, <1>2, <1>3 DEF Next

LEMMA Inductive == Spec => []IInv
<1> QED
  BY InitOK, NextOK, PTL DEF Spec

-----------------------------------------------------------------------------
\* Every row and every call keeps the shape of its columns and locals.
THEOREM TypeCorrect == Spec => []TypeOK
<1>1. IInv => TypeOK
  BY DEF IInv
<1> QED
  BY <1>1, Inductive, PTL

\* Whatever calls overlap, fail or are cut off, a recorded file is on disk.
THEOREM Recorded == Spec => []RowsHaveFiles
<1>1. IInv => RowsHaveFiles
  BY DEF IInv
<1> QED
  BY <1>1, Inductive, PTL

\* A session that is ready has a file that is recorded and there to be played.
THEOREM Playable == Spec => []ReadyIsPlayable
<1>1. IInv => ReadyIsPlayable
  BY DEF IInv, RowsHaveFiles, Carried, ReadyIsPlayable
<1> QED
  BY <1>1, Inductive, PTL
=============================================================================
