-------------------------- MODULE ExportProperties --------------------------
(***************************************************************************)
(* What the export service promises of its rows, keys and tasks, and what  *)
(* its comments claim that it does not do.                                 *)
(***************************************************************************)
EXTENDS ExportService

Queued(r) == \E i \in 1..Len(queue) : queue[i] = r

\* No other call computes this task id.
Unshared(r) == \A q \in Requests : TaskOf[q] = TaskOf[r] => q = r

\* The task has not been put on the list.
BeforePush == {"new", "check", "insert", "setHistory", "push"}

\* A worker holds a task of id t.
Held(t) == \E w \in Workers : job[w] \in Requests /\ TaskOf[job[w]] = t

-----------------------------------------------------------------------------
(* Safety.                                                                  *)

\* How often RPUSH put the task of r on the list, at most.
Pushes(r) == resent[r] + (IF call[r] \in BeforePush THEN 0 ELSE 1)

\* Where the task of r is on a list, which workers hold it, and which of them
\* have its upload ahead.
Copies(list, r) == {i \in 1..Len(list) : list[i] = r}
Holders(r) == {w \in Workers : job[w] = r}
Uploaders(r) == {w \in Workers : job[w] = r /\ step[w] \in BeforeUpload}

\* BRPOP takes a task off the list before it is worked on and nothing puts it
\* back: it is on the list and with workers no more often than it was pushed,
\* once unless go-redis sent the push again, and not before its handler has
\* reached PushExportTask.
TaskHeldOnce ==
    \A r \in Requests :
        Cardinality(Copies(queue, r)) + Cardinality(Holders(r)) <= Pushes(r)

\* Every push leads to one upload at most: a task whose file has reached the
\* storage service is not worked on from the start again, by another worker,
\* after a restart or after an upload that was reported as failed, but for a
\* push that go-redis sent again.
UploadedOnce ==
    \A r \in Requests :
        uploads[r] + Cardinality(Copies(queue, r)) + Cardinality(Uploaders(r))
            <= Pushes(r)

\* The row id reaches the worker through a Redis key named by the task id, and
\* not in the task.  Whatever is lost, expired, flushed or overwritten on the
\* way, a file is attached to no row but one of its own user, channel and time.
FileOfSameTask ==
    \A r \in Requests : file[r] \in Requests => TaskOf[file[r]] = TaskOf[r]

\* A row that SetTaskStatus turned to done references a file that is in the
\* storage service: not the screenshot the row was inserted with, and not a
\* file whose upload failed.
DoneHasFile ==
    \A r \in Requests : row[r] = "done" => file[r] \in Requests /\ uploads[file[r]] > 0

\* Where a worker is between setting a row to processing and its final status.
InProgress == {"search", "assemble", "upload", "failCache", "failRow",
               "doneCache", "doneRow"}

\* A row in processing has a worker that read its id and will still write a
\* final status to it: every return of HandlePdfTask after the row was set to
\* processing sets it to failed or done first.  (As long as neither the search
\* nor the database fails and no process ends: see the findings.)
ProcessingHasWorker ==
    \A r \in Requests : row[r] = "processing" =>
        \E w \in Workers : hist[w] = r /\ step[w] \in InProgress

\* The keys of a task id do not outlive the work on it: a status other than
\* pending means that a worker holds such a task and will clear it, and a
\* history key that the task's handler, the list or a worker still needs it.
KeysHaveOwner ==
    /\ \A t \in Tasks :
           status[t] \in {"processing", "done", "failed"} => Held(t)
    /\ \A r \in Requests :
           Unshared(r) /\ historyID[TaskOf[r]] = r =>
               \/ call[r] = "push"
               \/ Queued(r)
               \/ Held(TaskOf[r])

\* An export that is shown as pending is still going to be worked on: its
\* handler is about to push it, or its task is on the list or with a worker,
\* and the key that leads to the row is there.
PendingHasTask ==
    \A r \in Requests \ NoSession : Unshared(r) /\ row[r] = "pending" =>
        \/ call[r] = "setHistory"
        \/ /\ historyID[TaskOf[r]] = r
           /\ call[r] = "push" \/ Queued(r)
        \/ \E w \in Workers :
               /\ job[w] = r
               /\ \/ step[w] = "load" /\ historyID[TaskOf[r]] = r
                  \/ step[w] \in {"procCache", "procRow"} /\ hist[w] = r

-----------------------------------------------------------------------------
(* Action and liveness properties.                                          *)

\* A row that was done or failed keeps its status and its file until it is
\* deleted, unless its push was sent again; even then it keeps its own file, does
\* not turn pending again, and a deleted row does not come back, whichever calls
\* fail or have their answers lost and whatever still runs when it is deleted.
TerminalIsFinal ==
    [][\A r \in Requests : Unshared(r) =>
           /\ row[r] \in {"done", "failed"} /\ resent[r] = 0 =>
                  \/ row'[r] = "absent"
                  \/ row'[r] = row[r] /\ file'[r] = file[r]
           /\ row[r] # "absent" /\ file[r] = r => row'[r] = "absent" \/ file'[r] = r
           /\ row'[r] = "pending" => row[r] = "pending" \/ call[r] = "insert"
           /\ row[r] = "absent" /\ row'[r] # "absent" => call[r] = "insert"]_vars

\* An export that was accepted ends: its row becomes done or failed, or is
\* deleted.  This is what the client that polls the history waits for.
Settles ==
    \A r \in Requests \ NoSession : Unshared(r) =>
        (call[r] = "accepted" ~> row[r] \in {"done", "failed", "absent"})

\* The record a client sees of each call.  While the insert has not been made
\* there is none; a row that is absent later was refused, lost or deleted.
RecordOf(r) ==
    IF row[r] # "absent" THEN row[r]
    ELSE IF call[r] \in {"new", "check", "insert"} THEN "unborn" ELSE "gone"

Records == [r \in Requests |-> RecordOf(r)]

\* The calls whose task is on the list, or was, more than once.
Again == {r \in Requests : resent[r] > 0}

Record == INSTANCE ExportRecord WITH record <- Records, link <- file, again <- Again

\* With task ids of their own, the rows behave as ExportRecord says: one way
\* from pending through processing to an end, done only with the file made for
\* the row, whichever calls fail and whatever expires or is lost on the way; more
\* than once only when the push itself was sent again.
RecordSpec == Record!Spec

-----------------------------------------------------------------------------
(* What the code's comments say and the code does not do.                   *)

\* "used to change the status of an export and attach the final file reference
\* after processing" (internal/domain/model/pdf/model.go:19-20): an export that
\* no worker is processing any more is not left in processing.
ProcessedIsFinal ==
    \A r \in Requests : row[r] = "processing" =>
        \E w \in Workers : hist[w] = r /\ step[w] \notin {"clearStatus", "clearHistory"}

=============================================================================
