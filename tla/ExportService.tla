--------------------------- MODULE ExportService ---------------------------
(***************************************************************************)
(* The life of a PDF export.  A gRPC handler (internal/service/pdf.go)     *)
(* checks a Redis status key, inserts a history row in PostgreSQL, stores  *)
(* the row's id in Redis, pushes a task on a Redis list and sets the       *)
(* status key.  The workers of every node (internal/app/worker.go,         *)
(* pdf_task.go) pop tasks from that list, move the row through processing  *)
(* to done or failed, and delete the task's keys.  Handlers and workers    *)
(* share nothing but Redis and the table; every call to Redis, to the      *)
(* database or to the storage service is one step here, and each may fail. *)
(*                                                                         *)
(* A request stands for one Generate call and, as row ids are never        *)
(* reused, also for the row that call inserts, the task it pushes and the  *)
(* file that a run of its task uploads.                                    *)
(***************************************************************************)
EXTENDS Naturals, FiniteSets, SequencesExt

CONSTANTS
    Requests,   \* the Generate calls
    Tasks,      \* task ids: channel, user and local time to the second
    TaskOf,     \* the task id each call computes
    Workers,    \* the worker goroutines of all nodes
    Nodes,      \* the processes
    HomeOf,     \* the process each handler and each worker runs in
    NoSession,  \* requests whose task carries no user, domain or token
    Faults,     \* what may go wrong, a subset of FaultKinds
    MaxRetries, \* how often go-redis sends a command again: 3 by default
    None,       \* an absent key, row reference or task
    SourceFile  \* the caller's file_ids[0], stored in the row on insertion

FaultKinds == {"redis", "db", "search", "upload", "expire", "stop", "crash"}

ASSUME TaskOfAssumption == TaskOf \in [Requests -> Tasks]
ASSUME HomeOfAssumption == HomeOf \in [Requests \cup Workers -> Nodes]
ASSUME NoSessionAssumption == NoSession \subseteq Requests
ASSUME FaultsAssumption == Faults \subseteq FaultKinds
ASSUME WorkersAssumption == IsFiniteSet(Workers)
ASSUME MaxRetriesAssumption == MaxRetries \in Nat
ASSUME MarkersAssumption ==
    None \notin Requests /\ SourceFile \notin Requests /\ None # SourceFile

VARIABLES
    node,       \* the stage each process is in, from up to down
    call,       \* the next step of each handler, or how it ended
    queue,      \* the Redis list of tasks, left end first
    status,     \* the Redis status key of each task id
    historyID,  \* the Redis history key of each task id
    row,        \* the status column of each history row
    file,       \* the file_id column of each history row
    uploads,    \* how many uploads of each task reached the storage service
    resent,     \* how often the push of each task took effect and was sent again
    step,       \* the next step of each worker
    job,        \* the task each worker holds
    hist        \* the row id each worker read from Redis

dbVars == <<row, file>>
workerVars == <<step, job, hist>>
counts == <<uploads, resent>>
vars == <<node, call, queue, status, historyID, row, file, uploads, resent,
          step, job, hist>>

NodeStages == {"up", "draining", "closed", "flushed", "down"}
CallSteps == {"check", "insert", "setHistory", "push", "setStatus"}
CallEnds == {"accepted", "rejected", "error", "aborted"}
RowStatuses == {"absent", "pending", "processing", "done", "failed"}
KeyStatuses == {"none", "pending", "processing", "done", "failed"}
BeforeUpload == {"load", "procCache", "procRow", "search", "assemble", "upload"}
WorkerSteps == BeforeUpload \cup
    {"idle", "markFailed", "doneCache", "doneRow", "failCache", "failRow",
     "clearStatus", "clearHistory"}

CountsOK ==
    /\ uploads \in [Requests -> Nat]
    /\ resent \in [Requests -> 0..MaxRetries]

TypeOK ==
    /\ node \in [Nodes -> NodeStages]
    /\ call \in [Requests -> {"new"} \cup CallSteps \cup CallEnds]
    /\ queue \in Seq(Requests)
    /\ status \in [Tasks -> KeyStatuses]
    /\ historyID \in [Tasks -> Requests \cup {None}]
    /\ row \in [Requests -> RowStatuses]
    /\ file \in [Requests -> Requests \cup {None, SourceFile}]
    /\ CountsOK
    /\ step \in [Workers -> WorkerSteps]
    /\ job \in [Workers -> Requests \cup {None}]
    /\ hist \in [Workers -> Requests \cup {None}]

Init ==
    /\ node = [n \in Nodes |-> "up"]
    /\ call = [r \in Requests |-> "new"]
    /\ queue = <<>>
    /\ status = [t \in Tasks |-> "none"]
    /\ historyID = [t \in Tasks |-> None]
    /\ row = [r \in Requests |-> "absent"]
    /\ file = [r \in Requests |-> None]
    /\ uploads = [r \in Requests |-> 0]
    /\ resent = [r \in Requests |-> 0]
    /\ step = [w \in Workers |-> "idle"]
    /\ job = [w \in Workers |-> None]
    /\ hist = [w \in Workers |-> None]

-----------------------------------------------------------------------------
(* Calls that may fail.  A failed call had no effect; the effect of a lost  *)
(* one took place although the caller is told of an error.  The Redis       *)
(* client sends a command whose answer does not come again, up to           *)
(* MaxRetries times: its effect takes place, and the caller still waits.    *)

Outcomes(fault) ==
    {"ok"} \cup (IF fault \in Faults THEN {"failed", "lost"} ELSE {})
           \cup (IF fault \in Faults /\ fault = "redis" THEN {"again"} ELSE {})

Applied(outcome) == outcome # "failed"

\* Where the caller is after a call with that outcome.
After(outcome, here, onOk, onError) ==
    CASE outcome = "ok"    -> onOk
      [] outcome = "again" -> here
      [] OTHER             -> onError

\* The key or column f[x] after a write of v with that outcome.
Written(f, x, v, outcome) ==
    IF Applied(outcome) THEN [f EXCEPT ![x] = v] ELSE f

Running(x) == node[HomeOf[x]] # "down"

\* The process has not closed its connections to the storage and auth services.
Connected(x) == node[HomeOf[x]] \in {"up", "draining"}

-----------------------------------------------------------------------------
(* The handler: GenerateExport, GenerateCallExport and createExportTask.    *)

CallMoves(r, from, to) ==
    /\ call[r] = from
    /\ Running(r)
    /\ call' = [call EXCEPT ![r] = to]

\* A call arrives.  It is refused when it lacks the agent or call id, or when
\* it cannot be authorized.  A draining process may still serve: when the
\* Consul deregistration fails the gRPC server is left running.
GenerateExport(r) ==
    /\ \E to \in {"rejected"} \cup (IF Connected(r) THEN {"check"} ELSE {}) :
           CallMoves(r, "new", to)
    /\ UNCHANGED <<node, queue, status, historyID, dbVars, counts, workerVars>>

CheckStatus(r) ==
    /\ \/ /\ status[TaskOf[r]] \in {"pending", "processing"}
          /\ CallMoves(r, "check", "rejected")
       \/ /\ status[TaskOf[r]] \notin {"pending", "processing"}
          /\ CallMoves(r, "check", "insert")
       \/ /\ "redis" \in Faults
          /\ CallMoves(r, "check", "error")
    /\ UNCHANGED <<node, queue, status, historyID, dbVars, counts, workerVars>>

InsertPdfExportHistory(r) ==
    /\ \E o \in Outcomes("db"), first \in {None, SourceFile} :
           /\ CallMoves(r, "insert", IF o = "ok" THEN "setHistory" ELSE "error")
           /\ row' = Written(row, r, "pending", o)
           /\ file' = Written(file, r, first, o)
    /\ UNCHANGED <<node, queue, status, historyID, counts, workerVars>>

\* Bug: one history key for all tasks, the id left out of its name.
SetExportHistoryIDOneKey(r) ==
    /\ \E o \in Outcomes("redis") :
           /\ CallMoves(r, "setHistory", After(o, "setHistory", "push", "error"))
           /\ historyID' = IF Applied(o) THEN [t \in Tasks |-> r] ELSE historyID
    /\ UNCHANGED <<node, queue, status, dbVars, counts, workerVars>>

\* Bug: the task id is stored where the row id belongs.
SetExportHistoryIDOfTask(r) ==
    /\ \E o \in Outcomes("redis") :
           /\ CallMoves(r, "setHistory", After(o, "setHistory", "push", "error"))
           /\ historyID' = Written(historyID, TaskOf[r], TaskOf[r], o)
    /\ UNCHANGED <<node, queue, status, dbVars, counts, workerVars>>

SetExportHistoryID(r) ==
    /\ \E o \in Outcomes("redis") :
           /\ CallMoves(r, "setHistory", After(o, "setHistory", "push", "error"))
           /\ historyID' = Written(historyID, TaskOf[r], r, o)
    /\ UNCHANGED <<node, queue, status, dbVars, counts, workerVars>>

\* RPUSH: the right end of the list.  Each time it is sent again the task is on
\* the list once more, which is why these repetitions alone are counted: what
\* the others write twice is the same key.
PushExportTask(r) ==
    /\ \E o \in Outcomes("redis") :
           /\ CallMoves(r, "push", After(o, "push", "setStatus", "error"))
           /\ queue' = IF Applied(o) THEN Append(queue, r) ELSE queue
           /\ \/ o # "again" /\ UNCHANGED resent
              \/ /\ o = "again" /\ resent[r] < MaxRetries
                 /\ resent' = [resent EXCEPT ![r] = @ + 1]
    /\ UNCHANGED <<node, status, historyID, dbVars, uploads, workerVars>>

SetPendingStatus(r) ==
    /\ \E o \in Outcomes("redis") :
           /\ CallMoves(r, "setStatus", After(o, "setStatus", "accepted", "error"))
           /\ status' = Written(status, TaskOf[r], "pending", o)
    /\ UNCHANGED <<node, queue, historyID, dbVars, counts, workerVars>>

\* DELETE of a history row, whatever its status and whatever holds its id: by
\* a call, or by the table's cascades when its file, agent or domain goes.
DeleteRecord(r) ==
    /\ row[r] # "absent"
    /\ row' = [row EXCEPT ![r] = "absent"]
    /\ file' = [file EXCEPT ![r] = None]
    /\ UNCHANGED <<node, call, queue, status, historyID, counts, workerVars>>

CallStep(r) ==
    \/ CheckStatus(r)
    \/ InsertPdfExportHistory(r)
    \/ SetExportHistoryID(r)
    \/ PushExportTask(r)
    \/ SetPendingStatus(r)

-----------------------------------------------------------------------------
(* The worker: the loop of StartExportWorker, HandlePdfTask, SetTaskStatus  *)
(* and ClearExportTask.                                                     *)

WorkerMoves(w, from, to) ==
    /\ step[w] = from
    /\ Running(w)
    /\ step' = [step EXCEPT ![w] = to]

\* The worker moves on and keeps what it holds.
Continues(w, from, to) ==
    /\ WorkerMoves(w, from, to)
    /\ UNCHANGED <<job, hist>>

\* The loop turns to the next task.
Releases(w, from) ==
    /\ WorkerMoves(w, from, "idle")
    /\ job' = [job EXCEPT ![w] = None]
    /\ hist' = [hist EXCEPT ![w] = None]

\* The worker lets go of the task, unless its command is sent again.
LetsGo(w, from, outcome) ==
    IF outcome = "again" THEN Continues(w, from, from) ELSE Releases(w, from)

\* Bug: the task stays on the list while it is worked on.
PopExportTaskPeeks(w) ==
    /\ queue # <<>>
    /\ WorkerMoves(w, "idle", "load")
    /\ job' = [job EXCEPT ![w] = Last(queue)]
    /\ UNCHANGED <<node, call, queue, status, historyID, dbVars, counts, hist>>

\* BRPOP: the right end of the list.  The task is off the list from here on,
\* whatever becomes of the worker; a lost reply loses it at once.
PopExportTask(w) ==
    /\ queue # <<>>
    /\ \/ /\ WorkerMoves(w, "idle", "load")
          /\ job' = [job EXCEPT ![w] = Last(queue)]
          /\ UNCHANGED hist
       \/ /\ "redis" \in Faults
          /\ Continues(w, "idle", "idle")
    /\ queue' = Front(queue)
    /\ UNCHANGED <<node, call, status, historyID, dbVars, counts>>

\* BRPOP times out, or fails, with nothing taken from the list.
PopNothing(w) ==
    /\ queue = <<>> \/ "redis" \in Faults
    /\ Continues(w, "idle", "idle")
    /\ UNCHANGED <<node, call, queue, status, historyID, dbVars, counts>>

\* NewSession and GetExportHistoryID.  A missing key reads as id 0, here None.
GetExportHistoryID(w) ==
    /\ \/ /\ job[w] \in NoSession
          /\ Continues(w, "load", "clearStatus")
       \/ /\ job[w] \notin NoSession
          /\ WorkerMoves(w, "load", "procCache")
          /\ hist' = [hist EXCEPT ![w] = historyID[TaskOf[job[w]]]]
          /\ UNCHANGED job
       \/ /\ job[w] \notin NoSession
          /\ "redis" \in Faults
          /\ Continues(w, "load", "markFailed")
    /\ UNCHANGED <<node, call, queue, status, historyID, dbVars, counts>>

\* SetExportStatus, whose error every worker step ignores.
SetKey(w, from, value, to) ==
    /\ \E o \in Outcomes("redis") :
           /\ Continues(w, from, After(o, from, to, to))
           /\ status' = Written(status, TaskOf[job[w]], value, o)
    /\ UNCHANGED <<node, call, queue, historyID, dbVars, counts>>

\* UpdatePdfExportStatus: a COALESCE keeps the old file unless a new one is
\* given, and an id without a row is an error.
SetRow(w, from, value, newFile, onOk, onError) ==
    /\ \E o \in Outcomes("db") :
           LET found == hist[w] \in Requests /\ row[hist[w]] # "absent"
           IN  /\ Continues(w, from, IF o = "ok" /\ found THEN onOk ELSE onError)
               /\ IF found /\ Applied(o)
                  THEN /\ row' = [row EXCEPT ![hist[w]] = value]
                       /\ file' = [file EXCEPT ![hist[w]] =
                                       IF newFile = None THEN @ ELSE newFile]
                  ELSE UNCHANGED dbVars
    /\ UNCHANGED <<node, call, queue, status, historyID, counts>>

SetProcessing(w) ==
    \/ SetKey(w, "procCache", "processing", "procRow")
    \/ SetRow(w, "procRow", "processing", None, "search", "clearStatus")

SetFailed(w) ==
    \/ SetKey(w, "failCache", "failed", "failRow")
    \/ SetRow(w, "failRow", "failed", None, "clearStatus", "clearStatus")

\* Bug: the id of the uploaded file is not passed on.
SetDoneWithoutFile(w) ==
    \/ SetKey(w, "doneCache", "done", "doneRow")
    \/ SetRow(w, "doneRow", "done", None, "clearStatus", "clearStatus")

\* Bug: an error of the final update is handled like every other, by failing.
SetDoneOrFailed(w) ==
    \/ SetKey(w, "doneCache", "done", "doneRow")
    \/ SetRow(w, "doneRow", "done", job[w], "clearStatus", "failCache")

SetDone(w) ==
    \/ SetKey(w, "doneCache", "done", "doneRow")
    \/ SetRow(w, "doneRow", "done", job[w], "clearStatus", "clearStatus")

\* The status is set to failed in Redis only: the row id is not known.
MarkFailed(w) == SetKey(w, "markFailed", "failed", "clearStatus")

\* Bug: finding no files is not recorded in the row.
SearchIgnoresEmpty(w) ==
    /\ Connected(w)
    /\ \E to \in {"assemble", "clearStatus"} : Continues(w, "search", to)
    /\ UNCHANGED <<node, call, queue, status, historyID, dbVars, counts>>

\* Files are found, none are, or the call fails: then HandlePdfTask returns
\* without touching the row.
SearchScreenRecordings(w) ==
    /\ \/ /\ Connected(w)
          /\ \E to \in {"assemble", "failCache"} : Continues(w, "search", to)
       \/ /\ "search" \in Faults \/ ~Connected(w)
          /\ Continues(w, "search", "clearStatus")
    /\ UNCHANGED <<node, call, queue, status, historyID, dbVars, counts>>

\* downloadScreenshotsForPDF, GeneratePDF and SavePDFToTemp.
AssemblePdf(w) ==
    /\ \E to \in {"upload", "failCache"} : Continues(w, "assemble", to)
    /\ UNCHANGED <<node, call, queue, status, historyID, dbVars, counts>>

UploadPdfToStorage(w) ==
    /\ \E o \in Outcomes("upload") \cup
                (IF Connected(w) THEN {} ELSE {"failed", "lost"}) :
           /\ o = "ok" => Connected(w)
           /\ Continues(w, "upload", IF o = "ok" THEN "doneCache" ELSE "failCache")
           /\ uploads' = IF Applied(o) THEN [uploads EXCEPT ![job[w]] = @ + 1]
                                      ELSE uploads
    /\ UNCHANGED <<node, call, queue, status, historyID, dbVars, resent>>

\* Bug: the history key is left behind.
ClearStatusOnly(w) ==
    /\ \E o \in Outcomes("redis") :
           /\ LetsGo(w, "clearStatus", o)
           /\ status' = Written(status, TaskOf[job[w]], "none", o)
    /\ UNCHANGED <<node, call, queue, historyID, dbVars, counts>>

\* DEL of the status key, then of the history key: ClearExportTask returns at
\* the first error.  Its last two keys are never written.
ClearStatus(w) ==
    /\ \E o \in Outcomes("redis") :
           /\ IF o = "ok" THEN Continues(w, "clearStatus", "clearHistory")
                          ELSE LetsGo(w, "clearStatus", o)
           /\ status' = Written(status, TaskOf[job[w]], "none", o)
    /\ UNCHANGED <<node, call, queue, historyID, dbVars, counts>>

\* Bug: every history key goes, not the task's only.
ClearHistoryOfAll(w) ==
    /\ \E o \in Outcomes("redis") :
           /\ LetsGo(w, "clearHistory", o)
           /\ historyID' = IF Applied(o) THEN [t \in Tasks |-> None] ELSE historyID
    /\ UNCHANGED <<node, call, queue, status, dbVars, counts>>

ClearHistory(w) ==
    /\ \E o \in Outcomes("redis") :
           /\ LetsGo(w, "clearHistory", o)
           /\ historyID' = Written(historyID, TaskOf[job[w]], None, o)
    /\ UNCHANGED <<node, call, queue, status, dbVars, counts>>

WorkerStep(w) ==
    \/ PopExportTask(w)
    \/ PopNothing(w)
    \/ GetExportHistoryID(w)
    \/ SetProcessing(w)
    \/ SetFailed(w)
    \/ SetDone(w)
    \/ MarkFailed(w)
    \/ SearchScreenRecordings(w)
    \/ AssemblePdf(w)
    \/ UploadPdfToStorage(w)
    \/ ClearStatus(w)
    \/ ClearHistory(w)

-----------------------------------------------------------------------------
(* Redis drops a key 24 hours after it was set.                             *)

ExpireStatus(t) ==
    /\ "expire" \in Faults
    /\ status' = [status EXCEPT ![t] = "none"]
    /\ UNCHANGED <<node, call, queue, historyID, dbVars, counts, workerVars>>

ExpireHistoryID(t) ==
    /\ "expire" \in Faults
    /\ historyID' = [historyID EXCEPT ![t] = None]
    /\ UNCHANGED <<node, call, queue, status, dbVars, counts, workerVars>>

-----------------------------------------------------------------------------
(* Processes: App.Stop and main.Run on a signal, a crash, a new start.      *)
(* Neither handlers nor workers are told to finish: they run until the      *)
(* process ends.                                                            *)

StageMoves(n, from, to) ==
    /\ "stop" \in Faults
    /\ node[n] = from
    /\ node' = [node EXCEPT ![n] = to]

StopServer(n) ==
    /\ StageMoves(n, "up", "draining")
    /\ UNCHANGED <<call, queue, status, historyID, dbVars, counts, workerVars>>

CloseConnections(n) ==
    /\ StageMoves(n, "draining", "closed")
    /\ UNCHANGED <<call, queue, status, historyID, dbVars, counts, workerVars>>

\* FLUSHDB: the task list and the keys of every node go.
ClearCache(n) ==
    /\ \E o \in Outcomes("redis") :
           /\ StageMoves(n, "closed", After(o, "closed", "flushed", "flushed"))
           /\ IF Applied(o)
              THEN /\ queue' = <<>>
                   /\ status' = [t \in Tasks |-> "none"]
                   /\ historyID' = [t \in Tasks |-> None]
              ELSE UNCHANGED <<queue, status, historyID>>
    /\ UNCHANGED <<call, dbVars, counts, workerVars>>

\* Bug: the task of a worker that ends with its process goes back on the list.
HaltsHandingOver(n) ==
    /\ node' = [node EXCEPT ![n] = "down"]
    /\ call' = [r \in Requests |->
                   IF HomeOf[r] = n /\ call[r] \in CallSteps
                   THEN "aborted" ELSE call[r]]
    /\ step' = [w \in Workers |-> IF HomeOf[w] = n THEN "idle" ELSE step[w]]
    /\ job' = [w \in Workers |-> IF HomeOf[w] = n THEN None ELSE job[w]]
    /\ hist' = [w \in Workers |-> IF HomeOf[w] = n THEN None ELSE hist[w]]
    /\ \E r \in {job[w] : w \in {v \in Workers : HomeOf[v] = n}} :
           queue' = IF r = None THEN queue ELSE Append(queue, r)
    /\ UNCHANGED <<status, historyID, dbVars, counts>>

\* What ends with process n: its handlers in flight and its workers' tasks.
Halts(n) ==
    /\ node' = [node EXCEPT ![n] = "down"]
    /\ call' = [r \in Requests |->
                   IF HomeOf[r] = n /\ call[r] \in CallSteps
                   THEN "aborted" ELSE call[r]]
    /\ step' = [w \in Workers |-> IF HomeOf[w] = n THEN "idle" ELSE step[w]]
    /\ job' = [w \in Workers |-> IF HomeOf[w] = n THEN None ELSE job[w]]
    /\ hist' = [w \in Workers |-> IF HomeOf[w] = n THEN None ELSE hist[w]]
    /\ UNCHANGED <<queue, status, historyID, dbVars, counts>>

Exit(n) == node[n] = "flushed" /\ Halts(n)

Crash(n) == "crash" \in Faults /\ node[n] # "down" /\ Halts(n)

Restart(n) ==
    /\ node[n] = "down"
    /\ node' = [node EXCEPT ![n] = "up"]
    /\ UNCHANGED <<call, queue, status, historyID, dbVars, counts, workerVars>>

NodeStep(n) ==
    \/ StopServer(n)
    \/ CloseConnections(n)
    \/ ClearCache(n)
    \/ Exit(n)
    \/ Crash(n)
    \/ Restart(n)

-----------------------------------------------------------------------------

Next ==
    \/ \E r \in Requests : GenerateExport(r) \/ CallStep(r) \/ DeleteRecord(r)
    \/ \E w \in Workers : WorkerStep(w)
    \/ \E t \in Tasks : ExpireStatus(t) \/ ExpireHistoryID(t)
    \/ \E n \in Nodes : NodeStep(n)

Spec == Init /\ [][Next]_vars

\* A handler that has begun and a worker goroutine are always scheduled, and
\* the calls they make return.  Nothing obliges a client to call or to delete.
Fairness ==
    /\ \A r \in Requests : WF_vars(CallStep(r))
    /\ \A w \in Workers : WF_vars(WorkerStep(w))

FairSpec == Spec /\ Fairness

=============================================================================
