-------------------------- MODULE ExportKeyProofs --------------------------
(***************************************************************************)
(* The keys of a task and the tasks of pending rows: what of them is left  *)
(* over, for any calls, workers and task ids, as long as Redis answers and *)
(* no process ends.  KeysHaveOwner and PendingHasTask say who still looks  *)
(* after a key and a row; here each is shown to pass from hand to hand.    *)
(***************************************************************************)
EXTENDS ExportProofs

\* No call to Redis is lost or fails, and no process ends with what it holds.
NothingLost == Faults \cap {"redis", "stop", "crash"} = {}

-----------------------------------------------------------------------------
(* No process leaves the stage it starts in.                                *)

LEMMA StayUp ==
    ASSUME NothingLost, AllUp, [Next]_vars
    PROVE  AllUp'
  BY DEF AllUp, NothingLost, Next, vars, GenerateExport, CallStep,
         CheckStatus, InsertPdfExportHistory, SetExportHistoryID,
         PushExportTask, SetPendingStatus, DeleteRecord, WorkerStep,
         PopExportTask, PopNothing, GetExportHistoryID, SetProcessing,
         SetFailed, SetDone, MarkFailed, SetKey, SetRow, AssemblePdf,
         SearchScreenRecordings, UploadPdfToStorage, ClearStatus,
         ClearHistory, ExpireStatus, ExpireHistoryID, NodeStep, StopServer,
         CloseConnections, ClearCache, StageMoves, After, Exit, Crash, Restart

LEMMA NoNodeStep ==
    ASSUME NothingLost, AllUp, NEW n \in Nodes
    PROVE  ~NodeStep(n)
  BY DEF AllUp, NothingLost, NodeStep, StopServer, CloseConnections, ClearCache,
         StageMoves, After, Exit, Crash, Restart

-----------------------------------------------------------------------------
(* The keys of a task id.                                                   *)

\* The strengthening: a status that a worker set is still to be cleared by one
\* that holds such a task and has not cleared the status yet.
StatusHasClearer ==
    \A t \in Tasks : status[t] \in {"processing", "done", "failed"} =>
        \E w \in Workers :
            job[w] \in Requests /\ TaskOf[job[w]] = t /\ step[w] # "clearHistory"

HistoryHasReader ==
    \A r \in Requests :
        Unshared(r) /\ historyID[TaskOf[r]] = r =>
            call[r] = "push" \/ Queued(r) \/ Held(TaskOf[r])

KeysInv == StatusHasClearer /\ HistoryHasReader

\* A step that writes none of the keys but to clear them, and lets go of no task.
LEMMA NothingDropped ==
    ASSUME Typed, KeysInv,
           \A t \in Tasks : status'[t] \in {status[t], "none", "pending"},
           \A t \in Tasks : historyID'[t] \in {historyID[t], None},
           \A r \in Requests :
               /\ call[r] = "push" => call'[r] = "push"
               /\ Queued(r) => Queued(r)',
           \A w \in Workers : job[w] \in Requests =>
               job'[w] = job[w] /\ (step'[w] = "clearHistory" => step[w] = "clearHistory")
    PROVE  KeysInv'
  BY MarkersAssumption, TaskOfAssumption
     DEF KeysInv, StatusHasClearer, HistoryHasReader, Unshared, Held

LEMMA KeysPush ==
    ASSUME NothingLost, Typed, KeysInv, NEW r \in Requests, PushExportTask(r)
    PROVE  KeysInv'
  <1>1. /\ UNCHANGED <<status, historyID, job, step>>
        /\ \A q \in Requests : q # r => call'[q] = call[q]
        /\ queue' = Append(queue, r)
    BY DEF PushExportTask, CallMoves, After, Outcomes, Applied, NothingLost, workerVars, counts,
           Typed, TypeOK
  <1>2. Queued(r)' /\ \A q \in Requests : Queued(q) => Queued(q)'
    BY <1>1, PushedQueue DEF Queued, Typed, TypeOK
  <1> QED
    BY <1>1, <1>2 DEF KeysInv, StatusHasClearer, HistoryHasReader, Unshared, Held

LEMMA KeysPop ==
    ASSUME NothingLost, Typed, KeysInv, NEW w \in Workers, PopExportTask(w)
    PROVE  KeysInv'
  <1>1. PICK r \in Requests : r = Last(queue)
    BY PoppedQueue DEF PopExportTask, Typed, TypeOK
  <1>2. /\ UNCHANGED <<status, historyID, call>>
        /\ step[w] = "idle" /\ job[w] = None
        /\ \A v \in Workers : job'[v] = IF v = w THEN r ELSE job[v]
        /\ \A v \in Workers : v # w => step'[v] = step[v]
    BY <1>1 DEF PopExportTask, WorkerMoves, NothingLost, Typed, TypeOK, WorkersHold
  <1>3. \A q \in Requests : Queued(q) => Queued(q)' \/ q = r
    <2>1. /\ r = queue[Len(queue)]
          /\ Len(queue) \in Nat \ {0}
          /\ Len(queue') = Len(queue) - 1
          /\ \A i \in 1..Len(queue) - 1 : queue'[i] = queue[i]
      BY <1>1, PoppedQueue DEF PopExportTask, Typed, TypeOK
    <2> QED
      BY <2>1 DEF Queued
  <1>4. StatusHasClearer'
    BY <1>2, MarkersAssumption DEF KeysInv, StatusHasClearer
  <1>5. \A t \in Tasks : Held(t) => Held(t)'
    BY <1>2, MarkersAssumption DEF Held
  <1>6. Held(TaskOf[r])'
    BY <1>2 DEF Held
  <1> QED
    BY <1>2, <1>3, <1>4, <1>5, <1>6, TaskOfAssumption
       DEF KeysInv, HistoryHasReader, Unshared

\* A worker that writes a status holds a task of that id.
LEMMA KeysWritten ==
    ASSUME Typed, KeysInv, NEW w \in Workers, NEW from, NEW value, NEW to,
           from # "idle", from # "clearHistory", to # "clearHistory",
           SetKey(w, from, value, to)
    PROVE  KeysInv'
  <1>1. /\ UNCHANGED <<historyID, call, queue, job>>
        /\ job[w] \in Requests /\ step[w] = from
        /\ \A v \in Workers : v # w => step'[v] = step[v]
        /\ step'[w] \in {from, to}
        /\ \A t \in Tasks : t # TaskOf[job[w]] => status'[t] = status[t]
    BY DEF SetKey, Continues, After, WorkerMoves, Written, Typed, TypeOK, WorkersHold
  <1>2. StatusHasClearer'
    BY <1>1 DEF KeysInv, StatusHasClearer
  <1> QED
    BY <1>1, <1>2 DEF KeysInv, HistoryHasReader, Unshared, Held, Queued

LEMMA KeysClearStatus ==
    ASSUME NothingLost, Typed, KeysInv, NEW w \in Workers, ClearStatus(w)
    PROVE  KeysInv'
  <1>1. /\ UNCHANGED <<historyID, call, queue, job>>
        /\ job[w] \in Requests
        /\ \A v \in Workers : v # w => step'[v] = step[v]
        /\ status' = [status EXCEPT ![TaskOf[job[w]]] = "none"]
    BY DEF ClearStatus, Continues, After, WorkerMoves, Written, Applied, Outcomes,
           NothingLost, Typed, TypeOK, WorkersHold
  <1>2. StatusHasClearer'
    BY <1>1, TaskOfAssumption DEF KeysInv, StatusHasClearer, Typed, TypeOK
  <1> QED
    BY <1>1, <1>2 DEF KeysInv, HistoryHasReader, Unshared, Held, Queued

LEMMA KeysClearHistory ==
    ASSUME NothingLost, Typed, KeysInv, NEW w \in Workers, ClearHistory(w)
    PROVE  KeysInv'
  <1>1. /\ UNCHANGED <<status, call, queue>>
        /\ job[w] \in Requests /\ step[w] = "clearHistory"
        /\ \A v \in Workers : v # w => job'[v] = job[v] /\ step'[v] = step[v]
        /\ historyID' = [historyID EXCEPT ![TaskOf[job[w]]] = None]
    BY DEF ClearHistory, Releases, LetsGo, After, WorkerMoves, Written, Applied, Outcomes,
           NothingLost, Typed, TypeOK, WorkersHold
  <1>2. StatusHasClearer'
    BY <1>1 DEF KeysInv, StatusHasClearer
  <1>3. \A t \in Tasks : t # TaskOf[job[w]] /\ Held(t) => Held(t)'
    BY <1>1 DEF Held
  <1> QED
    BY <1>1, <1>2, <1>3, TaskOfAssumption, MarkersAssumption
       DEF KeysInv, HistoryHasReader, Unshared, Queued, Typed, TypeOK

LEMMA KeysStep ==
    ASSUME NothingLost, Typed, AllUp, KeysInv, [Next]_vars
    PROVE  KeysInv'
  <1>1. CASE UNCHANGED vars
    BY <1>1, NothingDropped DEF vars, Queued
  <1>2. ASSUME NEW r \in Requests, GenerateExport(r) \/ CallStep(r) \/ DeleteRecord(r)
        PROVE  KeysInv'
    <2>1. CASE PushExportTask(r)
      BY <2>1, KeysPush
    <2>2. CASE SetExportHistoryID(r)
      <3>1. /\ UNCHANGED <<status, queue, step, job>>
            /\ call' = [call EXCEPT ![r] = "push"] /\ call[r] # "push"
            /\ historyID' = [historyID EXCEPT ![TaskOf[r]] = r]
        BY <2>2 DEF SetExportHistoryID, CallMoves, After, Written, Applied, Outcomes,
                    NothingLost, workerVars, counts
      <3> QED
        BY <3>1, TaskOfAssumption
           DEF KeysInv, StatusHasClearer, HistoryHasReader, Unshared, Held, Queued,
               Typed, TypeOK
    <2>3. CASE \/ GenerateExport(r) \/ CheckStatus(r) \/ InsertPdfExportHistory(r)
               \/ SetPendingStatus(r) \/ DeleteRecord(r)
      <3>1. /\ UNCHANGED <<queue, historyID, step, job>>
            /\ \A t \in Tasks : status'[t] \in {status[t], "pending"}
            /\ \A q \in Requests : call[q] = "push" => call'[q] = "push"
        BY <2>3
           DEF GenerateExport, CheckStatus, InsertPdfExportHistory,
               SetPendingStatus, DeleteRecord, CallMoves, After, Written, workerVars, counts,
               Typed, TypeOK
      <3> QED
        BY <3>1, NothingDropped DEF Queued
    <2> QED
      BY <1>2, <2>1, <2>2, <2>3 DEF CallStep
  <1>3. ASSUME NEW w \in Workers, WorkerStep(w)
        PROVE  KeysInv'
    <2>1. CASE PopExportTask(w)
      BY <2>1, KeysPop
    <2>2. CASE \/ SetKey(w, "procCache", "processing", "procRow")
               \/ SetKey(w, "failCache", "failed", "failRow")
               \/ SetKey(w, "doneCache", "done", "doneRow")
               \/ MarkFailed(w)
      BY <2>2, KeysWritten DEF MarkFailed
    <2>3. CASE ClearStatus(w)
      BY <2>3, KeysClearStatus
    <2>4. CASE ClearHistory(w)
      BY <2>4, KeysClearHistory
    <2>5. ASSUME NEW from, NEW value, NEW newFile, NEW onOk, NEW onError,
                 SetRow(w, from, value, newFile, onOk, onError),
                 onOk # "clearHistory", onError # "clearHistory"
          PROVE  KeysInv'
      <3>1. /\ UNCHANGED <<queue, call, status, historyID, job>>
            /\ \A v \in Workers : step'[v] = "clearHistory" => step[v] = "clearHistory"
        BY <2>5 DEF SetRow, WorkerMoves, Continues, After, Typed, TypeOK
      <3> QED
        BY <3>1, NothingDropped DEF Queued
    <2>6. CASE \/ PopNothing(w) \/ GetExportHistoryID(w)
               \/ SearchScreenRecordings(w) \/ AssemblePdf(w) \/ UploadPdfToStorage(w)
      <3>1. /\ UNCHANGED <<queue, call, status, historyID, job>>
            /\ \A v \in Workers : step'[v] = "clearHistory" => step[v] = "clearHistory"
        BY <2>6 DEF PopNothing, GetExportHistoryID, SearchScreenRecordings,
                    AssemblePdf, UploadPdfToStorage, WorkerMoves, Continues, After,
                    Typed, TypeOK
      <3> QED
        BY <3>1, NothingDropped DEF Queued
    <2> QED
      BY <1>3, <2>1, <2>2, <2>3, <2>4, <2>5, <2>6
         DEF WorkerStep, SetProcessing, SetFailed, SetDone
  <1>4. ASSUME NEW t \in Tasks, ExpireStatus(t) \/ ExpireHistoryID(t)
        PROVE  KeysInv'
    BY <1>4, NothingDropped
       DEF ExpireStatus, ExpireHistoryID, workerVars, counts, Queued, Typed, TypeOK
  <1> QED
    BY <1>1, <1>2, <1>3, <1>4, NoNodeStep DEF Next

\* Whatever the database, the search and the storage do, and although keys
\* expire and calls share task ids: a status that a worker wrote is cleared by
\* one that holds such a task, and a history key waits for its reader.
THEOREM KeysAreOwned == ASSUME NothingLost PROVE Spec => []KeysHaveOwner
  <1>1. Init => AllUp /\ KeysInv
    BY MarkersAssumption, TaskOfAssumption
       DEF Init, AllUp, KeysInv, StatusHasClearer, HistoryHasReader
  <1>2. Typed /\ AllUp /\ KeysInv /\ [Next]_vars => AllUp' /\ KeysInv'
    BY StayUp, KeysStep
  <1>3. KeysInv => KeysHaveOwner
    BY DEF KeysInv, StatusHasClearer, HistoryHasReader, KeysHaveOwner, Held
  <1> QED
    BY <1>1, <1>2, <1>3, TypedAlways, PTL DEF Spec

-----------------------------------------------------------------------------
(* Pending rows.  PendingHasTask is inductive, given where tasks are and    *)
(* what row ids name: every hand that lets go of a task gives it to the     *)
(* next one.                                                                *)

ProcessingIsReached == NothingLost /\ Faults \cap {"db", "expire"} = {}

\* Who is going to set the row of r to processing.
PendingOf(r) ==
    \/ call[r] = "setHistory"
    \/ /\ historyID[TaskOf[r]] = r
       /\ call[r] = "push" \/ Queued(r)
    \/ \E w \in Workers :
           /\ job[w] = r
           /\ \/ step[w] = "load" /\ historyID[TaskOf[r]] = r
              \/ step[w] \in {"procCache", "procRow"} /\ hist[w] = r

\* A worker that holds another task has another row, and clears other keys.
LEMMA OtherRow ==
    ASSUME Base, NEW r \in Requests, Unshared(r), NEW w \in Workers, job[w] # r
    PROVE  /\ hist[w] # r
           /\ job[w] \in Requests => TaskOf[job[w]] # TaskOf[r]
  BY MarkersAssumption
     DEF Unshared, Base, SameTaskInv, KeysOfTask, Typed, TypeOK, WorkersHold

\* No push is sent again: each task is in one place.
SentOnce == \A r \in Requests : resent[r] = 0

LEMMA StaySentOnce ==
    ASSUME NothingLost, SentOnce, [Next]_vars
    PROVE  SentOnce'
  BY DEF SentOnce, NothingLost, Outcomes, Next, vars, counts, GenerateExport, CallStep,
         CheckStatus, InsertPdfExportHistory, SetExportHistoryID,
         PushExportTask, SetPendingStatus, DeleteRecord, WorkerStep,
         PopExportTask, PopNothing, GetExportHistoryID, SetProcessing,
         SetFailed, SetDone, MarkFailed, SetKey, SetRow, AssemblePdf,
         SearchScreenRecordings, UploadPdfToStorage, ClearStatus,
         ClearHistory, ExpireStatus, ExpireHistoryID, NodeStep, StopServer,
         CloseConnections, ClearCache, Exit, Crash, Restart, Halts

\* Before its push a task is in no other hand.
LEMMA OnlyWithCall ==
    ASSUME Base, SentOnce, NEW r \in Requests, call[r] \in BeforePush
    PROVE  ~Queued(r) /\ \A w \in Workers : job[w] # r
  BY OnePlace DEF Base, SentOnce

\* A step that does not touch what belongs to r.
LEMMA PendingKept ==
    ASSUME NEW r \in Requests, PendingOf(r),
           call[r] \in {"setHistory", "push"} => call'[r] = call[r],
           historyID'[TaskOf[r]] = historyID[TaskOf[r]],
           Queued(r) => Queued(r)',
           \A w \in Workers : job[w] = r =>
               job'[w] = r /\ step'[w] = step[w] /\ hist'[w] = hist[w]
    PROVE  PendingOf(r)'
  BY DEF PendingOf

LEMMA PendingOwnCall ==
    ASSUME ProcessingIsReached, Base, SentOnce, NEW r \in Requests,
           row[r] = "pending" => PendingOf(r),
           row'[r] = "pending",
           GenerateExport(r) \/ CallStep(r) \/ DeleteRecord(r)
    PROVE  PendingOf(r)'
  <1> USE DEF ProcessingIsReached, NothingLost, CallMoves, Outcomes, Applied, Written,
              dbVars, workerVars, counts, Base, Typed, TypeOK
  <1>1. CASE GenerateExport(r)
    BY <1>1, OnlyWithCall DEF GenerateExport, PendingOf, BeforePush
  <1>2. CASE CheckStatus(r)
    BY <1>2, OnlyWithCall DEF CheckStatus, PendingOf, BeforePush
  <1>3. CASE InsertPdfExportHistory(r)
    BY <1>3 DEF InsertPdfExportHistory, PendingOf
  <1>4. CASE SetExportHistoryID(r)
    BY <1>4, TaskOfAssumption DEF SetExportHistoryID, After, PendingOf
  <1>5. CASE PushExportTask(r)
    <2>1. /\ call[r] = "push" /\ UNCHANGED <<row, historyID>>
          /\ queue' = Append(queue, r)
      BY <1>5 DEF PushExportTask
    <2>2. historyID[TaskOf[r]] = r
      BY <2>1, OnlyWithCall DEF PendingOf, BeforePush
    <2>3. Queued(r)'
      BY <2>1, PushedQueue DEF Queued
    <2> QED
      BY <2>1, <2>2, <2>3 DEF PendingOf
  <1>6. CASE SetPendingStatus(r)
    BY <1>6, PendingKept DEF SetPendingStatus, Queued
  <1>7. CASE DeleteRecord(r)
    BY <1>7 DEF DeleteRecord
  <1> QED
    BY <1>1, <1>2, <1>3, <1>4, <1>5, <1>6, <1>7 DEF CallStep

LEMMA PendingOtherCall ==
    ASSUME Base, NEW r \in Requests, Unshared(r), PendingOf(r),
           NEW q \in Requests, q # r,
           GenerateExport(q) \/ CallStep(q) \/ DeleteRecord(q)
    PROVE  PendingOf(r)'
  <1>1. TaskOf[q] # TaskOf[r]
    BY DEF Unshared
  <1>2. /\ UNCHANGED workerVars /\ call'[r] = call[r]
        /\ historyID'[TaskOf[r]] = historyID[TaskOf[r]]
    BY <1>1, TaskOfAssumption
       DEF GenerateExport, CallStep, CheckStatus, InsertPdfExportHistory,
           SetExportHistoryID, PushExportTask, SetPendingStatus, DeleteRecord,
           CallMoves, After, Written, workerVars, counts, Base, Typed, TypeOK
  <1>3. queue' \in {queue, Append(queue, q)}
    BY DEF GenerateExport, CallStep, CheckStatus, InsertPdfExportHistory,
           SetExportHistoryID, PushExportTask, SetPendingStatus, DeleteRecord
  <1>4. Queued(r) => Queued(r)'
    BY <1>3, PushedQueue DEF Queued, Base, Typed, TypeOK
  <1> QED
    BY <1>2, <1>4, PendingKept DEF workerVars, counts

LEMMA PendingPop ==
    ASSUME ProcessingIsReached, Base, SentOnce, NEW r \in Requests, PendingOf(r),
           NEW w \in Workers, PopExportTask(w)
    PROVE  PendingOf(r)'
  <1>1. PICK q \in Requests : q = Last(queue)
    BY PoppedQueue DEF PopExportTask, Base, Typed, TypeOK
  <1>2. /\ q = queue[Len(queue)]
        /\ Len(queue) \in Nat \ {0}
        /\ Len(queue') = Len(queue) - 1
        /\ \A i \in 1..Len(queue) - 1 : queue'[i] = queue[i]
    BY <1>1, PoppedQueue DEF PopExportTask, Base, Typed, TypeOK
  <1>3. /\ UNCHANGED <<call, historyID, hist>>
        /\ job[w] = None /\ job'[w] = q /\ step'[w] = "load"
        /\ \A v \in Workers : v # w => job'[v] = job[v] /\ step'[v] = step[v]
    BY <1>1 DEF PopExportTask, WorkerMoves, ProcessingIsReached, NothingLost, Base,
                Typed, TypeOK, WorkersHold
  <1>4. CASE q = r
    <2>1. Queued(r)
      <3>1. Len(queue) \in 1..Len(queue) /\ queue[Len(queue)] = r
        BY <1>2, <1>4
      <3> QED
        BY <3>1 DEF Queued
    <2>2. call[r] \notin BeforePush /\ \A v \in Workers : job[v] # r
      BY <2>1, OnePlace DEF Base, SentOnce
    <2>3. historyID[TaskOf[r]] = r
      BY <2>2 DEF PendingOf, BeforePush
    <2> QED
      BY <1>3, <1>4, <2>3 DEF PendingOf
  <1>5. CASE q # r
    <2>1. Queued(r) => Queued(r)'
      BY <1>2, <1>5 DEF Queued
    <2> QED
      BY <1>3, <2>1, PendingKept, MarkersAssumption
  <1> QED
    BY <1>4, <1>5

LEMMA PendingOwnWorker ==
    ASSUME ProcessingIsReached, Base, SentOnce, NEW r \in Requests \ NoSession, PendingOf(r),
           row[r] = "pending", row'[r] = "pending",
           NEW w \in Workers, job[w] = r, WorkerStep(w)
    PROVE  PendingOf(r)'
  <1>1. /\ ~Queued(r) /\ call[r] \notin BeforePush
        /\ \A v \in Workers : job[v] = r => v = w
    BY OnlyHere DEF SentOnce
  <1>2. \/ step[w] = "load" /\ historyID[TaskOf[r]] = r
        \/ step[w] \in {"procCache", "procRow"} /\ hist[w] = r
    BY <1>1 DEF PendingOf, BeforePush
  <1>3. CASE step[w] = "load"
    <2>1. GetExportHistoryID(w)
      BY <1>3 DEF WorkerStep, PopExportTask, PopNothing, SetProcessing, SetFailed,
                  SetDone, MarkFailed, SetKey, SetRow, SearchScreenRecordings,
                  AssemblePdf, UploadPdfToStorage, ClearStatus, ClearHistory,
                  WorkerMoves, Continues, Releases, LetsGo, After
    <2>2. job'[w] = r /\ step'[w] = "procCache" /\ hist'[w] = r
      BY <1>2, <1>3, <2>1
         DEF GetExportHistoryID, WorkerMoves, ProcessingIsReached, NothingLost,
             Base, Typed, TypeOK
    <2> QED
      BY <2>2 DEF PendingOf
  <1>4. CASE step[w] = "procCache"
    <2>1. SetKey(w, "procCache", "processing", "procRow")
      BY <1>4 DEF WorkerStep, PopExportTask, PopNothing, GetExportHistoryID,
                  SetProcessing, SetFailed, SetDone, MarkFailed, SetKey, SetRow,
                  SearchScreenRecordings, AssemblePdf, UploadPdfToStorage,
                  ClearStatus, ClearHistory, WorkerMoves, Continues, Releases, LetsGo, After
    <2>2. job'[w] = r /\ step'[w] = "procRow" /\ hist'[w] = r
      BY <1>2, <1>4, <2>1 DEF SetKey, WorkerMoves, Continues, After, Outcomes,
                              ProcessingIsReached, NothingLost, Base, Typed, TypeOK
    <2> QED
      BY <2>2 DEF PendingOf
  <1>5. CASE step[w] = "procRow"
    <2>1. SetRow(w, "procRow", "processing", None, "search", "clearStatus")
      BY <1>5 DEF WorkerStep, PopExportTask, PopNothing, GetExportHistoryID,
                  SetProcessing, SetFailed, SetDone, MarkFailed, SetKey, SetRow,
                  SearchScreenRecordings, AssemblePdf, UploadPdfToStorage,
                  ClearStatus, ClearHistory, WorkerMoves, Continues, Releases, LetsGo, After
    <2>2. row' = [row EXCEPT ![r] = "processing"]
      BY <1>2, <1>5, <2>1 DEF SetRow, Applied, Outcomes, ProcessingIsReached
    <2> QED
      BY <2>2 DEF Base, Typed, TypeOK
  <1> QED
    BY <1>2, <1>3, <1>4, <1>5

LEMMA PendingOtherWorker ==
    ASSUME Base, NEW r \in Requests, Unshared(r), PendingOf(r),
           NEW w \in Workers, job[w] # r, WorkerStep(w), ~PopExportTask(w)
    PROVE  PendingOf(r)'
  <1>1. /\ UNCHANGED <<call, queue>>
        /\ \A v \in Workers : v # w =>
               job'[v] = job[v] /\ step'[v] = step[v] /\ hist'[v] = hist[v]
    BY DEF WorkerStep, PopNothing, GetExportHistoryID, SetProcessing, SetFailed,
           SetDone, MarkFailed, SetKey, SetRow, SearchScreenRecordings,
           AssemblePdf, UploadPdfToStorage, ClearStatus, ClearHistory,
           WorkerMoves, Continues, Releases, LetsGo, After, Base, Typed, TypeOK
  <1>2. \/ historyID' = historyID
        \/ /\ job[w] \in Requests
           /\ historyID' = [historyID EXCEPT ![TaskOf[job[w]]] = None]
    BY DEF WorkerStep, PopNothing, GetExportHistoryID, SetProcessing, SetFailed,
           SetDone, MarkFailed, SetKey, SetRow, SearchScreenRecordings,
           AssemblePdf, UploadPdfToStorage, ClearStatus, ClearHistory, Written,
           WorkerMoves, Continues, Releases, LetsGo, After, Base, Typed, TypeOK, WorkersHold
  <1>3. historyID'[TaskOf[r]] = historyID[TaskOf[r]]
    BY <1>2, OtherRow, TaskOfAssumption DEF Base, Typed, TypeOK
  <1> QED
    BY <1>1, <1>3, PendingKept DEF Queued

LEMMA PendingStep ==
    ASSUME ProcessingIsReached, Base, SentOnce, AllUp, PendingHasTask, [Next]_vars
    PROVE  PendingHasTask'
  <1> SUFFICES ASSUME NEW r \in Requests \ NoSession, Unshared(r), row'[r] = "pending"
               PROVE  PendingOf(r)'
    BY DEF PendingHasTask, PendingOf, Unshared
  <1>1. row[r] = "pending" => PendingOf(r)
    BY DEF PendingHasTask, PendingOf
  <1>2. CASE UNCHANGED vars
    <2>1. UNCHANGED <<call, queue, historyID, row, step, job, hist>>
      BY <1>2 DEF vars
    <2> QED
      BY <1>1, <2>1, PendingKept DEF Queued
  <1>3. ASSUME NEW q \in Requests, GenerateExport(q) \/ CallStep(q) \/ DeleteRecord(q)
        PROVE  PendingOf(r)'
    <2>1. CASE q = r
      BY <1>1, <1>3, <2>1, PendingOwnCall
    <2>2. CASE q # r
      <3>1. row[r] = "pending"
        BY <1>3, <2>2
           DEF GenerateExport, CallStep, CheckStatus, InsertPdfExportHistory,
               SetExportHistoryID, PushExportTask, SetPendingStatus, DeleteRecord,
               Written, dbVars, counts, Base, Typed, TypeOK
      <3> QED
        BY <1>1, <1>3, <2>2, <3>1, PendingOtherCall
    <2> QED
      BY <2>1, <2>2
  <1>4. ASSUME NEW w \in Workers, WorkerStep(w)
        PROVE  PendingOf(r)'
    <2>1. row[r] = "pending"
      BY <1>4
         DEF WorkerStep, PopExportTask, PopNothing, GetExportHistoryID,
             SetProcessing, SetFailed, SetDone, MarkFailed, SetKey, SetRow,
             SearchScreenRecordings, AssemblePdf, UploadPdfToStorage, ClearStatus,
             ClearHistory, dbVars, counts, Base, Typed, TypeOK
    <2>2. CASE PopExportTask(w)
      BY <1>1, <2>1, <2>2, PendingPop
    <2>3. CASE job[w] = r
      BY <1>1, <1>4, <2>1, <2>3, PendingOwnWorker
    <2>4. CASE job[w] # r /\ ~PopExportTask(w)
      BY <1>1, <1>4, <2>1, <2>4, PendingOtherWorker
    <2> QED
      BY <2>2, <2>3, <2>4
  <1>5. ASSUME NEW t \in Tasks, ExpireStatus(t) \/ ExpireHistoryID(t)
        PROVE  PendingOf(r)'
    <2>1. UNCHANGED <<call, queue, historyID, row, step, job, hist>>
      BY <1>5 DEF ExpireStatus, ExpireHistoryID, ProcessingIsReached, dbVars, workerVars, counts
    <2> QED
      BY <1>1, <2>1, PendingKept DEF Queued
  <1> QED
    BY <1>2, <1>3, <1>4, <1>5, NoNodeStep DEF Next, ProcessingIsReached

\* As long as Redis and the database answer, no key expires and no process ends,
\* an export that is shown as pending is on its way to a worker that will find
\* its row, however many calls and workers there are: none is forgotten.
THEOREM PendingIsOnItsWay == ASSUME ProcessingIsReached PROVE Spec => []PendingHasTask
  <1>1. Init => AllUp /\ SentOnce /\ PendingHasTask
    BY DEF Init, AllUp, SentOnce, PendingHasTask
  <1>2. Base /\ AllUp /\ SentOnce /\ PendingHasTask /\ [Next]_vars =>
            AllUp' /\ SentOnce' /\ PendingHasTask'
    BY StayUp, StaySentOnce, PendingStep DEF ProcessingIsReached
  <1> QED
    BY <1>1, <1>2, BaseAlways, PTL DEF Spec

=============================================================================
