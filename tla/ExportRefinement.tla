-------------------------- MODULE ExportRefinement --------------------------
(***************************************************************************)
(* When every call computes a task id of its own, the history rows behave  *)
(* as ExportRecord says.  The proof needs to know, for each place a task   *)
(* can be in, which statuses its row may have (RowInv).                    *)
(***************************************************************************)
EXTENDS ExportProofs

OwnIds == \A r \in Requests : Unshared(r)

Unpushed == {"setHistory", "push"}
BeforeRow == {"load", "procCache", "procRow"}

\* How far the row of a task that is worked on has come: with a second copy of
\* the task around, another worker may have ended it.
RowsInWork(r) ==
    {"processing", "absent"} \cup (IF resent[r] > 0 THEN {"done", "failed"} ELSE {})

\* Where a task is tells how far its row has come: with its handler or on the
\* list, with a worker that has not come to the row yet, or with one that has.
RowOfCall(r) ==
    /\ call[r] \in {"new", "check", "insert"} => row[r] = "absent"
    /\ resent[r] = 0 /\ (call[r] \in Unpushed \/ Queued(r)) =>
           row[r] \in {"pending", "absent"}

RowToBegin(w) ==
    step[w] \in BeforeRow /\ resent[job[w]] = 0 => row[job[w]] \in {"pending", "absent"}

RowBegun(w) ==
    step[w] \in InProgress => hist[w] = job[w] /\ row[job[w]] \in RowsInWork(job[w])

RowInv ==
    /\ \A r \in Requests : RowOfCall(r)
    /\ \A w \in Workers : RowToBegin(w) /\ RowBegun(w)

\* A worker found no row id, or the one of its own task.
LEMMA OwnRow ==
    ASSUME OwnIds, Base, NEW w \in Workers, hist[w] \in Requests
    PROVE  hist[w] = job[w] /\ job[w] \in Requests
  BY MarkersAssumption
     DEF OwnIds, Unshared, Base, SameTaskInv, KeysOfTask, Typed, TypeOK, WorkersHold

\* A step that only deletes rows and moves no task or worker forward.
LEMMA NothingForward ==
    ASSUME Base, RowInv, resent' = resent,
           \A r \in Requests : row'[r] \in {row[r], "absent"},
           \A r \in Requests : Queued(r)' => Queued(r),
           \A r \in Requests :
               /\ call'[r] \in {"new", "check", "insert"} =>
                      call[r] \in {"new", "check", "insert"}
               /\ call'[r] \in Unpushed => call[r] \in Unpushed,
           \A w \in Workers :
               /\ job'[w] = job[w] \/ step'[w] = "idle"
               /\ hist'[w] = hist[w] \/ step'[w] \notin InProgress
               /\ step'[w] \in BeforeRow => step[w] \in BeforeRow
               /\ step'[w] \in InProgress => step[w] \in InProgress
    PROVE  RowInv'
  <1>1. ASSUME NEW w \in Workers, step'[w] \in BeforeRow, resent'[job'[w]] = 0
        PROVE  row'[job'[w]] \in {"pending", "absent"}
    BY <1>1 DEF RowInv, RowToBegin, Base, Typed, WorkersHold, BeforeRow
  <1>2. ASSUME NEW w \in Workers, step'[w] \in InProgress
        PROVE  hist'[w] = job'[w] /\ row'[job'[w]] \in RowsInWork(job[w]) /\ job'[w] = job[w]
    BY <1>2 DEF RowInv, RowBegun, RowsInWork, Base, Typed, WorkersHold, InProgress
  <1>3. ASSUME NEW r \in Requests
        PROVE  RowOfCall(r)'
    BY DEF RowInv, RowOfCall
  <1>4. ASSUME NEW w \in Workers
        PROVE  RowToBegin(w)' /\ RowBegun(w)'
    BY <1>1, <1>2 DEF RowToBegin, RowBegun, RowsInWork
  <1> QED
    BY <1>3, <1>4 DEF RowInv

\* The handler's steps.
LEMMA RowCall ==
    ASSUME OwnIds, Base, RowInv, NEW r \in Requests,
           GenerateExport(r) \/ CallStep(r) \/ DeleteRecord(r)
    PROVE  RowInv'
  <1> USE DEF CallMoves, Base, Typed, TypeOK, Unpushed, workerVars
  <1>1. CASE InsertPdfExportHistory(r)
    <2>1. /\ call[r] = "insert"
          /\ UNCHANGED <<queue, workerVars, resent>>
          /\ \A q \in Requests : q # r => call'[q] = call[q] /\ row'[q] = row[q]
          /\ call'[r] \in {"setHistory", "error"}
          /\ row'[r] \in {"pending", row[r]}
      BY <1>1 DEF InsertPdfExportHistory, Written, counts
    <2>2. row[r] = "absent"
      BY <2>1 DEF RowInv, RowOfCall
    <2>3. ~Queued(r) /\ \A w \in Workers : job[w] # r
      BY <2>1, OnePlace DEF HeldInv, ResentWasPushed, BeforeResending, BeforePush
    <2>4. ASSUME NEW q \in Requests
          PROVE  RowOfCall(q)'
      BY <2>1, <2>2, <2>3 DEF RowInv, RowOfCall, Queued
    <2>5. ASSUME NEW w \in Workers
          PROVE  RowToBegin(w)' /\ RowBegun(w)'
      BY <2>1, <2>3 DEF RowInv, RowToBegin, RowBegun, RowsInWork, WorkersHold, BeforeRow,
                        InProgress
    <2> QED
      BY <2>4, <2>5 DEF RowInv
  <1>2. CASE PushExportTask(r)
    <2>1. /\ call[r] = "push"
          /\ UNCHANGED <<row, workerVars>>
          /\ \A q \in Requests : q # r => call'[q] = call[q] /\ resent'[q] = resent[q]
          /\ call'[r] \in {"push", "setStatus", "error"}
          /\ resent'[r] = resent[r] \/ resent'[r] = resent[r] + 1
          /\ resent[r] \in Nat
      BY <1>2, MaxRetriesAssumption DEF PushExportTask, After, dbVars, CountsOK
    <2>2. \A q \in Requests : Queued(q)' => Queued(q) \/ q = r
      BY <1>2, PushedQueue DEF PushExportTask, Queued
    <2>3. \A q \in Requests : /\ resent'[q] = 0 => resent[q] = 0
                              /\ resent[q] > 0 => resent'[q] > 0
      BY <2>1
    <2>4. ASSUME NEW q \in Requests
          PROVE  RowOfCall(q)'
      BY <2>1, <2>2, <2>3 DEF RowInv, RowOfCall
    <2>5. ASSUME NEW w \in Workers
          PROVE  RowToBegin(w)' /\ RowBegun(w)'
      BY <2>1, <2>3 DEF RowInv, RowToBegin, RowBegun, RowsInWork, WorkersHold, BeforeRow,
                        InProgress
    <2> QED
      BY <2>4, <2>5 DEF RowInv
  <1>3. CASE \/ GenerateExport(r) \/ CheckStatus(r) \/ SetExportHistoryID(r)
             \/ SetPendingStatus(r) \/ DeleteRecord(r)
    <2>1. /\ UNCHANGED <<queue, workerVars, resent>>
          /\ \A q \in Requests : row'[q] \in {row[q], "absent"}
          /\ \A q \in Requests :
                 /\ call'[q] \in {"new", "check", "insert"} =>
                        call[q] \in {"new", "check", "insert"}
                 /\ call'[q] \in Unpushed => call[q] \in Unpushed
      BY <1>3 DEF GenerateExport, CheckStatus, SetExportHistoryID, SetPendingStatus,
                  DeleteRecord, After, dbVars, counts
    <2> QED
      BY <2>1, NothingForward DEF Queued
  <1> QED
    BY <1>1, <1>2, <1>3 DEF CallStep

\* A worker's update of its own row.
LEMMA RowUpdate ==
    ASSUME OwnIds, Base, RowInv, NEW w \in Workers,
           NEW from \in BeforeRow \cup InProgress,
           NEW value \in {"processing", "failed", "done"},
           NEW newFile, NEW onOk, NEW onError,
           value = "processing" => onOk \in InProgress,
           value # "processing" => onOk = "clearStatus",
           onError = "clearStatus",
           SetRow(w, from, value, newFile, onOk, onError)
    PROVE  RowInv'
  <1>1. /\ step[w] = from /\ job[w] \in Requests
        /\ UNCHANGED <<call, queue, job, hist, resent>>
        /\ \A v \in Workers : v # w => step'[v] = step[v]
    BY DEF SetRow, Continues, WorkerMoves, counts, Base, Typed, TypeOK, WorkersHold,
           BeforeRow, InProgress
  <1>2. CASE row' = row /\ step'[w] = "clearStatus"
    BY <1>1, <1>2, NothingForward DEF Queued, BeforeRow, InProgress
  <1>3. CASE /\ hist[w] \in Requests
             /\ row' = [row EXCEPT ![hist[w]] = value]
             /\ \/ step'[w] = onOk /\ row[hist[w]] # "absent"
                \/ step'[w] = "clearStatus"
             /\ row[hist[w]] # "absent"
    <2>1. hist[w] = job[w]
      BY <1>1, <1>3, OwnRow
    <2>2. \A q \in Requests : row'[q] = IF q = job[w] THEN value ELSE row[q]
      BY <1>3, <2>1 DEF Base, Typed, TypeOK
    <2>3. resent[job[w]] = 0 =>
              /\ ~Queued(job[w]) /\ call[job[w]] \notin Unpushed
              /\ \A v \in Workers : v # w => job[v] # job[w]
      BY <1>1, OnlyHere DEF BeforePush, Unpushed
    <2>4. resent[job[w]] # 0 => resent[job[w]] > 0
      BY <1>1, MaxRetriesAssumption DEF Base, Typed, TypeOK, CountsOK
    <2>5. ASSUME NEW q \in Requests
          PROVE  RowOfCall(q)'
      BY <1>1, <1>3, <2>1, <2>2, <2>3 DEF RowInv, RowOfCall, Queued
    <2>6. ASSUME NEW v \in Workers
          PROVE  RowToBegin(v)'
      <3>1. CASE v = w
        BY <1>1, <1>3, <2>2, <3>1 DEF RowToBegin, BeforeRow, InProgress
      <3>2. CASE v # w
        BY <1>1, <2>2, <2>3, <3>2
           DEF RowInv, RowToBegin, Base, Typed, WorkersHold, BeforeRow
      <3> QED
        BY <3>1, <3>2
    <2>7. ASSUME NEW v \in Workers
          PROVE  RowBegun(v)'
      <3>1. CASE v = w
        BY <1>1, <1>3, <2>1, <2>2, <3>1 DEF RowBegun, RowsInWork, BeforeRow, InProgress
      <3>2. CASE v # w
        BY <1>1, <2>2, <2>3, <2>4, <3>2
           DEF RowInv, RowBegun, RowsInWork, Base, Typed, WorkersHold, InProgress
      <3> QED
        BY <3>1, <3>2
    <2> QED
      BY <2>5, <2>6, <2>7 DEF RowInv
  <1> QED
    BY <1>1, <1>2, <1>3
       DEF SetRow, Continues, WorkerMoves, Applied, dbVars, Base, Typed, TypeOK

LEMMA RowWorker ==
    ASSUME OwnIds, Base, RowInv, NEW w \in Workers, WorkerStep(w)
    PROVE  RowInv'
  <1>1. CASE PopExportTask(w)
    <2>1. PICK r \in Requests : r = Last(queue)
      BY <1>1, PoppedQueue DEF PopExportTask, Base, Typed, TypeOK
    <2>2. /\ r = queue[Len(queue)]
          /\ Len(queue) \in Nat \ {0}
          /\ Len(queue') = Len(queue) - 1
          /\ \A i \in 1..Len(queue) - 1 : queue'[i] = queue[i]
      BY <1>1, <2>1, PoppedQueue DEF PopExportTask, Base, Typed, TypeOK
    <2>3. Queued(r) /\ \A q \in Requests : Queued(q)' => Queued(q)
      BY <2>2 DEF Queued
    <2>4. /\ UNCHANGED <<call, row, resent>>
          /\ \A v \in Workers :
                 \/ step'[v] = step[v] /\ job'[v] = job[v] /\ hist'[v] = hist[v]
                 \/ step'[v] = "load" /\ job'[v] = r
      BY <1>1, <2>1 DEF PopExportTask, WorkerMoves, Continues, After, dbVars, counts, Base, Typed, TypeOK
    <2> QED
      BY <2>3, <2>4 DEF RowInv, RowOfCall, RowToBegin, RowBegun, RowsInWork, BeforeRow, InProgress
  <1>2. CASE SetProcessing(w)
    <2>1. CASE SetRow(w, "procRow", "processing", None, "search", "clearStatus")
      BY <2>1, RowUpdate DEF BeforeRow, InProgress
    <2>2. CASE SetKey(w, "procCache", "processing", "procRow")
      <3>1. /\ UNCHANGED <<call, queue, row, job, hist, resent>>
            /\ step[w] = "procCache" /\ step'[w] \in {"procCache", "procRow"}
            /\ \A v \in Workers : v # w => step'[v] = step[v]
        BY <2>2 DEF SetKey, Continues, After, WorkerMoves, dbVars, counts, Base, Typed, TypeOK
      <3> QED
        BY <3>1, NothingForward DEF BeforeRow, InProgress, Queued
    <2> QED
      BY <1>2, <2>1, <2>2 DEF SetProcessing
  <1>3. CASE SetFailed(w)
    <2>1. CASE SetRow(w, "failRow", "failed", None, "clearStatus", "clearStatus")
      BY <2>1, RowUpdate DEF InProgress
    <2>2. CASE SetKey(w, "failCache", "failed", "failRow")
      <3>1. /\ UNCHANGED <<call, queue, row, job, hist, resent>>
            /\ step[w] = "failCache" /\ step'[w] \in {"failCache", "failRow"}
            /\ \A v \in Workers : v # w => step'[v] = step[v]
        BY <2>2 DEF SetKey, Continues, After, WorkerMoves, dbVars, counts, Base, Typed, TypeOK
      <3> QED
        BY <3>1, NothingForward DEF BeforeRow, InProgress, Queued
    <2> QED
      BY <1>3, <2>1, <2>2 DEF SetFailed
  <1>4. CASE SetDone(w)
    <2>1. CASE SetRow(w, "doneRow", "done", job[w], "clearStatus", "clearStatus")
      BY <2>1, RowUpdate DEF InProgress
    <2>2. CASE SetKey(w, "doneCache", "done", "doneRow")
      <3>1. /\ UNCHANGED <<call, queue, row, job, hist, resent>>
            /\ step[w] = "doneCache" /\ step'[w] \in {"doneCache", "doneRow"}
            /\ \A v \in Workers : v # w => step'[v] = step[v]
        BY <2>2 DEF SetKey, Continues, After, WorkerMoves, dbVars, counts, Base, Typed, TypeOK
      <3> QED
        BY <3>1, NothingForward DEF BeforeRow, InProgress, Queued
    <2> QED
      BY <1>4, <2>1, <2>2 DEF SetDone
  <1>5. CASE ~PopExportTask(w) /\ ~SetProcessing(w) /\ ~SetFailed(w) /\ ~SetDone(w)
    <2>1. /\ UNCHANGED <<call, queue, row, resent>>
          /\ \A v \in Workers :
                 /\ job'[v] = job[v] \/ step'[v] = "idle"
                 /\ hist'[v] = hist[v] \/ step'[v] \notin InProgress
                 /\ step'[v] \in BeforeRow => step[v] \in BeforeRow
                 /\ step'[v] \in InProgress => step[v] \in InProgress
      BY <1>5
         DEF WorkerStep, PopNothing, GetExportHistoryID, MarkFailed, SetKey,
             AssemblePdf, SearchScreenRecordings, UploadPdfToStorage,
             ClearStatus, ClearHistory, WorkerMoves, Continues, Releases, LetsGo, After,
             dbVars, counts, BeforeRow, InProgress, Base, Typed, TypeOK
    <2> QED
      BY <2>1, NothingForward DEF Queued
  <1> QED
    BY <1>1, <1>2, <1>3, <1>4, <1>5

LEMMA RowStep ==
    ASSUME OwnIds, Base, RowInv, [Next]_vars
    PROVE  RowInv'
  <1>1. CASE UNCHANGED vars
    BY <1>1 DEF RowInv, RowOfCall, RowToBegin, RowBegun, RowsInWork, Queued, vars
  <1>2. ASSUME NEW t \in Tasks, ExpireStatus(t) \/ ExpireHistoryID(t)
        PROVE  RowInv'
    BY <1>2, NothingForward
       DEF ExpireStatus, ExpireHistoryID, dbVars, workerVars, counts, Queued
  <1>3. ASSUME NEW n \in Nodes, NodeStep(n)
        PROVE  RowInv'
    <2>1. /\ queue' \in {queue, <<>>} /\ UNCHANGED <<row, resent>>
          /\ \A w \in Workers :
                 \/ step'[w] = "idle"
                 \/ step'[w] = step[w] /\ job'[w] = job[w] /\ hist'[w] = hist[w]
          /\ \A r \in Requests : call'[r] \in {call[r], "aborted"}
      BY <1>3
         DEF NodeStep, StopServer, CloseConnections, ClearCache, Exit, Crash,
             Restart, Halts, dbVars, workerVars, counts, Base, Typed, TypeOK
    <2> QED
      BY <2>1, NothingForward DEF Queued, Unpushed, BeforeRow, InProgress
  <1> QED
    BY <1>1, <1>2, <1>3, RowCall, RowWorker DEF Next

LEMMA RowInvAlways == ASSUME OwnIds PROVE Spec => [](Base /\ RowInv)
  <1>1. Init => RowInv
    BY DEF Init, RowInv, RowOfCall, RowToBegin, RowBegun, Queued, Unpushed, BeforeRow, InProgress
  <1>2. Base /\ RowInv /\ [Next]_vars => RowInv'
    BY RowStep
  <1> QED
    BY <1>1, <1>2, BaseAlways, PTL DEF Spec

-----------------------------------------------------------------------------
(* Every step is a step of ExportRecord or leaves all records alone.        *)

\* One record changes as ExportRecord lets it, and no other.
LEMMA OneRecord ==
    ASSUME Typed, Typed', NEW r \in Requests, resent' = resent,
           \A q \in Requests :
               q # r => RecordOf(q)' = RecordOf(q) /\ file'[q] = file[q],
           \/ RecordOf(r)' = RecordOf(r) /\ file'[r] = file[r]
           \/ /\ RecordOf(r) = "unborn" /\ RecordOf(r)' = "pending"
              /\ file'[r] \in {None, SourceFile}
           \/ /\ RecordOf(r) \in {"pending"} \cup Record!ByRepetition(r)
              /\ RecordOf(r)' = "processing"
              /\ file'[r] = file[r]
           \/ /\ RecordOf(r) \in {"processing"} \cup Record!ByRepetition(r)
              /\ RecordOf(r)' = "failed"
              /\ file'[r] = file[r]
           \/ /\ RecordOf(r) \in {"processing"} \cup Record!ByRepetition(r)
              /\ RecordOf(r)' = "done"
              /\ file'[r] = r
           \/ /\ RecordOf(r) \in {"pending", "processing", "failed", "done"}
              /\ RecordOf(r)' = "gone" /\ file'[r] = None
    PROVE  [Record!Next]_(Record!recordVars)
  <1>1. /\ Records' = [Records EXCEPT ![r] = RecordOf(r)']
        /\ Records[r] = RecordOf(r)
        /\ RecordOf(r)' = RecordOf(r) => Records' = Records
    BY DEF Records
  <1>2. /\ file' = [file EXCEPT ![r] = file'[r]]
        /\ file'[r] = file[r] => file' = file
    BY DEF Typed, TypeOK
  <1>3. Again' = Again
    BY DEF Again
  <1> QED
    BY <1>1, <1>2, <1>3
       DEF Record!Next, Record!recordVars, Record!Open, Record!Begin,
           Record!Fail, Record!Finish, Record!Delete, Record!Becomes

\* Calls end without a record of theirs, any number of them at once.
LEMMA CallsRefused ==
    ASSUME file' = file, resent' = resent,
           \A q \in Requests :
               \/ RecordOf(q)' = RecordOf(q)
               \/ RecordOf(q) = "unborn" /\ RecordOf(q)' = "gone"
    PROVE  [Record!Next]_(Record!recordVars)
  <1> DEFINE S == {q \in Requests : RecordOf(q)' # RecordOf(q)}
  <1>1. S \in SUBSET Requests /\ \A q \in S : Records[q] = "unborn"
    BY DEF Records
  <1>2. Records' = [q \in Requests |-> IF q \in S THEN "gone" ELSE Records[q]]
    BY DEF Records
  <1>3. Record!Refuse(S)
    BY <1>1, <1>2 DEF Record!Refuse, Again
  <1> QED
    BY <1>1, <1>3 DEF Record!Next

LEMMA RecordPush ==
    ASSUME Typed, NEW r \in Requests, PushExportTask(r)
    PROVE  [Record!Next]_(Record!recordVars)
  <1>1. /\ UNCHANGED dbVars
        /\ call[r] = "push" /\ call'[r] \in {"push", "setStatus", "error"}
        /\ \A q \in Requests : q # r => call'[q] = call[q]
        /\ resent' = resent \/ resent' = [resent EXCEPT ![r] = @ + 1]
    BY DEF PushExportTask, CallMoves, After, Typed, TypeOK
  <1>2. Records' = Records /\ RecordOf(r) # "unborn"
    BY <1>1 DEF Records, RecordOf, dbVars, Typed, TypeOK, RowStatuses
  <1>3. CASE resent' = resent
    BY <1>1, <1>2, <1>3 DEF Record!recordVars, Again, dbVars
  <1>4. CASE resent' = [resent EXCEPT ![r] = @ + 1]
    <2>1. /\ resent[r] \in Nat /\ resent'[r] = resent[r] + 1
          /\ \A q \in Requests : q # r => resent'[q] = resent[q]
      BY <1>4, MaxRetriesAssumption DEF Typed, TypeOK, CountsOK
    <2>2. Again' = Again \cup {r}
      BY <2>1 DEF Again
    <2>3. Record!Repeat(r)
      BY <1>1, <1>2, <2>2 DEF Record!Repeat, Records, dbVars
    <2> QED
      BY <2>3 DEF Record!Next
  <1> QED
    BY <1>1, <1>3, <1>4

LEMMA RecordUpdate ==
    ASSUME OwnIds, Base, Typed', RowInv, NEW w \in Workers,
           NEW from, NEW value, NEW newFile, NEW onOk, NEW onError,
           \/ from = "procRow" /\ value = "processing" /\ newFile = None
           \/ from = "failRow" /\ value = "failed" /\ newFile = None
           \/ from = "doneRow" /\ value = "done" /\ newFile = job[w],
           SetRow(w, from, value, newFile, onOk, onError)
    PROVE  [Record!Next]_(Record!recordVars)
  <1>1. step[w] = from /\ call' = call /\ resent' = resent
    BY DEF SetRow, Continues, WorkerMoves, counts
  <1>2. CASE UNCHANGED dbVars
    BY <1>1, <1>2, CallsRefused DEF dbVars, RecordOf
  <1>3. CASE /\ hist[w] \in Requests /\ row[hist[w]] # "absent"
             /\ row' = [row EXCEPT ![hist[w]] = value]
             /\ file' = [file EXCEPT ![hist[w]] = IF newFile = None THEN @ ELSE newFile]
    <2>1. PICK r \in Requests : r = hist[w] /\ r = job[w]
      BY <1>3, OwnRow
    <2>2. call[r] \notin {"new", "check", "insert"} /\ row[r] # "absent"
      BY <1>3, <2>1 DEF RowInv, RowOfCall
    <2>3. resent[r] = 0 => row[r] = IF from = "procRow" THEN "pending" ELSE "processing"
      BY <1>1, <2>1, <2>2
         DEF RowInv, RowToBegin, RowBegun, RowsInWork, BeforeRow, InProgress
    <2>4. resent[r] # 0 =>
              /\ r \in Again
              /\ row[r] \in {"processing", "done", "failed"}
                     \cup (IF from = "procRow" THEN {"pending"} ELSE {})
      <3>1. resent[r] # 0 => r \in Again
        BY MaxRetriesAssumption DEF Again, Base, Typed, TypeOK, CountsOK
      <3>2. row[r] \in {"pending", "processing", "done", "failed"}
        BY <2>2 DEF Base, Typed, TypeOK, RowStatuses
      <3>3. from # "procRow" => row[r] \in {"processing", "done", "failed"}
        BY <1>1, <2>1, <2>2 DEF RowInv, RowBegun, RowsInWork, InProgress
      <3> QED
        BY <3>1, <3>2, <3>3
    <2>5. row[r] \in (IF from = "procRow" THEN {"pending"} ELSE {"processing"})
                         \cup Record!ByRepetition(r)
      BY <2>3, <2>4 DEF Record!ByRepetition
    <2>6. \A q \in Requests :
              q # r => RecordOf(q)' = RecordOf(q) /\ file'[q] = file[q]
      BY <1>1, <1>3, <2>1 DEF RecordOf, Base, Typed, TypeOK
    <2>7. /\ RecordOf(r) = row[r] /\ RecordOf(r)' = value
          /\ file'[r] = IF newFile = None THEN file[r] ELSE newFile
      BY <1>1, <1>3, <2>1, <2>2 DEF RecordOf, Base, Typed, TypeOK
    <2>8. value = "done" => file'[r] = r
      BY <2>1, <2>7, MarkersAssumption
    <2>9. value # "done" => file'[r] = file[r]
      BY <2>7
    <2> QED
      BY <1>1, <2>5, <2>6, <2>7, <2>8, <2>9, OneRecord DEF Base
  <1> QED
    BY <1>2, <1>3 DEF SetRow

LEMMA RecordStep ==
    ASSUME OwnIds, Base, Typed', RowInv, [Next]_vars
    PROVE  [Record!Next]_(Record!recordVars)
  <1>1. CASE UNCHANGED vars
    BY <1>1, CallsRefused DEF vars, RecordOf
  <1>2. ASSUME NEW r \in Requests, GenerateExport(r) \/ CallStep(r) \/ DeleteRecord(r)
        PROVE  [Record!Next]_(Record!recordVars)
    <2> USE DEF RowInv, RowOfCall, RecordOf, Base, Typed, TypeOK
    <2>1. CASE InsertPdfExportHistory(r)
      <3>1. /\ \A q \in Requests :
                   q # r => RecordOf(q)' = RecordOf(q) /\ file'[q] = file[q]
            /\ RecordOf(r) = "unborn"
            /\ \/ RecordOf(r)' = "pending" /\ file'[r] \in {None, SourceFile}
               \/ RecordOf(r)' = "gone" /\ file' = file
            /\ resent' = resent
        BY <2>1 DEF InsertPdfExportHistory, CallMoves, Written, CallSteps, CallEnds, counts
      <3> QED
        BY <3>1, OneRecord, CallsRefused
    <2>2. CASE DeleteRecord(r)
      <3>1. /\ \A q \in Requests :
                   q # r => RecordOf(q)' = RecordOf(q) /\ file'[q] = file[q]
            /\ RecordOf(r) \in {"pending", "processing", "failed", "done"}
            /\ RecordOf(r)' = "gone" /\ file'[r] = None
            /\ resent' = resent
        BY <2>2 DEF DeleteRecord, RowStatuses, counts
      <3> QED
        BY <3>1, OneRecord
    <2>3. CASE PushExportTask(r)
      BY <2>3, RecordPush
    <2>4. CASE \/ GenerateExport(r) \/ CheckStatus(r) \/ SetExportHistoryID(r)
               \/ SetPendingStatus(r)
      <3>1. /\ file' = file /\ resent' = resent
            /\ \A q \in Requests :
                   \/ RecordOf(q)' = RecordOf(q)
                   \/ RecordOf(q) = "unborn" /\ RecordOf(q)' = "gone"
        BY <2>4 DEF GenerateExport, CheckStatus, SetExportHistoryID,
                    SetPendingStatus, CallMoves, After, dbVars, counts
      <3> QED
        BY <3>1, CallsRefused
    <2> QED
      BY <1>2, <2>1, <2>2, <2>3, <2>4 DEF CallStep
  <1>3. ASSUME NEW w \in Workers, WorkerStep(w)
        PROVE  [Record!Next]_(Record!recordVars)
    <2>1. CASE UNCHANGED <<call, row, file, resent>>
      BY <2>1, CallsRefused DEF RecordOf
    <2>2. CASE \/ SetRow(w, "procRow", "processing", None, "search", "clearStatus")
               \/ SetRow(w, "failRow", "failed", None, "clearStatus", "clearStatus")
               \/ SetRow(w, "doneRow", "done", job[w], "clearStatus", "clearStatus")
      BY <2>2, RecordUpdate
    <2> QED
      BY <1>3, <2>1, <2>2
         DEF WorkerStep, PopExportTask, PopNothing, GetExportHistoryID,
             SetProcessing, SetFailed, SetDone, MarkFailed, SetKey, AssemblePdf,
             SearchScreenRecordings, UploadPdfToStorage, ClearStatus,
             ClearHistory, dbVars, counts
  <1>4. ASSUME NEW t \in Tasks, ExpireStatus(t) \/ ExpireHistoryID(t)
        PROVE  [Record!Next]_(Record!recordVars)
    BY <1>4, CallsRefused DEF ExpireStatus, ExpireHistoryID, RecordOf, dbVars, counts
  <1>5. ASSUME NEW n \in Nodes, NodeStep(n)
        PROVE  [Record!Next]_(Record!recordVars)
    <2>1. /\ UNCHANGED <<dbVars, resent>>
          /\ \A r \in Requests : call'[r] \in {call[r], "aborted"}
      BY <1>5
         DEF NodeStep, StopServer, CloseConnections, ClearCache, Exit, Crash,
             Restart, Halts, dbVars, counts, workerVars, Base, Typed, TypeOK
    <2> QED
      BY <2>1, CallsRefused DEF RecordOf, dbVars
  <1> QED
    BY <1>1, <1>2, <1>3, <1>4, <1>5 DEF Next

\* Whichever calls fail or have their answers lost, whichever keys expire or are
\* flushed and whichever processes stop or crash, a history row with a task id
\* of its own goes from pending through processing to failed, or to done with
\* its own file, and does not change again but by being deleted, unless go-redis
\* sent the push again: then it can come to processing and an end repeatedly.
THEOREM RowsRefineRecords == ASSUME OwnIds PROVE Spec => RecordSpec
  <1>1. Init => Record!Init
    BY DEF Init, Record!Init, Records, RecordOf, Again
  <1>2. Base /\ Typed' /\ RowInv /\ [Next]_vars => [Record!Next]_(Record!recordVars)
    BY RecordStep
  <1>3. Base => Typed
    BY DEF Base
  <1> QED
    BY <1>1, <1>2, <1>3, RowInvAlways, PTL DEF Spec, RecordSpec, Record!Spec

-----------------------------------------------------------------------------
(* The same as an action property of the rows.                              *)

\* What a step that is one of ExportRecord does to a row that is there.
LEMMA RowChanges ==
    ASSUME Base, Typed', [Record!Next]_(Record!recordVars), NEW r \in Requests,
           row[r] # "absent"
    PROVE  /\ row[r] \in {"done", "failed"} /\ resent[r] = 0 =>
                  \/ row'[r] = "absent"
                  \/ row'[r] = row[r] /\ file'[r] = file[r]
           /\ file[r] = r => row'[r] = "absent" \/ file'[r] = r
  <1>1. Records[r] = row[r] /\ Records'[r] = RecordOf(r)' /\ row[r] # "unborn"
    BY DEF Records, RecordOf, Base, Typed, TypeOK, RowStatuses
  <1>2. Records'[r] # "gone" => row'[r] = Records'[r] \/ Records'[r] = "unborn"
    BY <1>1 DEF RecordOf
  <1>3. resent[r] = 0 => r \notin Again
    BY DEF Again
  <1>4. CASE UNCHANGED Record!recordVars
    BY <1>1, <1>2, <1>4 DEF Record!recordVars, RecordOf
  <1>5. ASSUME NEW S \in SUBSET Requests, Record!Refuse(S)
        PROVE  Records'[r] = Records[r] /\ file' = file
    BY <1>1, <1>5 DEF Record!Refuse, Records
  <1>6. ASSUME NEW q \in Requests,
               Record!Open(q) \/ Record!Repeat(q) \/ Record!Begin(q) \/ Record!Fail(q)
                   \/ Record!Finish(q) \/ Record!Delete(q),
               q # r
        PROVE  Records'[r] = Records[r] /\ file'[r] = file[r]
    BY <1>6 DEF Record!Open, Record!Repeat, Record!Begin, Record!Fail, Record!Finish,
                Record!Delete, Record!Becomes, Records, Base, Typed, TypeOK
  <1>7. CASE \/ Record!Open(r) \/ Record!Repeat(r) \/ Record!Begin(r) \/ Record!Fail(r)
             \/ Record!Finish(r) \/ Record!Delete(r)
    <2>1. \/ Records'[r] = "gone"
          \/ Records'[r] = Records[r] /\ file'[r] = file[r]
          \/ /\ Records[r] \in {"pending", "processing"} \cup Record!ByRepetition(r)
             /\ file'[r] \in {file[r], r}
      BY <1>1, <1>7
         DEF Record!Open, Record!Repeat, Record!Begin, Record!Fail, Record!Finish,
             Record!Delete, Record!Becomes, Records, Base, Typed, TypeOK
    <2>2. Records'[r] = "gone" => row'[r] \in {"absent", "gone"}
      BY <1>1 DEF RecordOf
    <2>3. row'[r] # "gone"
      BY DEF Typed, TypeOK, RowStatuses
    <2> QED
      BY <1>1, <1>2, <1>3, <2>1, <2>2, <2>3 DEF Record!ByRepetition, RecordOf
  <1> QED
    BY <1>1, <1>2, <1>4, <1>5, <1>6, <1>7 DEF Record!Next, RecordOf

\* Only an insertion makes a row, and only an insertion makes one pending.
LEMMA RowsInserted ==
    ASSUME Base, [Next]_vars, NEW r \in Requests,
           row'[r] # row[r], row[r] = "absent" \/ row'[r] = "pending"
    PROVE  call[r] = "insert"
  <1>1. \E q \in Requests : InsertPdfExportHistory(q)
    BY DEF Next, vars, GenerateExport, CallStep, CheckStatus,
           SetExportHistoryID, PushExportTask, SetPendingStatus,
           DeleteRecord, WorkerStep, PopExportTask, PopNothing,
           GetExportHistoryID, SetProcessing, SetFailed, SetDone,
           MarkFailed, SetKey, SetRow, AssemblePdf, SearchScreenRecordings,
           UploadPdfToStorage, ClearStatus, ClearHistory, ExpireStatus,
           ExpireHistoryID, NodeStep, StopServer, CloseConnections,
           ClearCache, Exit, Crash, Restart, Halts, dbVars, Base, Typed,
           TypeOK
  <1> QED
    BY <1>1 DEF InsertPdfExportHistory, CallMoves, Written, Base, Typed, TypeOK

\* With task ids of their own, done and failed rows keep their status and file
\* until they are deleted, unless the push was sent again; even then a row keeps
\* its own file, none turns pending again, and only an insertion makes one.
THEOREM TerminalRowsAreFinal == ASSUME OwnIds PROVE Spec => TerminalIsFinal
  <1>1. ASSUME Base, Typed', RowInv, [Next]_vars, NEW r \in Requests
        PROVE  /\ row[r] \in {"done", "failed"} /\ resent[r] = 0 =>
                      \/ row'[r] = "absent"
                      \/ row'[r] = row[r] /\ file'[r] = file[r]
               /\ row[r] # "absent" /\ file[r] = r => row'[r] = "absent" \/ file'[r] = r
               /\ row'[r] = "pending" => row[r] = "pending" \/ call[r] = "insert"
               /\ row[r] = "absent" /\ row'[r] # "absent" => call[r] = "insert"
    BY <1>1, RecordStep, RowChanges, RowsInserted
  <1>2. Base /\ Typed' /\ RowInv /\ [Next]_vars =>
            \A r \in Requests : Unshared(r) =>
                /\ row[r] \in {"done", "failed"} /\ resent[r] = 0 =>
                       \/ row'[r] = "absent"
                       \/ row'[r] = row[r] /\ file'[r] = file[r]
                /\ row[r] # "absent" /\ file[r] = r => row'[r] = "absent" \/ file'[r] = r
                /\ row'[r] = "pending" => row[r] = "pending" \/ call[r] = "insert"
                /\ row[r] = "absent" /\ row'[r] # "absent" => call[r] = "insert"
    BY <1>1
  <1>3. Base => Typed
    BY DEF Base
  <1> QED
    BY <1>2, <1>3, RowInvAlways, PTL DEF Spec, TerminalIsFinal

=============================================================================
