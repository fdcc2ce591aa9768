---------------------------- MODULE ExportProofs ----------------------------
(***************************************************************************)
(* Proofs about ExportService for any calls, workers, processes, task ids  *)
(* and faults.                                                             *)
(***************************************************************************)
EXTENDS ExportProperties, FiniteSetTheorems, SequenceTheorems, TLAPS

\* RPUSH: the list grows by the pushed task at its right end.
LEMMA PushedQueue ==
    ASSUME NEW S, NEW s \in Seq(S), NEW e \in S
    PROVE  /\ Append(s, e) \in Seq(S)
           /\ Len(Append(s, e)) = Len(s) + 1
           /\ \A i \in 1..Len(s) : Append(s, e)[i] = s[i]
           /\ Append(s, e)[Len(s) + 1] = e
  OBVIOUS

\* BRPOP: the list loses its right end and keeps the rest as it was.
LEMMA PoppedQueue ==
    ASSUME NEW S, NEW s \in Seq(S), s # <<>>
    PROVE  /\ Last(s) \in S
           /\ Last(s) = s[Len(s)]
           /\ Len(s) \in Nat \ {0}
           /\ Front(s) \in Seq(S)
           /\ Len(Front(s)) = Len(s) - 1
           /\ \A i \in 1..Len(s) - 1 : Front(s)[i] = s[i]
  <1>1. Len(s) \in Nat \ {0}
    OBVIOUS
  <1>2. \A i \in 1..Len(s) : s[i] \in S
    OBVIOUS
  <1>3. /\ SubSeq(s, 1, Len(s) - 1) \in Seq(S)
        /\ Len(SubSeq(s, 1, Len(s) - 1)) = Len(s) - 1
        /\ \A i \in 1..Len(s) - 1 : SubSeq(s, 1, Len(s) - 1)[i] = s[i]
    <2>1. PICK m \in Nat : m = Len(s) - 1
      BY <1>1
    <2>2. \A i \in 1..m : s[i] \in S
      BY <1>1, <1>2, <2>1
    <2>3. /\ SubSeq(s, 1, m) \in Seq(S)
          /\ Len(SubSeq(s, 1, m)) = IF 1 <= m THEN m - 1 + 1 ELSE 0
          /\ \A i \in 1..m - 1 + 1 : SubSeq(s, 1, m)[i] = s[1 + i - 1]
      BY <2>2, SubSeqProperties
    <2>4. Len(SubSeq(s, 1, m)) = m
      BY <2>3
    <2>5. \A i \in 1..m : SubSeq(s, 1, m)[i] = s[i]
      <3> TAKE i \in 1..m
      <3>1. i \in 1..m - 1 + 1 /\ 1 + i - 1 = i
        OBVIOUS
      <3> QED
        BY <2>3, <3>1
    <2> QED
      BY <2>1, <2>3, <2>4, <2>5
  <1> QED
    BY <1>1, <1>2, <1>3 DEF Front, Last

-----------------------------------------------------------------------------
(* Type correctness.  A worker that looks a key up, or uploads, needs a     *)
(* task: TypeOK is inductive only together with WorkersHold.                *)

\* A worker holds a task from the moment it pops it until it polls again.
WorkersHold ==
    \A w \in Workers :
        IF step[w] = "idle" THEN job[w] = None /\ hist[w] = None
                            ELSE job[w] \in Requests

Typed == TypeOK /\ WorkersHold

LEMMA CountsKept == CountsOK /\ UNCHANGED counts => CountsOK'
  BY DEF CountsOK, counts

LEMMA TypeInit == Init => Typed
  BY MarkersAssumption, MaxRetriesAssumption, EmptySeq
     DEF Init, Typed, TypeOK, CountsOK, WorkersHold, NodeStages, CallSteps, CallEnds, RowStatuses, KeyStatuses,
         WorkerSteps, BeforeUpload

LEMMA CallType ==
    ASSUME Typed, NEW r \in Requests, GenerateExport(r) \/ CallStep(r) \/ DeleteRecord(r)
    PROVE  Typed'
  <1> USE TaskOfAssumption, CountsKept
          DEF Typed, TypeOK, WorkersHold, CallMoves, Written, Applied, After, dbVars,
              workerVars, CallSteps, CallEnds, RowStatuses, KeyStatuses
  <1>1. CASE GenerateExport(r)
    BY <1>1 DEF GenerateExport
  <1>2. CASE CheckStatus(r)
    BY <1>2 DEF CheckStatus
  <1>3. CASE InsertPdfExportHistory(r)
    BY <1>3 DEF InsertPdfExportHistory
  <1>4. CASE SetExportHistoryID(r)
    BY <1>4 DEF SetExportHistoryID
  <1>5. CASE PushExportTask(r)
    <2>1. CountsOK'
      <3>1. /\ uploads' = uploads /\ r \in Requests
            /\ \/ resent' = resent
               \/ resent[r] < MaxRetries /\ resent' = [resent EXCEPT ![r] = @ + 1]
        BY <1>5 DEF PushExportTask
      <3>2. resent[r] \in 0..MaxRetries
        BY DEF CountsOK
      <3>3. resent[r] < MaxRetries => resent[r] + 1 \in 0..MaxRetries
        BY <3>2, MaxRetriesAssumption
      <3> QED
        <4>1. resent \in [Requests -> 0..MaxRetries] /\ uploads \in [Requests -> Nat]
          BY DEF CountsOK
        <4>2. resent' \in [Requests -> 0..MaxRetries]
          BY <3>1, <3>3, <4>1
        <4> QED
          BY <3>1, <4>1, <4>2 DEF CountsOK
    <2>2. call' \in [Requests -> {"new"} \cup CallSteps \cup CallEnds]
      BY <1>5 DEF PushExportTask
    <2> QED
      BY <1>5, <2>1, <2>2, PushedQueue DEF PushExportTask
  <1>6. CASE SetPendingStatus(r)
    BY <1>6 DEF SetPendingStatus
  <1>7. CASE DeleteRecord(r)
    BY <1>7 DEF DeleteRecord
  <1> QED
    BY <1>1, <1>2, <1>3, <1>4, <1>5, <1>6, <1>7 DEF CallStep

LEMMA LetsGoType ==
    ASSUME Typed, NEW w \in Workers, NEW from \in WorkerSteps \ {"idle"}, NEW o,
           LetsGo(w, from, o)
    PROVE  /\ step' \in [Workers -> WorkerSteps]
           /\ job' \in [Workers -> Requests \cup {None}]
           /\ hist' \in [Workers -> Requests \cup {None}]
           /\ WorkersHold'
  <1> USE DEF Typed, TypeOK, WorkersHold, WorkerMoves, WorkerSteps, BeforeUpload
  <1>1. CASE Continues(w, from, from)
    BY <1>1 DEF Continues
  <1>2. CASE Releases(w, from)
    BY <1>2 DEF Releases
  <1> QED
    BY <1>1, <1>2 DEF LetsGo

LEMMA WorkerType ==
    ASSUME Typed, NEW w \in Workers, WorkerStep(w)
    PROVE  Typed'
  <1> USE TaskOfAssumption, CountsKept
          DEF Typed, TypeOK, WorkersHold, WorkerMoves, Continues, Releases, LetsGo,
              Written, Applied, After, dbVars, workerVars, WorkerSteps, BeforeUpload,
              RowStatuses, KeyStatuses
  <1>1. CASE PopExportTask(w)
    <2>1. Last(queue) \in Requests /\ Front(queue) \in Seq(Requests)
      BY <1>1, PoppedQueue DEF PopExportTask
    <2> QED
      BY <1>1, <2>1 DEF PopExportTask
  <1>2. CASE PopNothing(w)
    BY <1>2 DEF PopNothing
  <1>3. CASE GetExportHistoryID(w)
    BY <1>3 DEF GetExportHistoryID
  <1>4. ASSUME NEW from \in WorkerSteps \ {"idle"}, NEW value \in KeyStatuses,
               NEW to \in WorkerSteps \ {"idle"},
               SetKey(w, from, value, to)
        PROVE  Typed'
    BY <1>4 DEF SetKey
  <1>5. ASSUME NEW from \in WorkerSteps \ {"idle"}, NEW value \in RowStatuses,
               NEW newFile \in Requests \cup {None},
               NEW onOk \in WorkerSteps \ {"idle"},
               NEW onError \in WorkerSteps \ {"idle"},
               SetRow(w, from, value, newFile, onOk, onError)
        PROVE  Typed'
    BY <1>5 DEF SetRow
  <1>6. CASE SetProcessing(w)
    BY <1>4, <1>5, <1>6 DEF SetProcessing
  <1>7. CASE SetFailed(w)
    BY <1>4, <1>5, <1>7 DEF SetFailed
  <1>8. CASE SetDone(w)
    BY <1>4, <1>5, <1>8 DEF SetDone
  <1>9. CASE MarkFailed(w)
    BY <1>4, <1>9 DEF MarkFailed
  <1>10. CASE SearchScreenRecordings(w)
    BY <1>10 DEF SearchScreenRecordings
  <1>11. CASE AssemblePdf(w)
    BY <1>11 DEF AssemblePdf
  <1>12. CASE UploadPdfToStorage(w)
    <2>1. CountsOK'
      BY <1>12 DEF UploadPdfToStorage, CountsOK
    <2> QED
      BY <1>12, <2>1 DEF UploadPdfToStorage
  <1>13. CASE ClearStatus(w)
    <2>1. PICK o \in Outcomes("redis") :
              /\ IF o = "ok" THEN Continues(w, "clearStatus", "clearHistory")
                             ELSE LetsGo(w, "clearStatus", o)
              /\ status' = Written(status, TaskOf[job[w]], "none", o)
              /\ UNCHANGED <<node, call, queue, historyID, dbVars, counts>>
      BY <1>13 DEF ClearStatus
    <2>2. status' \in [Tasks -> KeyStatuses]
      BY <2>1
    <2>3. CASE o = "ok"
      BY <2>1, <2>2, <2>3
    <2>4. CASE o # "ok"
      <3>1. LetsGo(w, "clearStatus", o)
        BY <2>1, <2>4
      <3> HIDE DEF LetsGo, WorkersHold
      <3>2. /\ step' \in [Workers -> WorkerSteps]
            /\ job' \in [Workers -> Requests \cup {None}]
            /\ hist' \in [Workers -> Requests \cup {None}]
            /\ WorkersHold'
        BY <3>1, LetsGoType
      <3> QED
        BY <2>1, <2>2, <3>2
    <2> QED
      BY <2>3, <2>4
  <1>14. CASE ClearHistory(w)
    <2>1. PICK o \in Outcomes("redis") :
              /\ LetsGo(w, "clearHistory", o)
              /\ historyID' = Written(historyID, TaskOf[job[w]], None, o)
              /\ UNCHANGED <<node, call, queue, status, dbVars, counts>>
      BY <1>14 DEF ClearHistory
    <2>2. historyID' \in [Tasks -> Requests \cup {None}]
      BY <2>1
    <2> HIDE DEF LetsGo, WorkersHold
    <2>3. /\ step' \in [Workers -> WorkerSteps]
          /\ job' \in [Workers -> Requests \cup {None}]
          /\ hist' \in [Workers -> Requests \cup {None}]
          /\ WorkersHold'
      BY <2>1, LetsGoType
    <2> QED
      BY <2>1, <2>2, <2>3
  <1> QED
    BY <1>1, <1>2, <1>3, <1>6, <1>7, <1>8, <1>9, <1>10, <1>11, <1>12, <1>13,
       <1>14 DEF WorkerStep

LEMMA KeyType ==
    ASSUME Typed, NEW t \in Tasks, ExpireStatus(t) \/ ExpireHistoryID(t)
    PROVE  Typed'
  BY CountsKept DEF Typed, TypeOK, WorkersHold, ExpireStatus, ExpireHistoryID, dbVars, workerVars,
         KeyStatuses

LEMMA NodeType ==
    ASSUME Typed, NEW n \in Nodes, NodeStep(n)
    PROVE  Typed'
  <1> USE CountsKept DEF Typed, TypeOK, WorkersHold, StageMoves, NodeStages, dbVars, workerVars
  <1>1. CASE StopServer(n)
    BY <1>1 DEF StopServer
  <1>2. CASE CloseConnections(n)
    BY <1>2 DEF CloseConnections
  <1>3. CASE ClearCache(n)
    <2>1. PICK o \in Outcomes("redis") :
              /\ StageMoves(n, "closed", After(o, "closed", "flushed", "flushed"))
              /\ IF Applied(o)
                 THEN /\ queue' = <<>>
                      /\ status' = [t \in Tasks |-> "none"]
                      /\ historyID' = [t \in Tasks |-> None]
                 ELSE UNCHANGED <<queue, status, historyID>>
      BY <1>3 DEF ClearCache
    <2>2. node' \in [Nodes -> NodeStages]
      BY <2>1 DEF After
    <2>3. /\ queue' \in Seq(Requests)
          /\ status' \in [Tasks -> KeyStatuses]
          /\ historyID' \in [Tasks -> Requests \cup {None}]
      BY <2>1, EmptySeq DEF KeyStatuses
    <2> QED
      BY <1>3, <2>2, <2>3 DEF ClearCache
  <1>4. CASE Exit(n) \/ Crash(n)
    BY <1>4 DEF Exit, Crash, Halts, CallEnds, WorkerSteps
  <1>5. CASE Restart(n)
    BY <1>5 DEF Restart
  <1> QED
    BY <1>1, <1>2, <1>3, <1>4, <1>5 DEF NodeStep

LEMMA TypedAlways == Spec => []Typed
  <1>1. Typed /\ [Next]_vars => Typed'
    <2> SUFFICES ASSUME Typed, [Next]_vars PROVE Typed'
      OBVIOUS
    <2>1. CASE UNCHANGED vars
      BY <2>1, CountsKept DEF Typed, TypeOK, WorkersHold, vars, counts
    <2> QED
      BY <2>1, CallType, WorkerType, KeyType, NodeType DEF Next
  <1> QED
    BY TypeInit, <1>1, PTL DEF Spec

\* Every variable keeps its type: in particular the list, the keys and the
\* workers only ever name requests that exist.
THEOREM TypeCorrect == Spec => []TypeOK
  <1>1. Typed => TypeOK
    BY DEF Typed
  <1> QED
    BY <1>1, TypedAlways, PTL

-----------------------------------------------------------------------------
(* How often a task is somewhere: counting copies on a list and workers.    *)

LEMMA CopiesCount ==
    ASSUME NEW s \in Seq(Requests), NEW r
    PROVE  IsFiniteSet(Copies(s, r)) /\ Cardinality(Copies(s, r)) \in Nat
  <1>1. Len(s) \in Int /\ IsFiniteSet(1..Len(s))
    BY FS_Interval
  <1>2. Copies(s, r) \in SUBSET (1..Len(s))
    BY DEF Copies
  <1>3. IsFiniteSet(Copies(s, r))
    BY <1>1, <1>2, FS_Subset
  <1> QED
    BY <1>3, FS_CardinalityType

LEMMA CopiesPushed ==
    ASSUME NEW s \in Seq(Requests), NEW e \in Requests, NEW r \in Requests
    PROVE  Cardinality(Copies(Append(s, e), r)) =
               Cardinality(Copies(s, r)) + (IF r = e THEN 1 ELSE 0)
  <1>1. /\ Len(s) \in Nat /\ Len(Append(s, e)) = Len(s) + 1
        /\ \A i \in 1..Len(s) : Append(s, e)[i] = s[i]
        /\ Append(s, e)[Len(s) + 1] = e
    BY PushedQueue
  <1>2. IsFiniteSet(Copies(s, r)) /\ Cardinality(Copies(s, r)) \in Nat
    BY CopiesCount
  <1>3. CASE r = e
    <2>1. Copies(Append(s, e), r) = Copies(s, r) \cup {Len(s) + 1}
      BY <1>1, <1>3 DEF Copies
    <2>2. Len(s) + 1 \notin Copies(s, r)
      BY <1>1 DEF Copies
    <2> QED
      BY <1>2, <1>3, <2>1, <2>2, FS_AddElement
  <1>4. CASE r # e
    <2>1. Copies(Append(s, e), r) = Copies(s, r)
      BY <1>1, <1>4 DEF Copies
    <2> QED
      BY <1>2, <1>4, <2>1
  <1> QED
    BY <1>3, <1>4

LEMMA CopiesPopped ==
    ASSUME NEW s \in Seq(Requests), s # <<>>, NEW r \in Requests
    PROVE  Cardinality(Copies(s, r)) =
               Cardinality(Copies(Front(s), r)) + (IF r = Last(s) THEN 1 ELSE 0)
  <1>1. /\ Len(s) \in Nat \ {0} /\ Len(Front(s)) = Len(s) - 1
        /\ Front(s) \in Seq(Requests) /\ Last(s) = s[Len(s)]
        /\ \A i \in 1..Len(s) - 1 : Front(s)[i] = s[i]
    BY PoppedQueue
  <1>2. /\ IsFiniteSet(Copies(Front(s), r))
        /\ Cardinality(Copies(Front(s), r)) \in Nat
    BY <1>1, CopiesCount
  <1>3. CASE r = Last(s)
    <2>1. Copies(s, r) = Copies(Front(s), r) \cup {Len(s)}
      BY <1>1, <1>3 DEF Copies
    <2>2. Len(s) \notin Copies(Front(s), r)
      BY <1>1 DEF Copies
    <2> QED
      BY <1>2, <1>3, <2>1, <2>2, FS_AddElement
  <1>4. CASE r # Last(s)
    <2>1. Copies(s, r) = Copies(Front(s), r)
      BY <1>1, <1>4 DEF Copies
    <2> QED
      BY <1>2, <1>4, <2>1
  <1> QED
    BY <1>3, <1>4

LEMMA CopiesEmptied == ASSUME NEW r PROVE Cardinality(Copies(<<>>, r)) = 0
  <1>1. Copies(<<>>, r) = {}
    BY DEF Copies
  <1> QED
    BY <1>1, FS_EmptySet

\* Sets of workers, of which one may come or go.
LEMMA WorkerCount ==
    ASSUME NEW S \in SUBSET Workers
    PROVE  IsFiniteSet(S) /\ Cardinality(S) \in Nat
  <1>1. IsFiniteSet(S)
    BY WorkersAssumption, FS_Subset
  <1> QED
    BY <1>1, FS_CardinalityType

LEMMA FewerWorkers ==
    ASSUME NEW S \in SUBSET Workers, NEW T \in SUBSET Workers, S \subseteq T
    PROVE  Cardinality(S) <= Cardinality(T)
  BY WorkerCount, FS_Subset

LEMMA WorkerComes ==
    ASSUME NEW S \in SUBSET Workers, NEW T \in SUBSET Workers, NEW w \in Workers,
           S \subseteq T \cup {w}
    PROVE  Cardinality(S) <= Cardinality(T) + 1
  <1>1. /\ IsFiniteSet(T \cup {w})
        /\ Cardinality(T \cup {w}) = IF w \in T THEN Cardinality(T) ELSE Cardinality(T) + 1
    BY WorkerCount, FS_AddElement
  <1>2. Cardinality(S) <= Cardinality(T \cup {w})
    BY <1>1, FS_Subset
  <1> QED
    BY <1>1, <1>2, WorkerCount

LEMMA WorkerGoes ==
    ASSUME NEW S \in SUBSET Workers, NEW T \in SUBSET Workers, NEW w \in T,
           S \subseteq T \ {w}
    PROVE  Cardinality(S) + 1 <= Cardinality(T)
  <1>1. IsFiniteSet(T \ {w}) /\ Cardinality(T \ {w}) = Cardinality(T) - 1
    BY WorkerCount, FS_RemoveElement
  <1>2. Cardinality(S) <= Cardinality(T \ {w})
    BY <1>1, FS_Subset
  <1> QED
    BY <1>1, <1>2, WorkerCount

-----------------------------------------------------------------------------
(* No task is in more places than it was pushed, nor uploaded more often.   *)
(* TaskHeldOnce and UploadedOnce are inductive over Typed: each push allows *)
(* one place, each pop moves one, and an upload uses one up.                *)

\* Nothing is sent again before the handler has come to the push.
BeforeResending == {"new", "check", "insert", "setHistory"}

ResentWasPushed == \A r \in Requests : call[r] \in BeforeResending => resent[r] = 0

HeldInv == TaskHeldOnce /\ UploadedOnce /\ ResentWasPushed

\* A step that puts no task anywhere, moves no worker back and stores nothing.
LEMMA NothingAdded ==
    ASSUME Typed, Typed', HeldInv, queue' \in {queue, <<>>}, UNCHANGED counts,
           \A w \in Workers :
               \/ job'[w] = None
               \/ /\ job'[w] = job[w]
                  /\ step'[w] \in BeforeUpload => step[w] \in BeforeUpload,
           \A r \in Requests :
               /\ call'[r] \in BeforePush => call[r] \in BeforePush
               /\ call'[r] \in BeforeResending => call[r] \in BeforeResending
    PROVE  HeldInv'
  <1>1. ASSUME NEW r \in Requests
        PROVE  /\ Cardinality(Copies(queue, r))' + Cardinality(Holders(r))' <= Pushes(r)'
               /\ uploads'[r] + Cardinality(Copies(queue, r))' + Cardinality(Uploaders(r))'
                      <= Pushes(r)'
    <2>1. /\ Cardinality(Copies(queue, r)) \in Nat
          /\ Cardinality(Copies(queue, r))' \in Nat
          /\ Cardinality(Copies(queue, r))' <= Cardinality(Copies(queue, r))
      BY CopiesCount, CopiesEmptied DEF Typed, TypeOK, CountsOK
    <2>2. /\ Holders(r)' \in SUBSET Workers /\ Holders(r) \in SUBSET Workers
          /\ Holders(r)' \subseteq Holders(r)
      BY MarkersAssumption DEF Holders
    <2>3. /\ Uploaders(r)' \in SUBSET Workers /\ Uploaders(r) \in SUBSET Workers
          /\ Uploaders(r)' \subseteq Uploaders(r)
      BY MarkersAssumption DEF Uploaders
    <2>4. /\ Cardinality(Holders(r))' <= Cardinality(Holders(r))
          /\ Cardinality(Uploaders(r))' <= Cardinality(Uploaders(r))
          /\ Cardinality(Holders(r)) \in Nat /\ Cardinality(Holders(r))' \in Nat
          /\ Cardinality(Uploaders(r)) \in Nat /\ Cardinality(Uploaders(r))' \in Nat
      BY <2>2, <2>3, FewerWorkers, WorkerCount
    <2>5. /\ Pushes(r) \in Nat /\ Pushes(r)' \in Nat /\ Pushes(r) <= Pushes(r)'
          /\ uploads[r] \in Nat /\ uploads'[r] = uploads[r]
      BY MaxRetriesAssumption DEF Pushes, counts, Typed, TypeOK, CountsOK
    <2>6. /\ Cardinality(Copies(queue, r)) + Cardinality(Holders(r)) <= Pushes(r)
          /\ uploads[r] + Cardinality(Copies(queue, r)) + Cardinality(Uploaders(r))
                 <= Pushes(r)
      BY DEF HeldInv, TaskHeldOnce, UploadedOnce
    <2> QED
      BY <2>1, <2>4, <2>5, <2>6
  <1>2. ResentWasPushed'
    BY DEF HeldInv, ResentWasPushed, counts
  <1> QED
    BY <1>1, <1>2 DEF HeldInv, TaskHeldOnce, UploadedOnce

LEMMA PushHeldOnce ==
    ASSUME Typed, Typed', HeldInv, NEW e \in Requests, PushExportTask(e)
    PROVE  HeldInv'
  <1>1. PICK o \in Outcomes("redis") :
            /\ CallMoves(e, "push", After(o, "push", "setStatus", "error"))
            /\ queue' = IF Applied(o) THEN Append(queue, e) ELSE queue
            /\ \/ o # "again" /\ UNCHANGED resent
               \/ /\ o = "again" /\ resent[e] < MaxRetries
                  /\ resent' = [resent EXCEPT ![e] = @ + 1]
    BY DEF PushExportTask
  <1>2. UNCHANGED <<uploads, workerVars>>
    BY DEF PushExportTask
  <1>3. /\ call[e] = "push"
        /\ call'[e] = After(o, "push", "setStatus", "error")
        /\ \A r \in Requests : r # e => call'[r] = call[r]
    BY <1>1 DEF CallMoves, Typed, TypeOK, CountsOK
  <1>4. CASE o = "failed"
    <2>1. call'[e] = "error" /\ queue' = queue /\ UNCHANGED counts
      BY <1>1, <1>2, <1>3, <1>4 DEF After, Applied, counts
    <2>2. \A r \in Requests :
              /\ call'[r] \in BeforePush => call[r] \in BeforePush
              /\ call'[r] \in BeforeResending => call[r] \in BeforeResending
      BY <1>3, <2>1 DEF BeforePush, BeforeResending
    <2> QED
      BY <1>2, <2>1, <2>2, NothingAdded DEF workerVars
  <1>5. CASE o # "failed"
    <2>1. queue' = Append(queue, e)
      BY <1>1, <1>5 DEF Applied
    <2>2. \A r \in Requests :
              /\ resent[r] \in Nat
              /\ Pushes(r)' = Pushes(r) + (IF r = e THEN 1 ELSE 0)
      <3>1. CASE o = "again"
        BY <1>1, <1>3, <3>1, MaxRetriesAssumption
           DEF Pushes, After, BeforePush, Typed, TypeOK, CountsOK
      <3>2. CASE o # "again"
        BY <1>1, <1>3, <1>5, <3>2, MaxRetriesAssumption
           DEF Pushes, After, BeforePush, Outcomes, Typed, TypeOK, CountsOK
      <3> QED
        BY <3>1, <3>2
    <2>3. ASSUME NEW r \in Requests
          PROVE  /\ Cardinality(Copies(queue, r))' + Cardinality(Holders(r))' <= Pushes(r)'
                 /\ uploads'[r] + Cardinality(Copies(queue, r))' + Cardinality(Uploaders(r))'
                        <= Pushes(r)'
      <3>1. Cardinality(Copies(queue, r))' =
                Cardinality(Copies(queue, r)) + (IF r = e THEN 1 ELSE 0)
        BY <2>1, CopiesPushed DEF Typed, TypeOK, CountsOK
      <3>2. /\ Holders(r)' = Holders(r) /\ Uploaders(r)' = Uploaders(r)
            /\ uploads' = uploads
        BY <1>2 DEF Holders, Uploaders, workerVars
      <3>3. /\ Cardinality(Copies(queue, r)) \in Nat
            /\ Cardinality(Holders(r)) \in Nat /\ Cardinality(Uploaders(r)) \in Nat
            /\ uploads[r] \in Nat /\ Pushes(r) \in Nat
        BY CopiesCount, WorkerCount, MaxRetriesAssumption
           DEF Holders, Uploaders, Pushes, Typed, TypeOK, CountsOK
      <3>4. /\ Cardinality(Copies(queue, r)) + Cardinality(Holders(r)) <= Pushes(r)
            /\ uploads[r] + Cardinality(Copies(queue, r)) + Cardinality(Uploaders(r))
                   <= Pushes(r)
        BY DEF HeldInv, TaskHeldOnce, UploadedOnce
      <3> QED
        BY <2>2, <3>1, <3>2, <3>3, <3>4
    <2>4. ResentWasPushed'
      BY <1>1, <1>3 DEF HeldInv, ResentWasPushed, BeforeResending, After, Typed, TypeOK, CountsOK
    <2> QED
      BY <2>3, <2>4 DEF HeldInv, TaskHeldOnce, UploadedOnce
  <1> QED
    BY <1>4, <1>5

LEMMA PopHeldOnce ==
    ASSUME Typed, Typed', HeldInv, NEW v \in Workers, PopExportTask(v)
    PROVE  HeldInv'
  <1>1. /\ queue \in Seq(Requests) /\ queue # <<>> /\ queue' = Front(queue)
        /\ step[v] = "idle" /\ job[v] = None
        /\ UNCHANGED <<call, counts>>
        /\ \A w \in Workers : w # v => step'[w] = step[w] /\ job'[w] = job[w]
        /\ job'[v] \in {None, Last(queue)}
    BY DEF PopExportTask, WorkerMoves, Continues, Typed, TypeOK, CountsOK, WorkersHold
  <1>2. ASSUME NEW r \in Requests
        PROVE  /\ Cardinality(Copies(queue, r))' + Cardinality(Holders(r))' <= Pushes(r)'
               /\ uploads'[r] + Cardinality(Copies(queue, r))' + Cardinality(Uploaders(r))'
                      <= Pushes(r)'
    <2>1. /\ Pushes(r)' = Pushes(r) /\ uploads'[r] = uploads[r]
          /\ Pushes(r) \in Nat /\ uploads[r] \in Nat
      BY <1>1, MaxRetriesAssumption DEF Pushes, counts, Typed, TypeOK, CountsOK
    <2>2. Cardinality(Copies(queue, r)) =
              Cardinality(Copies(queue, r))' + (IF r = Last(queue) THEN 1 ELSE 0)
      BY <1>1, CopiesPopped
    <2>3. /\ Cardinality(Copies(queue, r))' \in Nat
          /\ Cardinality(Holders(r)) \in Nat /\ Cardinality(Holders(r))' \in Nat
          /\ Cardinality(Uploaders(r)) \in Nat /\ Cardinality(Uploaders(r))' \in Nat
      BY CopiesCount, WorkerCount DEF Holders, Uploaders, Typed, TypeOK, CountsOK
    <2>4. /\ Cardinality(Copies(queue, r)) + Cardinality(Holders(r)) <= Pushes(r)
          /\ uploads[r] + Cardinality(Copies(queue, r)) + Cardinality(Uploaders(r))
                 <= Pushes(r)
      BY DEF HeldInv, TaskHeldOnce, UploadedOnce
    <2>5. CASE r = Last(queue)
      <3>1. /\ Holders(r)' \subseteq Holders(r) \cup {v}
            /\ Uploaders(r)' \subseteq Uploaders(r) \cup {v}
        BY <1>1 DEF Holders, Uploaders
      <3>2. /\ Cardinality(Holders(r))' <= Cardinality(Holders(r)) + 1
            /\ Cardinality(Uploaders(r))' <= Cardinality(Uploaders(r)) + 1
        BY <3>1, WorkerComes DEF Holders, Uploaders
      <3> QED
        BY <2>1, <2>2, <2>3, <2>4, <2>5, <3>2
    <2>6. CASE r # Last(queue)
      <3>1. /\ Holders(r)' \subseteq Holders(r)
            /\ Uploaders(r)' \subseteq Uploaders(r)
        BY <1>1, <2>6, MarkersAssumption DEF Holders, Uploaders
      <3>2. /\ Cardinality(Holders(r))' <= Cardinality(Holders(r))
            /\ Cardinality(Uploaders(r))' <= Cardinality(Uploaders(r))
        BY <3>1, FewerWorkers DEF Holders, Uploaders
      <3> QED
        BY <2>1, <2>2, <2>3, <2>4, <2>6, <3>2
    <2> QED
      BY <2>5, <2>6
  <1>3. ResentWasPushed'
    BY <1>1 DEF HeldInv, ResentWasPushed, counts
  <1> QED
    BY <1>2, <1>3 DEF HeldInv, TaskHeldOnce, UploadedOnce

LEMMA UploadHeldOnce ==
    ASSUME Typed, Typed', HeldInv, NEW v \in Workers, UploadPdfToStorage(v)
    PROVE  HeldInv'
  <1>1. /\ step[v] = "upload" /\ job[v] \in Requests
        /\ UNCHANGED <<queue, call, job, resent>>
        /\ \A w \in Workers : w # v => step'[w] = step[w]
        /\ step'[v] \notin BeforeUpload
        /\ \A r \in Requests : \/ uploads'[r] = uploads[r]
                               \/ r = job[v] /\ uploads'[r] = uploads[r] + 1
    BY DEF UploadPdfToStorage, WorkerMoves, Continues, BeforeUpload, Typed, TypeOK, CountsOK,
           WorkersHold
  <1>2. ASSUME NEW r \in Requests
        PROVE  /\ Cardinality(Copies(queue, r))' + Cardinality(Holders(r))' <= Pushes(r)'
               /\ uploads'[r] + Cardinality(Copies(queue, r))' + Cardinality(Uploaders(r))'
                      <= Pushes(r)'
    <2>1. /\ Pushes(r)' = Pushes(r) /\ Holders(r)' = Holders(r)
          /\ Copies(queue, r)' = Copies(queue, r)
          /\ Pushes(r) \in Nat /\ uploads[r] \in Nat
      BY <1>1, MaxRetriesAssumption DEF Pushes, Holders, Copies, Typed, TypeOK, CountsOK
    <2>2. /\ Cardinality(Copies(queue, r)) \in Nat
          /\ Cardinality(Uploaders(r)) \in Nat /\ Cardinality(Uploaders(r))' \in Nat
      BY CopiesCount, WorkerCount DEF Uploaders, Typed, TypeOK, CountsOK
    <2>3. /\ Cardinality(Copies(queue, r)) + Cardinality(Holders(r)) <= Pushes(r)
          /\ uploads[r] + Cardinality(Copies(queue, r)) + Cardinality(Uploaders(r))
                 <= Pushes(r)
      BY DEF HeldInv, TaskHeldOnce, UploadedOnce
    <2>4. CASE r = job[v]
      <3>1. v \in Uploaders(r) /\ Uploaders(r)' \subseteq Uploaders(r) \ {v}
        BY <1>1, <2>4 DEF Uploaders, BeforeUpload
      <3>2. Cardinality(Uploaders(r))' + 1 <= Cardinality(Uploaders(r))
        BY <3>1, WorkerGoes DEF Uploaders
      <3> QED
        BY <1>1, <2>1, <2>2, <2>3, <3>2
    <2>5. CASE r # job[v]
      <3>1. Uploaders(r)' = Uploaders(r) /\ uploads'[r] = uploads[r]
        BY <1>1, <2>5 DEF Uploaders
      <3> QED
        BY <2>1, <2>3, <3>1
    <2> QED
      BY <2>4, <2>5
  <1>3. ResentWasPushed'
    BY <1>1 DEF HeldInv, ResentWasPushed
  <1> QED
    BY <1>2, <1>3 DEF HeldInv, TaskHeldOnce, UploadedOnce

LEMMA HeldStep ==
    ASSUME Typed, Typed', HeldInv, [Next]_vars
    PROVE  HeldInv'
  <1>1. CASE UNCHANGED vars
    BY <1>1, NothingAdded DEF vars, counts
  <1>2. ASSUME NEW r \in Requests, GenerateExport(r) \/ CallStep(r) \/ DeleteRecord(r)
        PROVE  HeldInv'
    <2>1. CASE PushExportTask(r)
      BY <2>1, PushHeldOnce
    <2>2. CASE \/ GenerateExport(r) \/ CheckStatus(r) \/ InsertPdfExportHistory(r)
               \/ SetExportHistoryID(r) \/ SetPendingStatus(r) \/ DeleteRecord(r)
      <3>1. /\ queue' = queue
            /\ UNCHANGED <<workerVars, counts>>
            /\ \A q \in Requests :
                   /\ call'[q] \in BeforePush => call[q] \in BeforePush
                   /\ call'[q] \in BeforeResending => call[q] \in BeforeResending
        BY <2>2
           DEF GenerateExport, CheckStatus, InsertPdfExportHistory,
               SetExportHistoryID, SetPendingStatus, DeleteRecord, CallMoves,
               After, BeforePush, BeforeResending, Typed, TypeOK, CountsOK
      <3> QED
        BY <3>1, NothingAdded DEF workerVars
    <2> QED
      BY <1>2, <2>1, <2>2 DEF CallStep
  <1>3. ASSUME NEW w \in Workers, WorkerStep(w)
        PROVE  HeldInv'
    <2>1. CASE PopExportTask(w)
      BY <2>1, PopHeldOnce
    <2>2. CASE UploadPdfToStorage(w)
      BY <2>2, UploadHeldOnce
    <2>3. CASE ~PopExportTask(w) /\ ~UploadPdfToStorage(w)
      <3>1. /\ queue' = queue /\ call' = call /\ UNCHANGED counts
            /\ \A v \in Workers :
                   \/ job'[v] = None
                   \/ /\ job'[v] = job[v]
                      /\ step'[v] \in BeforeUpload => step[v] \in BeforeUpload
        <4> USE DEF WorkerMoves, Continues, BeforeUpload, Typed, TypeOK
        <4>1. CASE PopNothing(w) \/ GetExportHistoryID(w)
          BY <4>1 DEF PopNothing, GetExportHistoryID
        <4>2. CASE SetProcessing(w) \/ SetFailed(w) \/ SetDone(w) \/ MarkFailed(w)
          BY <4>2 DEF SetProcessing, SetFailed, SetDone, MarkFailed, SetKey, SetRow, After
        <4>3. CASE SearchScreenRecordings(w) \/ AssemblePdf(w)
          BY <4>3 DEF SearchScreenRecordings, AssemblePdf
        <4>4. CASE ClearStatus(w)
          BY <4>4 DEF ClearStatus, LetsGo, Releases
        <4>5. CASE ClearHistory(w)
          BY <4>5 DEF ClearHistory, LetsGo, Releases
        <4> QED
          BY <1>3, <2>3, <4>1, <4>2, <4>3, <4>4, <4>5 DEF WorkerStep
      <3> QED
        BY <3>1, NothingAdded
    <2> QED
      BY <2>1, <2>2, <2>3
  <1>4. ASSUME NEW t \in Tasks, ExpireStatus(t) \/ ExpireHistoryID(t)
        PROVE  HeldInv'
    BY <1>4, NothingAdded DEF ExpireStatus, ExpireHistoryID, workerVars
  <1>5. ASSUME NEW n \in Nodes, NodeStep(n)
        PROVE  HeldInv'
    <2>1. /\ queue' \in {queue, <<>>} /\ UNCHANGED counts
          /\ \A w \in Workers :
                 job'[w] = None \/ (job'[w] = job[w] /\ step'[w] = step[w])
          /\ \A r \in Requests : call'[r] \in {call[r], "aborted"}
      BY <1>5
         DEF NodeStep, StopServer, CloseConnections, ClearCache, Exit, Crash,
             Restart, Halts, workerVars, Typed, TypeOK, CountsOK
    <2> QED
      BY <2>1, NothingAdded DEF BeforePush, BeforeResending
  <1> QED
    BY <1>1, <1>2, <1>3, <1>4, <1>5 DEF Next

LEMMA HeldInit == Init => HeldInv
  <1> SUFFICES ASSUME Init PROVE HeldInv
    OBVIOUS
  <1>1. ASSUME NEW r \in Requests
        PROVE  /\ Copies(queue, r) = {} /\ Holders(r) = {} /\ Uploaders(r) = {}
               /\ uploads[r] = 0 /\ Pushes(r) = 0 /\ resent[r] = 0
    BY MarkersAssumption DEF Init, Copies, Holders, Uploaders, Pushes, BeforePush
  <1> QED
    BY <1>1, FS_EmptySet DEF HeldInv, TaskHeldOnce, UploadedOnce, ResentWasPushed

LEMMA HeldAlways == Spec => [](Typed /\ HeldInv)
  <1>1. Typed /\ Typed' /\ HeldInv /\ [Next]_vars => HeldInv'
    BY HeldStep
  <1> QED
    BY HeldInit, <1>1, TypedAlways, PTL DEF Spec

\* However many workers and processes take tasks off the list, whatever is lost
\* and whichever of them ends, no task is in more places at a time than the times
\* its push reached the list, which is once unless go-redis sent the push again.
THEOREM HeldOnce == Spec => []TaskHeldOnce
  <1>1. HeldInv => TaskHeldOnce
    BY DEF HeldInv
  <1> QED
    BY <1>1, HeldAlways, PTL

\* No request has its file stored more often than its push reached the list: no
\* failed upload, restart or second worker starts a task again that was stored.
THEOREM UploadsOnce == Spec => []UploadedOnce
  <1>1. HeldInv => UploadedOnce
    BY DEF HeldInv
  <1> QED
    BY <1>1, HeldAlways, PTL

\* What both say of a task whose push was not sent again: it is in one place.
LEMMA OnePlace ==
    ASSUME Typed, HeldInv, NEW r \in Requests, resent[r] = 0
    PROVE  /\ call[r] \in BeforePush => ~Queued(r) /\ \A w \in Workers : job[w] # r
           /\ \A w \in Workers : job[w] = r =>
                  /\ ~Queued(r)
                  /\ \A v \in Workers : job[v] = r => v = w
  <1>1. /\ Cardinality(Copies(queue, r)) \in Nat /\ IsFiniteSet(Copies(queue, r))
        /\ Cardinality(Holders(r)) \in Nat /\ IsFiniteSet(Holders(r))
        /\ Cardinality(Copies(queue, r)) + Cardinality(Holders(r))
               <= (IF call[r] \in BeforePush THEN 0 ELSE 1)
    <2>1. Pushes(r) = IF call[r] \in BeforePush THEN 0 ELSE 1
      BY DEF Pushes
    <2>2. Holders(r) \in SUBSET Workers
      BY DEF Holders
    <2>3. Cardinality(Copies(queue, r)) + Cardinality(Holders(r)) <= Pushes(r)
      BY DEF HeldInv, TaskHeldOnce
    <2> QED
      BY <2>1, <2>2, <2>3, CopiesCount, WorkerCount DEF Typed, TypeOK, CountsOK
  <1>2. Cardinality(Copies(queue, r)) = 0 => ~Queued(r)
    BY <1>1, FS_EmptySet DEF Copies, Queued
  <1>3. Cardinality(Holders(r)) = 0 => \A w \in Workers : job[w] # r
    BY <1>1, FS_EmptySet DEF Holders
  <1>4. Cardinality(Holders(r)) = 1 =>
            \A v, w \in Workers : job[v] = r /\ job[w] = r => v = w
    BY <1>1, FS_Singleton DEF Holders
  <1>5. CASE call[r] \in BeforePush
    <2>1. Cardinality(Copies(queue, r)) = 0 /\ Cardinality(Holders(r)) = 0
      BY <1>1, <1>5
    <2> QED
      BY <1>2, <1>3, <2>1
  <1>6. CASE call[r] \notin BeforePush
    <2>1. \/ Cardinality(Holders(r)) = 0
          \/ Cardinality(Holders(r)) = 1 /\ Cardinality(Copies(queue, r)) = 0
      BY <1>1, <1>6
    <2> QED
      BY <1>2, <1>3, <1>4, <1>6, <2>1
  <1> QED
    BY <1>5, <1>6

-----------------------------------------------------------------------------
(* A file is attached to no row but one of its task id.                     *)

\* The strengthening: the history key of a task id, and the row id a worker
\* read from it, name a request with that task id.
KeysOfTask ==
    /\ \A t \in Tasks : historyID[t] \in Requests => TaskOf[historyID[t]] = t
    /\ \A w \in Workers : hist[w] \in Requests => TaskOf[hist[w]] = TaskOf[job[w]]

SameTaskInv == KeysOfTask /\ FileOfSameTask

\* A step that attaches no file and sets no key or row id.
LEMMA NothingAttached ==
    ASSUME Typed, SameTaskInv,
           \A r \in Requests : file'[r] \in {file[r], None, SourceFile},
           \A t \in Tasks : historyID'[t] \in {historyID[t], None},
           \A w \in Workers :
               \/ hist'[w] = None
               \/ hist'[w] = hist[w] /\ job'[w] = job[w]
    PROVE  SameTaskInv'
  BY MarkersAssumption DEF SameTaskInv, KeysOfTask, FileOfSameTask

LEMMA SameTaskStep ==
    ASSUME Typed, SameTaskInv, [Next]_vars
    PROVE  SameTaskInv'
  <1>1. CASE UNCHANGED vars
    BY <1>1 DEF SameTaskInv, KeysOfTask, FileOfSameTask, vars
  <1>2. ASSUME NEW r \in Requests, GenerateExport(r) \/ CallStep(r) \/ DeleteRecord(r)
        PROVE  SameTaskInv'
    <2>1. CASE SetExportHistoryID(r)
      BY <2>1, TaskOfAssumption
         DEF SetExportHistoryID, Written, SameTaskInv, KeysOfTask,
             FileOfSameTask, dbVars, workerVars, counts, Typed, TypeOK
    <2>2. CASE ~SetExportHistoryID(r)
      <3>1. /\ UNCHANGED <<historyID, workerVars>>
            /\ \A q \in Requests : file'[q] \in {file[q], None, SourceFile}
        BY <1>2, <2>2
           DEF GenerateExport, CallStep, CheckStatus, InsertPdfExportHistory,
               PushExportTask, SetPendingStatus, DeleteRecord, Written, dbVars, counts,
               Typed, TypeOK
      <3> QED
        BY <3>1, NothingAttached DEF workerVars, counts
    <2> QED
      BY <2>1, <2>2
  <1>3. ASSUME NEW w \in Workers, WorkerStep(w)
        PROVE  SameTaskInv'
    <2>1. CASE PopExportTask(w)
      <3>1. /\ file' = file /\ historyID' = historyID
            /\ \/ job' = job /\ hist' = hist
               \/ /\ \A v \in Workers : v # w => job'[v] = job[v]
                  /\ hist' = hist /\ hist[w] = None
        BY <2>1 DEF PopExportTask, WorkerMoves, Continues, After, dbVars, counts, Typed, TypeOK,
                    WorkersHold
      <3> QED
        BY <3>1, NothingAttached
    <2>2. CASE GetExportHistoryID(w)
      <3>1. /\ file' = file /\ historyID' = historyID /\ job' = job
            /\ job[w] \in Requests
            /\ \/ hist' = hist
               \/ hist' = [hist EXCEPT ![w] = historyID[TaskOf[job[w]]]]
        BY <2>2 DEF GetExportHistoryID, WorkerMoves, Continues, After, dbVars, counts, Typed,
                    TypeOK, WorkersHold
      <3> QED
        BY <3>1, TaskOfAssumption
           DEF SameTaskInv, KeysOfTask, FileOfSameTask, Typed, TypeOK
    <2>3. CASE SetDone(w)
      <3>1. /\ historyID' = historyID /\ job' = job /\ hist' = hist
            /\ \/ file' = file
               \/ /\ hist[w] \in Requests
                  /\ \/ file' = file
                     \/ file' = [file EXCEPT ![hist[w]] = job[w]]
        BY <2>3 DEF SetDone, SetKey, SetRow, Continues, After, dbVars, counts, Typed, TypeOK
      <3> QED
        BY <3>1 DEF SameTaskInv, KeysOfTask, FileOfSameTask, Typed, TypeOK
    <2>4. CASE ~PopExportTask(w) /\ ~GetExportHistoryID(w) /\ ~SetDone(w)
      <3>1. /\ file' = file
            /\ \A t \in Tasks : historyID'[t] \in {historyID[t], None}
            /\ \A v \in Workers :
                   hist'[v] = None \/ (hist'[v] = hist[v] /\ job'[v] = job[v])
        BY <1>3, <2>4
           DEF WorkerStep, PopNothing, SetProcessing, SetFailed, MarkFailed,
               SetKey, SetRow, AssemblePdf, SearchScreenRecordings,
               UploadPdfToStorage, ClearStatus, ClearHistory, WorkerMoves,
               Continues, Releases, LetsGo, After, Written, dbVars, counts, Typed, TypeOK
      <3> QED
        BY <3>1, NothingAttached
    <2> QED
      BY <2>1, <2>2, <2>3, <2>4
  <1>4. ASSUME NEW t \in Tasks, ExpireStatus(t) \/ ExpireHistoryID(t)
        PROVE  SameTaskInv'
    BY <1>4, NothingAttached
       DEF ExpireStatus, ExpireHistoryID, dbVars, workerVars, counts, Typed, TypeOK
  <1>5. ASSUME NEW n \in Nodes, NodeStep(n)
        PROVE  SameTaskInv'
    <2>1. /\ file' = file
          /\ \A t \in Tasks : historyID'[t] \in {historyID[t], None}
          /\ \A w \in Workers :
                 hist'[w] = None \/ (hist'[w] = hist[w] /\ job'[w] = job[w])
      BY <1>5
         DEF NodeStep, StopServer, CloseConnections, ClearCache, Exit, Crash,
             Restart, Halts, dbVars, workerVars, counts, Typed, TypeOK
    <2> QED
      BY <2>1, NothingAttached
  <1> QED
    BY <1>1, <1>2, <1>3, <1>4, <1>5 DEF Next

\* A file never ends up in the row of another user, channel or second, although
\* the worker finds the row through a key that other requests overwrite, that
\* expires, and that outlives the task when its deletion fails.
THEOREM FilesOfSameTask == Spec => []FileOfSameTask
  <1>1. Init => SameTaskInv
    BY MarkersAssumption DEF Init, SameTaskInv, KeysOfTask, FileOfSameTask
  <1>2. Typed /\ SameTaskInv /\ [Next]_vars => SameTaskInv'
    BY SameTaskStep
  <1>3. SameTaskInv => FileOfSameTask
    BY DEF SameTaskInv
  <1> QED
    BY <1>1, <1>2, <1>3, TypedAlways, PTL DEF Spec

\* What a step may use of where tasks are, and of what keys and row ids name.
Base == Typed /\ HeldInv /\ SameTaskInv

LEMMA BaseAlways == Spec => []Base
  <1>1. Init => SameTaskInv
    BY MarkersAssumption DEF Init, SameTaskInv, KeysOfTask, FileOfSameTask
  <1>2. Typed /\ SameTaskInv /\ [Next]_vars => SameTaskInv'
    BY SameTaskStep
  <1>3. Typed /\ HeldInv /\ SameTaskInv => Base
    BY DEF Base
  <1> QED
    BY <1>1, <1>2, <1>3, HeldAlways, PTL DEF Spec

\* The task a worker holds is nowhere else, if its push was not sent again.
LEMMA OnlyHere ==
    ASSUME Base, NEW w \in Workers, job[w] \in Requests, resent[job[w]] = 0
    PROVE  /\ ~Queued(job[w])
           /\ call[job[w]] \notin BeforePush
           /\ \A v \in Workers : job[v] = job[w] => v = w
  BY OnePlace DEF Base

-----------------------------------------------------------------------------
(* A row that is done references a stored file.                             *)

\* The strengthening: a worker only reports done when its upload succeeded.
DoneWasUploaded ==
    \A w \in Workers : step[w] \in {"doneCache", "doneRow"} =>
        job[w] \in Requests /\ uploads[job[w]] > 0

DoneInv == DoneWasUploaded /\ DoneHasFile

MoreUploads == \A r \in Requests : uploads[r] > 0 => uploads'[r] > 0

\* A step that makes no row done and brings no worker to report done.
LEMMA NothingDone ==
    ASSUME Typed, DoneInv, MoreUploads,
           \A r \in Requests :
               row'[r] = "done" => row[r] = "done" /\ file'[r] = file[r],
           \A w \in Workers :
               step'[w] \in {"doneCache", "doneRow"} =>
                   /\ step[w] \in {"doneCache", "doneRow"}
                   /\ job'[w] = job[w]
    PROVE  DoneInv'
  BY DEF DoneInv, DoneWasUploaded, DoneHasFile, MoreUploads

LEMMA DoneStep ==
    ASSUME Typed, DoneInv, [Next]_vars
    PROVE  DoneInv'
  <1>1. CASE UNCHANGED vars
    BY <1>1 DEF DoneInv, DoneWasUploaded, DoneHasFile, MoreUploads, vars
  <1>2. ASSUME NEW r \in Requests, GenerateExport(r) \/ CallStep(r) \/ DeleteRecord(r)
        PROVE  DoneInv'
    <2>1. /\ UNCHANGED <<uploads, workerVars>>
          /\ \A q \in Requests :
                 row'[q] = "done" => row[q] = "done" /\ file'[q] = file[q]
      BY <1>2
         DEF GenerateExport, CallStep, CheckStatus, InsertPdfExportHistory,
             SetExportHistoryID, PushExportTask, SetPendingStatus, DeleteRecord,
             Written, dbVars, counts, Typed, TypeOK
    <2> QED
      BY <2>1, NothingDone DEF workerVars, MoreUploads
  <1>3. ASSUME NEW w \in Workers, WorkerStep(w)
        PROVE  DoneInv'
    <2>1. CASE UploadPdfToStorage(w)
      <3>1. /\ UNCHANGED <<dbVars, job>>
            /\ job[w] \in Requests
            /\ \A v \in Workers : v # w => step'[v] = step[v]
            /\ \/ uploads' = uploads /\ step'[w] = "failCache"
               \/ uploads' = [uploads EXCEPT ![job[w]] = @ + 1]
        BY <2>1 DEF UploadPdfToStorage, WorkerMoves, Continues, Applied, Typed, TypeOK,
                    WorkersHold
      <3>2. /\ MoreUploads
            /\ step'[w] \in {"doneCache", "doneRow"} => uploads'[job[w]] > 0
        <4>1. \A r \in Requests :
                  /\ uploads[r] \in Nat
                  /\ uploads' # uploads =>
                         uploads'[r] = IF r = job[w] THEN uploads[r] + 1 ELSE uploads[r]
          BY <3>1 DEF Typed, TypeOK, CountsOK
        <4>2. MoreUploads
          BY <4>1 DEF MoreUploads
        <4>3. CASE uploads' = uploads
          <5>1. uploads' = [uploads EXCEPT ![job[w]] = @ + 1] => FALSE
            <6>1. uploads \in [Requests -> Nat]
              BY DEF Typed, TypeOK, CountsOK
            <6> QED
              BY <3>1, <4>3, <6>1
          <5> QED
            BY <3>1, <4>2, <5>1
        <4>4. CASE uploads' # uploads
          BY <3>1, <4>1, <4>2, <4>4
        <4> QED
          BY <4>3, <4>4
      <3> QED
        BY <3>1, <3>2 DEF DoneInv, DoneWasUploaded, DoneHasFile, MoreUploads, dbVars, counts
    <2>2. CASE SetDone(w)
      <3>1. /\ uploads' = uploads /\ job' = job
            /\ step[w] \in {"doneCache", "doneRow"}
            /\ \A v \in Workers : v # w => step'[v] = step[v]
            /\ job[w] \in Requests
            /\ \/ row' = row /\ file' = file
               \/ /\ hist[w] \in Requests
                  /\ row' = [row EXCEPT ![hist[w]] = "done"]
                  /\ file' = [file EXCEPT ![hist[w]] = job[w]]
        BY <2>2, MarkersAssumption
           DEF SetDone, SetKey, SetRow, WorkerMoves, Continues, After, dbVars, counts, Typed,
               TypeOK, WorkersHold
      <3> QED
        BY <3>1 DEF DoneInv, DoneWasUploaded, DoneHasFile, MoreUploads, Typed, TypeOK
    <2>3. CASE ~UploadPdfToStorage(w) /\ ~SetDone(w)
      <3>1. uploads' = uploads
        BY <1>3, <2>3
           DEF WorkerStep, PopExportTask, PopNothing, GetExportHistoryID,
               SetProcessing, SetFailed, MarkFailed, SetKey, SetRow,
               AssemblePdf, SearchScreenRecordings, ClearStatus, ClearHistory,
               counts
      <3>2. \A v \in Workers :
                step'[v] \in {"doneCache", "doneRow"} =>
                    step[v] \in {"doneCache", "doneRow"} /\ job'[v] = job[v]
        BY <1>3, <2>3
           DEF WorkerStep, PopExportTask, PopNothing, GetExportHistoryID,
               SetProcessing, SetFailed, MarkFailed, SetKey, SetRow,
               AssemblePdf, SearchScreenRecordings, ClearStatus, ClearHistory,
               WorkerMoves, Continues, Releases, LetsGo, After, Typed, TypeOK
      <3>3. \A r \in Requests :
                row'[r] = "done" => row[r] = "done" /\ file'[r] = file[r]
        BY <1>3, <2>3
           DEF WorkerStep, PopExportTask, PopNothing, GetExportHistoryID,
               SetProcessing, SetFailed, MarkFailed, SetKey, SetRow,
               AssemblePdf, SearchScreenRecordings, ClearStatus, ClearHistory,
               dbVars, counts, Typed, TypeOK
      <3> QED
        BY <3>1, <3>2, <3>3, NothingDone DEF MoreUploads
    <2> QED
      BY <2>1, <2>2, <2>3
  <1>4. ASSUME NEW t \in Tasks, ExpireStatus(t) \/ ExpireHistoryID(t)
        PROVE  DoneInv'
    BY <1>4, NothingDone DEF MoreUploads, ExpireStatus, ExpireHistoryID, dbVars, workerVars, counts
  <1>5. ASSUME NEW n \in Nodes, NodeStep(n)
        PROVE  DoneInv'
    <2>1. /\ UNCHANGED <<uploads, dbVars>>
          /\ \A w \in Workers :
                 step'[w] = "idle" \/ (step'[w] = step[w] /\ job'[w] = job[w])
      BY <1>5
         DEF NodeStep, StopServer, CloseConnections, ClearCache, Exit, Crash,
             Restart, Halts, dbVars, workerVars, counts, Typed, TypeOK
    <2> QED
      BY <2>1, NothingDone DEF MoreUploads, dbVars, counts
  <1> QED
    BY <1>1, <1>2, <1>3, <1>4, <1>5 DEF Next

\* A row says done only with a file in the storage service, whatever fails and
\* even when two requests share a task id and one writes the other's row.
THEOREM DoneRowsHaveFiles == Spec => []DoneHasFile
  <1>1. Init => DoneInv
    BY DEF Init, DoneInv, DoneWasUploaded, DoneHasFile
  <1>2. Typed /\ DoneInv /\ [Next]_vars => DoneInv'
    BY DoneStep
  <1>3. DoneInv => DoneHasFile
    BY DEF DoneInv
  <1> QED
    BY <1>1, <1>2, <1>3, TypedAlways, PTL DEF Spec

-----------------------------------------------------------------------------
(* A row in processing has a worker, when the database and the search do    *)
(* not fail and no process ends.                                            *)

SteadyProcesses == Faults \cap {"db", "search", "stop", "crash"} = {}

AllUp == \A n \in Nodes : node[n] = "up"

\* A step that sets no row to processing and takes no worker out of its work.
LEMMA NothingLeft ==
    ASSUME ProcessingHasWorker,
           \A r \in Requests : row'[r] = "processing" => row[r] = "processing",
           \A w \in Workers :
               step[w] \in InProgress => hist'[w] = hist[w] /\ step'[w] \in InProgress
    PROVE  ProcessingHasWorker'
  BY DEF ProcessingHasWorker

LEMMA ProcessingStep ==
    ASSUME SteadyProcesses, Typed, AllUp, ProcessingHasWorker, [Next]_vars
    PROVE  AllUp' /\ ProcessingHasWorker'
  <1>1. AllUp'
    BY DEF AllUp, SteadyProcesses, Next, vars, GenerateExport, CallStep,
           CheckStatus, InsertPdfExportHistory, SetExportHistoryID,
           PushExportTask, SetPendingStatus, DeleteRecord, WorkerStep,
           PopExportTask, PopNothing, GetExportHistoryID, SetProcessing,
           SetFailed, SetDone, MarkFailed, SetKey, SetRow, AssemblePdf,
           SearchScreenRecordings, UploadPdfToStorage, ClearStatus,
           ClearHistory, ExpireStatus, ExpireHistoryID, NodeStep, StopServer,
           CloseConnections, ClearCache, StageMoves, After, Exit, Crash, Restart
  <1>2. CASE UNCHANGED vars
    BY <1>1, <1>2, NothingLeft DEF vars
  <1>3. ASSUME NEW r \in Requests, GenerateExport(r) \/ CallStep(r) \/ DeleteRecord(r)
        PROVE  ProcessingHasWorker'
    <2>1. /\ UNCHANGED workerVars
          /\ \A q \in Requests : row'[q] = "processing" => row[q] = "processing"
      BY <1>3
         DEF GenerateExport, CallStep, CheckStatus, InsertPdfExportHistory,
             SetExportHistoryID, PushExportTask, SetPendingStatus, DeleteRecord,
             Written, dbVars, counts, Typed, TypeOK
    <2> QED
      BY <2>1, NothingLeft DEF workerVars, counts
  <1>4. ASSUME NEW w \in Workers, WorkerStep(w)
        PROVE  ProcessingHasWorker'
    <2>1. ASSUME NEW from, NEW value, NEW newFile, NEW onError,
                 SetRow(w, from, value, newFile, "clearStatus", onError),
                 from \in InProgress, value \in {"done", "failed"}
          PROVE  ProcessingHasWorker'
      <3>1. /\ hist' = hist
            /\ \A v \in Workers : v # w => step'[v] = step[v]
            /\ \A q \in Requests :
                   row'[q] = "processing" => row[q] = "processing" /\ q # hist[w]
        BY <2>1 DEF SetRow, WorkerMoves, Continues, After, Applied, Outcomes, dbVars, counts,
                    SteadyProcesses, Typed, TypeOK
      <3> QED
        BY <3>1 DEF ProcessingHasWorker
    <2>2. CASE SetRow(w, "procRow", "processing", None, "search", "clearStatus")
      <3>1. /\ hist' = hist
            /\ step[w] = "procRow"
            /\ \A v \in Workers : v # w => step'[v] = step[v]
            /\ \A q \in Requests :
                   row'[q] = "processing" =>
                       row[q] = "processing" \/ (q = hist[w] /\ step'[w] = "search")
        BY <2>2 DEF SetRow, WorkerMoves, Continues, After, Applied, Outcomes, dbVars, counts,
                    SteadyProcesses, Typed, TypeOK
      <3> QED
        BY <3>1 DEF ProcessingHasWorker, InProgress
    <2>3. CASE SearchScreenRecordings(w)
      <3>1. Connected(w) /\ "search" \notin Faults
        BY HomeOfAssumption DEF Connected, AllUp, SteadyProcesses
      <3>2. /\ UNCHANGED <<row, hist>>
            /\ \A v \in Workers : step[v] \in InProgress => step'[v] \in InProgress
        BY <2>3, <3>1 DEF SearchScreenRecordings, WorkerMoves, Continues, After, dbVars, counts,
                          InProgress, Typed, TypeOK
      <3> QED
        BY <3>2, NothingLeft
    <2>4. CASE \/ PopExportTask(w) \/ PopNothing(w) \/ GetExportHistoryID(w)
               \/ SetKey(w, "procCache", "processing", "procRow")
               \/ SetKey(w, "failCache", "failed", "failRow")
               \/ SetKey(w, "doneCache", "done", "doneRow")
               \/ MarkFailed(w) \/ AssemblePdf(w) \/ UploadPdfToStorage(w)
               \/ ClearStatus(w) \/ ClearHistory(w)
      <3>1. /\ row' = row
            /\ \A v \in Workers :
                   step[v] \in InProgress => hist'[v] = hist[v] /\ step'[v] \in InProgress
        BY <2>4
           DEF PopExportTask, PopNothing, GetExportHistoryID, SetKey,
               MarkFailed, AssemblePdf, UploadPdfToStorage, ClearStatus,
               ClearHistory, WorkerMoves, Continues, Releases, LetsGo, After, dbVars, counts,
               InProgress, Typed, TypeOK
      <3> QED
        BY <3>1, NothingLeft
    <2> QED
      BY <1>4, <2>1, <2>2, <2>3, <2>4
         DEF WorkerStep, SetProcessing, SetFailed, SetDone, InProgress
  <1>5. ASSUME NEW t \in Tasks, ExpireStatus(t) \/ ExpireHistoryID(t)
        PROVE  ProcessingHasWorker'
    BY <1>5, NothingLeft DEF ExpireStatus, ExpireHistoryID, dbVars, workerVars, counts
  <1>6. ASSUME NEW n \in Nodes, NodeStep(n)
        PROVE  ProcessingHasWorker'
    BY <1>6 DEF NodeStep, StopServer, CloseConnections, ClearCache, StageMoves, After,
                Exit, Crash, Restart, AllUp, SteadyProcesses
  <1> QED
    BY <1>1, <1>2, <1>3, <1>4, <1>5, <1>6 DEF Next

\* As long as the database and the search answer and no process ends, a row in
\* processing always has a worker that is going to write its final status, and
\* be it one whose task shares the id: every return of HandlePdfTask in between
\* writes the row first.
THEOREM ProcessingIsWorkedOn ==
    ASSUME SteadyProcesses PROVE Spec => []ProcessingHasWorker
  <1>1. Init => AllUp /\ ProcessingHasWorker
    BY DEF Init, AllUp, ProcessingHasWorker
  <1>2. Typed /\ AllUp /\ ProcessingHasWorker /\ [Next]_vars =>
            AllUp' /\ ProcessingHasWorker'
    BY ProcessingStep
  <1> QED
    BY <1>1, <1>2, TypedAlways, PTL DEF Spec

=============================================================================
