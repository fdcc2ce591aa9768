-------------------------- MODULE LifecycleProofs --------------------------
(***************************************************************************)
(* Proofs about Lifecycle, for any faults.                                 *)
(***************************************************************************)
EXTENDS Lifecycle, TLAPS

\* Lemma: TypeOK is inductive.
LEMMA TypeStep == TypeOK /\ [Next]_vars => TypeOK'
<1> SUFFICES ASSUME TypeOK, [Next]_vars PROVE TypeOK'
    OBVIOUS
<1> USE DEF TypeOK
<1>1. CASE StarterStep
    BY <1>1 DEF StarterStep, Start, ExitOne
<1>2. CASE ServerStep \/ AcceptFails
    BY <1>2 DEF ServerStep, RegisterService, FindCheck, Serve, AcceptFails, Report,
              ServerMoves
<1>3. CASE UpdateTTL
    BY <1>3 DEF UpdateTTL
<1>4. CASE MainStep
  <2>1. CASE StopServer
      BY <2>1 DEF StopServer, MainMoves
  <2>2. CASE ServiceDeregister
      BY <2>2 DEF ServiceDeregister, MainMoves
  <2>3. CASE New \/ Notify \/ Receive \/ StopChecker \/ ReportDeregister
      BY <2>3 DEF New, Notify, Receive, StopChecker, ReportDeregister, MainMoves
  <2>4. CASE CloseConnections \/ ClearCache \/ ExitZero
      BY <2>4 DEF CloseConnections, ClearCache, ExitZero, MainMoves
  <2>5. QED
      BY <1>4, <2>1, <2>2, <2>3, <2>4 DEF MainStep
<1>5. CASE Signal
    BY <1>5 DEF Signal, Alive
<1>6. CASE Reap
  <2>1. UNCHANGED <<main, starter, server, checker, signalled, stopped, withdrawn,
                   missed, exited>>
      BY <1>6 DEF Reap
  <2>2. registered' \in BOOLEAN
      BY <1>6 DEF Reap
  <2>3. QED
      BY <2>1, <2>2
<1>7. CASE UNCHANGED vars
    BY <1>7 DEF vars
<1>8. QED
    BY <1>1, <1>2, <1>3, <1>4, <1>5, <1>6, <1>7 DEF Next

\* The variables of every process keep their types.
THEOREM LifecycleTypeCorrect == Spec => []TypeOK
<1>1. Init => TypeOK
    BY DEF Init, TypeOK
<1>2. QED
    BY <1>1, TypeStep, PTL DEF Spec

-----------------------------------------------------------------------------

\* Why the service does not come back: the server of a process that has called
\* Register never returns to it, and only Register makes Consul know a service.
RegisteredOnce ==
    /\ starter \in {"none", "open"} => server = "none"
    /\ starter = "none" <=> main = "new"
    /\ withdrawn => server \notin {"none", "register"} /\ ~registered

\* Lemma: RegisteredOnce is inductive.
LEMMA RegisteredOnceStep ==
    RegisteredOnce /\ [Next]_vars => RegisteredOnce'
<1> SUFFICES ASSUME RegisteredOnce, [Next]_vars PROVE RegisteredOnce'
    OBVIOUS
<1> USE DEF RegisteredOnce
<1>1. CASE StarterStep
    BY <1>1 DEF StarterStep, Start, ExitOne
<1>2. CASE ServerStep \/ AcceptFails
    BY <1>2 DEF ServerStep, RegisterService, FindCheck, Serve, AcceptFails, Report,
              ServerMoves
<1>3. CASE UpdateTTL
    BY <1>3 DEF UpdateTTL
<1>4. CASE MainStep
  <2>1. CASE ServiceDeregister
      BY <2>1 DEF ServiceDeregister, MainMoves
  <2>2. CASE StopServer
      BY <2>2 DEF StopServer, MainMoves
  <2>3. CASE New \/ Notify \/ Receive \/ StopChecker \/ ReportDeregister
      BY <2>3 DEF New, Notify, Receive, StopChecker, ReportDeregister, MainMoves
  <2>4. CASE CloseConnections \/ ClearCache \/ ExitZero
      BY <2>4 DEF CloseConnections, ClearCache, ExitZero, MainMoves
  <2>5. QED
      BY <1>4, <2>1, <2>2, <2>3, <2>4 DEF MainStep
<1>5. CASE Signal
    BY <1>5 DEF Signal
<1>6. CASE Reap
    BY <1>6 DEF Reap
<1>7. CASE UNCHANGED vars
    BY <1>7 DEF vars
<1>8. QED
    BY <1>1, <1>2, <1>3, <1>4, <1>5, <1>6, <1>7 DEF Next

\* A service that Deregister took out of Consul after this process registered it is
\* never registered again, whether or not Consul knew one of an earlier process
\* at the start.
THEOREM StaysDeregistered == Spec => []DeregisteredForGood
<1>1. Init => RegisteredOnce
    BY DEF Init, RegisteredOnce
<1>2. RegisteredOnce => DeregisteredForGood
    BY DEF RegisteredOnce, DeregisteredForGood
<1>3. QED
    BY <1>1, <1>2, RegisteredOnceStep, PTL DEF Spec

-----------------------------------------------------------------------------

\* The stages that ExportService takes a process through are those it has:
\* draining, closed, flushed and down, or down from any of them.
THEOREM LifecycleHasStages == Spec => StagesSpec
<1> USE DEF Stage, Alive
<1>1. Init => Outside!Init
    BY DEF Init, Outside!Init
<1>2. TypeOK /\ [Next]_vars => [Outside!Next]_Stage
  <2> SUFFICES ASSUME TypeOK, [Next]_vars PROVE [Outside!Next]_Stage
      OBVIOUS
  <2> USE DEF Outside!Next, Outside!Drains, Outside!Closes, Outside!Flushes, Outside!Ends
  <2>1. CASE StarterStep
      BY <2>1 DEF StarterStep, Start, ExitOne
  <2>2. CASE ServerStep \/ AcceptFails
      BY <2>2 DEF ServerStep, RegisterService, FindCheck, Serve, AcceptFails, Report,
              ServerMoves
  <2>3. CASE UpdateTTL
      BY <2>3 DEF UpdateTTL
  <2>4. CASE MainStep
    <3>1. CASE ServiceDeregister
        BY <3>1 DEF ServiceDeregister, MainMoves
    <3>2. CASE StopServer \/ ReportDeregister
        BY <3>2 DEF StopServer, ReportDeregister, MainMoves
    <3>3. CASE New \/ Notify \/ Receive \/ StopChecker
        BY <3>3 DEF New, Notify, Receive, StopChecker, MainMoves
    <3>4. CASE CloseConnections \/ ClearCache
        BY <3>4 DEF CloseConnections, ClearCache, MainMoves
    <3>5. CASE ExitZero
        BY <3>5 DEF ExitZero, MainMoves
    <3>6. QED
        BY <2>4, <3>1, <3>2, <3>3, <3>4, <3>5 DEF MainStep
  <2>5. CASE Signal
      BY <2>5 DEF Signal
  <2>6. CASE Reap
      BY <2>6 DEF Reap
  <2>7. CASE UNCHANGED vars
      BY <2>7 DEF vars
  <2>8. QED
      BY <2>1, <2>2, <2>3, <2>4, <2>5, <2>6, <2>7 DEF Next
<1>3. QED
    BY <1>1, <1>2, LifecycleTypeCorrect, PTL DEF Spec, StagesSpec, Outside!Spec

=============================================================================
