----------------------------- MODULE Lifecycle -----------------------------
(***************************************************************************)
(* One process from its initialisation to its end (cmd/main,               *)
(* internal/app/app.go, internal/server/grpc.go, registry/consul).         *)
(* Goroutine main waits for a signal and runs App.Stop; starter runs       *)
(* App.Start; server registers at Consul and serves; checker reports to    *)
(* Consul.  They meet on two unbuffered channels: App.exitCh, read by      *)
(* starter only and once, and ConsulRegistry.stop, read by checker.        *)
(* os.Exit, from main or starter, ends them all wherever they are.         *)
(***************************************************************************)
CONSTANTS
    Faults  \* what may go wrong, a subset of FaultKinds

FaultKinds == {"init", "consul", "open", "accept"}

ASSUME FaultsAssumption == Faults \subseteq FaultKinds

VARIABLES
    main,       \* the next step of main.Run and App.Stop
    starter,    \* the next step of App.Start and of the goroutine it is in
    server,     \* the next step of Server.Start
    checker,    \* the next step of RunServiceCheck
    signalled,  \* a signal has come
    stopped,    \* grpc.Server.Stop was called
    registered, \* Consul knows a service of this id
    withdrawn,  \* Deregister took effect after the one Register of this process
    missed,     \* the last update of its check failed
    exited      \* "no", or how the process ended

vars == <<main, starter, server, checker, signalled, stopped, registered,
          withdrawn, missed, exited>>

TypeOK ==
    /\ main \in {"new", "start", "wait", "deregister", "stopChecker", "report",
                 "stopServer", "close", "clear", "exit"}
    /\ starter \in {"none", "open", "wait", "exit"}
    /\ server \in {"none", "register", "findCheck", "serve", "serving",
                   "report", "ended"}
    /\ checker \in {"none", "first", "loop", "ended"}
    /\ signalled \in BOOLEAN
    /\ stopped \in BOOLEAN
    /\ registered \in BOOLEAN
    /\ withdrawn \in BOOLEAN
    /\ missed \in BOOLEAN
    /\ exited \in {"no", "0", "1", "killed"}

\* The id is the same in every process that is started with this configuration:
\* Consul may still hold the registration of one that crashed or was killed, as
\* Restart=on-failure starts the next one long before the check gives it up.
Init ==
    /\ main = "new"
    /\ starter = "none"
    /\ server = "none"
    /\ checker = "none"
    /\ signalled = FALSE
    /\ stopped = FALSE
    /\ registered \in BOOLEAN
    /\ withdrawn = FALSE
    /\ missed = FALSE
    /\ exited = "no"

Alive == exited = "no"

MainMoves(from, to) == Alive /\ main = from /\ main' = to
ServerMoves(from, to) == Alive /\ server = from /\ server' = to

\* What a call to Consul may come to; a lost one has its effect and fails.
Answers == {"ok"} \cup (IF "consul" \in Faults THEN {"failed", "lost"} ELSE {})

-----------------------------------------------------------------------------
(* starter: App.Start, and os.Exit when it returns.                         *)

\* Store.Open, then the goroutines of the server and the workers.
Start ==
    /\ Alive
    /\ starter = "open"
    /\ \/ starter' = "wait" /\ server' = "register"
       \/ "open" \in Faults /\ starter' = "exit" /\ UNCHANGED server
    /\ UNCHANGED <<main, checker, signalled, stopped, registered, withdrawn,
                   missed, exited>>

ExitOne ==
    /\ Alive
    /\ starter = "exit"
    /\ exited' = "1"
    /\ UNCHANGED <<main, starter, server, checker, signalled, stopped,
                   registered, withdrawn, missed>>

-----------------------------------------------------------------------------
(* server: Server.Start with ConsulRegistry.Register.                       *)

RegisterService ==
    /\ \E a \in Answers :
           /\ ServerMoves("register", IF a = "ok" THEN "findCheck" ELSE "report")
           /\ registered' = (registered \/ a # "failed")
    /\ UNCHANGED <<main, starter, checker, signalled, stopped, withdrawn,
                   missed, exited>>

FindCheck ==
    /\ \/ /\ registered
          /\ ServerMoves("findCheck", "serve")
          /\ checker' = "first"
       \/ /\ ~registered \/ "consul" \in Faults
          /\ ServerMoves("findCheck", "report")
          /\ UNCHANGED checker
    /\ UNCHANGED <<main, starter, signalled, stopped, registered, withdrawn,
                   missed, exited>>

\* Serve fails at once on a stopped server, and returns nil when it is stopped
\* later.
Serve ==
    /\ \/ ~stopped /\ ServerMoves("serve", "serving")
       \/ stopped /\ ServerMoves("serve", "report")
       \/ stopped /\ ServerMoves("serving", "ended")
    /\ UNCHANGED <<main, starter, checker, signalled, stopped, registered,
                   withdrawn, missed, exited>>

\* The listener breaks and Serve returns its error.
AcceptFails ==
    /\ "accept" \in Faults
    /\ ~stopped
    /\ ServerMoves("serving", "report")
    /\ UNCHANGED <<main, starter, checker, signalled, stopped, registered,
                   withdrawn, missed, exited>>

\* Bug: an error of Start ends its goroutine and is not sent on.
ReportDropped ==
    /\ ServerMoves("report", "ended")
    /\ UNCHANGED <<main, starter, checker, signalled, stopped, registered,
                   withdrawn, missed, exited>>

\* exitCh <- err, received by starter.
Report ==
    /\ ServerMoves("report", "ended")
    /\ starter = "wait"
    /\ starter' = "exit"
    /\ UNCHANGED <<main, checker, signalled, stopped, registered, withdrawn,
                   missed, exited>>

-----------------------------------------------------------------------------
(* checker: RunServiceCheck.                                                *)

\* Bug: the checker gives up when an update fails.
UpdateOrEnd ==
    /\ Alive
    /\ checker \in {"first", "loop"}
    /\ \E a \in Answers :
           /\ missed' = (a # "ok" \/ ~registered)
           /\ checker' = IF missed' THEN "ended" ELSE "loop"
    /\ UNCHANGED <<main, starter, server, signalled, stopped, registered,
                   withdrawn, exited>>

\* Bug: the TODO done here, a failed update registers the service again.
UpdateReconnecting ==
    /\ Alive
    /\ checker \in {"first", "loop"}
    /\ \E a \in Answers : missed' = (a # "ok" \/ ~registered)
    /\ registered' = TRUE
    /\ checker' = "loop"
    /\ UNCHANGED <<main, starter, server, signalled, stopped, withdrawn,
                   exited>>

\* doUpdateTTL, at once and with every tick; its error is ignored.
UpdateTTL ==
    /\ Alive
    /\ checker \in {"first", "loop"}
    /\ \E a \in Answers : missed' = (a # "ok" \/ ~registered)
    /\ checker' = "loop"
    /\ UNCHANGED <<main, starter, server, signalled, stopped, registered,
                   withdrawn, exited>>

\* Consul drops a service whose check was not updated for its TTL of a minute
\* and the half that DeregisterCriticalServiceAfter adds.
Reap ==
    /\ registered
    /\ missed \/ checker # "loop" \/ ~Alive
    /\ registered' = FALSE
    /\ UNCHANGED <<main, starter, server, checker, signalled, stopped,
                   withdrawn, missed, exited>>

-----------------------------------------------------------------------------
(* main: Run, app.New, App.Stop, Server.Stop, Deregister.                   *)

\* app.New connects to Redis, makes the clients and opens the listener.  When
\* one of these fails, Run returns and the process ends with 0, as after a
\* signal.  Else the goroutine starter begins.
New ==
    /\ Alive
    /\ main = "new"
    /\ \/ main' = "start" /\ starter' = "open" /\ UNCHANGED exited
       \/ "init" \in Faults /\ exited' = "0" /\ UNCHANGED <<main, starter>>
    /\ UNCHANGED <<server, checker, signalled, stopped, registered, withdrawn,
                   missed>>

\* Until signal.Notify, a signal kills the process.  Later ones are ignored.
Signal ==
    /\ Alive
    /\ ~signalled
    /\ signalled' = TRUE
    /\ exited' = IF main \in {"new", "start"} THEN "killed" ELSE "no"
    /\ UNCHANGED <<main, starter, server, checker, stopped, registered,
                   withdrawn, missed>>

Notify ==
    /\ MainMoves("start", "wait")
    /\ UNCHANGED <<starter, server, checker, signalled, stopped, registered,
                   withdrawn, missed, exited>>

Receive ==
    /\ signalled
    /\ MainMoves("wait", "deregister")
    /\ UNCHANGED <<starter, server, checker, signalled, stopped, registered,
                   withdrawn, missed, exited>>

\* If Consul knows no service of that id, it is an error like any other; if it
\* knows one of an earlier process, that one goes.
ServiceDeregister ==
    /\ \E a \in Answers :
           /\ MainMoves("deregister",
                  IF a = "ok" /\ registered THEN "stopChecker" ELSE "report")
           /\ registered' = (registered /\ a = "failed")
           /\ withdrawn' = \/ withdrawn
                           \/ a # "failed" /\ server \notin {"none", "register"}
    /\ UNCHANGED <<starter, server, checker, signalled, stopped,
                   missed, exited>>

\* stop <- true, received by the checker between two ticks.
StopChecker ==
    /\ MainMoves("stopChecker", "stopServer")
    /\ checker = "loop"
    /\ checker' = "ended"
    /\ UNCHANGED <<starter, server, signalled, stopped, registered, withdrawn,
                   missed, exited>>

\* exitCh <- err, received by starter.  Server.Stop returns before it stops
\* the gRPC server and App.Stop goes on.
ReportDeregister ==
    /\ MainMoves("report", "close")
    /\ starter = "wait"
    /\ starter' = "exit"
    /\ UNCHANGED <<server, checker, signalled, stopped, registered, withdrawn,
                   missed, exited>>

\* grpc.Server.Stop, which also cancels the calls in flight: they end with an
\* error for the client while their handlers run on, as in ExportService.
StopServer ==
    /\ MainMoves("stopServer", "close")
    /\ stopped' = TRUE
    /\ UNCHANGED <<starter, server, checker, signalled, registered, withdrawn,
                   missed, exited>>

\* Bug: Stop returns when the connections are closed.
CloseConnectionsOnly ==
    /\ MainMoves("close", "exit")
    /\ UNCHANGED <<starter, server, checker, signalled, stopped, registered,
                   withdrawn, missed, exited>>

CloseConnections ==
    /\ MainMoves("close", "clear")
    /\ UNCHANGED <<starter, server, checker, signalled, stopped, registered,
                   withdrawn, missed, exited>>

\* FLUSHDB; its effect on the shared cache is in ExportService.
ClearCache ==
    /\ MainMoves("clear", "exit")
    /\ UNCHANGED <<starter, server, checker, signalled, stopped, registered,
                   withdrawn, missed, exited>>

\* Bug: the number of the signal in the exit code.
ExitWithSignal ==
    /\ MainMoves("exit", "exit")
    /\ exited' = "130"
    /\ UNCHANGED <<starter, server, checker, signalled, stopped, registered,
                   withdrawn, missed>>

ExitZero ==
    /\ MainMoves("exit", "exit")
    /\ exited' = "0"
    /\ UNCHANGED <<starter, server, checker, signalled, stopped, registered,
                   withdrawn, missed>>

-----------------------------------------------------------------------------

StarterStep == Start \/ ExitOne
ServerStep == RegisterService \/ FindCheck \/ Serve \/ Report
MainStep ==
    \/ New
    \/ Notify
    \/ Receive
    \/ ServiceDeregister
    \/ StopChecker
    \/ ReportDeregister
    \/ StopServer
    \/ CloseConnections
    \/ ClearCache
    \/ ExitZero

Next ==
    \/ StarterStep
    \/ ServerStep
    \/ AcceptFails
    \/ UpdateTTL
    \/ MainStep
    \/ Signal
    \/ Reap

Spec == Init /\ [][Next]_vars

\* Every goroutine is scheduled and its calls return.  The checker waits in a
\* select and takes what comes; between two ticks the sender is ready again and
\* again.  Nothing obliges a signal or Consul's reaper to come, or the listener
\* to break.
FairSpec ==
    /\ Spec
    /\ WF_vars(StarterStep)
    /\ WF_vars(ServerStep)
    /\ WF_vars(UpdateTTL)
    /\ WF_vars(MainStep)

-----------------------------------------------------------------------------
(* Properties.                                                              *)

\* A service that Deregister took out of Consul after this process registered it
\* does not come back: no registration that is still under way and no late check-in of the
\* checker announces a process that has stopped serving.
DeregisteredForGood == withdrawn => ~registered

\* After a signal the process ends, whichever of its goroutines have started
\* by then, whatever Consul answers, and although Deregister waits for the
\* checker and an error waits for starter.
SignalEnds == signalled ~> ~Alive

\* A server that cannot register or serve does not leave a process behind that
\* only works on exports: it ends without a signal.
FailureEnds == server = "report" ~> ~Alive

\* How the process looks from outside.
Stage ==
    IF ~Alive THEN "down"
    ELSE CASE main = "close" -> "draining"
           [] main = "clear" -> "closed"
           [] main = "exit" -> "flushed"
           [] OTHER -> "up"

Outside == INSTANCE ProcessStages WITH stage <- Stage

\* The process ends in the stages that ExportService gives it.
StagesSpec == Outside!Spec

-----------------------------------------------------------------------------
(* What the code's comments say and the code does not do.                   *)

\* "Stop deregisters the service and gracefully stops the gRPC server"
\* (internal/server/grpc.go:88): a server that Stop has stopped is not in Consul.
StopDeregisters == stopped => ~registered

=============================================================================
