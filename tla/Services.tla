------------------------------ MODULE Services -------------------------------
(***************************************************************************)
(* The life of the process: launcher.go with the services it starts and    *)
(* stops, run by cmd.go or, in tests and benchmarks, by embedded.go.       *)
(*                                                                         *)
(* The connector serves the requests of Observation, and the observation   *)
(* service owns their storage.  pprof is started and stopped like metrics. *)
(***************************************************************************)
EXTENDS Observation

CONSTANTS
  Configured      \* services besides the connector: sets of names

VARIABLES
  embedded,       \* run by embedded.go
  server,         \* the server of every service: new, serving, stopping, stopped
  starter,        \* the goroutine that calls Start: ready, serving, ended
  errChan,        \* results of Start that nobody has taken
  mutex,          \* who holds serverEmbedded.mutex
  operational,    \* serverEmbedded.operational
  loop,           \* the goroutine that waits for errors and signals
  stopper,        \* the caller of Stop in a test
  toStop,         \* services that launcher.Stop has still to stop
  ownFailure,     \* history: a server has failed by itself
  fatal           \* logger.Fatal was called

servicesVars == <<embedded, server, starter, errChan, mutex, operational, loop, stopper, toStop,
                  ownFailure, fatal>>

services == DOMAIN server

\* NewLauncher: the services that the configuration has.  It has opened the storage
\* and the listeners of the connector and of the observation service.
ServicesInit ==
  /\ embedded \in BOOLEAN
  /\ \E optional \in Configured :
       /\ server = [s \in {"connector"} \cup optional |-> "new"]
       /\ starter = [s \in {"connector"} \cup optional |-> "ready"]
  /\ errChan = {} /\ mutex = "free" /\ operational = TRUE
  /\ loop = "select" /\ stopper = (IF embedded THEN "work" ELSE "over") /\ toStop = {}
  /\ ownFailure = FALSE /\ fatal = FALSE
-----------------------------------------------------------------------------
(* Start *)

\* errChan has room for the result of every Start.
Report(s, err) ==
  /\ starter' = [starter EXCEPT ![s] = "ended"]
  /\ errChan' = errChan \cup {[service |-> s, err |-> err]}

\* The servers that are stopped already do not serve.  metrics opens its port here.
Serve(s) ==
  /\ starter[s] = "ready"
  /\ \/ /\ server[s] = "new"
        /\ server' = [server EXCEPT ![s] = "serving"]
        /\ starter' = [starter EXCEPT ![s] = "serving"]
        /\ UNCHANGED <<errChan, ownFailure>>
     \/ /\ server[s] = "new" /\ s = "metrics"
        /\ Report(s, "failed") /\ ownFailure' = TRUE
        /\ UNCHANGED server
     \/ /\ server[s] \in {"stopping", "stopped"}
        /\ Report(s, "closed")
        /\ UNCHANGED <<server, ownFailure>>
  /\ UNCHANGED <<embedded, mutex, operational, loop, stopper, toStop, fatal>>

\* The listener fails.
ServeFails(s) ==
  /\ starter[s] = "serving" /\ server[s] = "serving"
  /\ Report(s, "failed") /\ ownFailure' = TRUE
  /\ UNCHANGED <<embedded, server, mutex, operational, loop, stopper, toStop, fatal>>

\* An HTTP server returns ErrServerClosed as soon as its shutdown begins, a gRPC
\* server returns nil when its graceful stop is over.
ServeReturns(s) ==
  /\ starter[s] = "serving"
  /\ IF s = "connector" THEN server[s] = "stopped" /\ Report(s, "nil")
                        ELSE server[s] \in {"stopping", "stopped"} /\ Report(s, "closed")
  /\ UNCHANGED <<embedded, server, mutex, operational, loop, stopper, toStop, ownFailure, fatal>>
-----------------------------------------------------------------------------
(* launcher.Stop: the services one after another, in the order of a map *)

Stopping == \E s \in services : server[s] = "stopping"

\* GracefulStop and Shutdown: no new requests.
BeginStop(s) ==
  /\ s \in toStop /\ ~Stopping
  /\ server' = [server EXCEPT ![s] = "stopping"]
  /\ UNCHANGED <<embedded, starter, errChan, mutex, operational, loop, stopper, toStop,
                 ownFailure, fatal>>

\* The stop of the connector does not wait for its requests.
StopConnector_Now ==
  /\ server["connector"] = "stopping"
  /\ server' = [server EXCEPT !["connector"] = "stopped"] /\ toStop' = toStop \ {"connector"}
  /\ UNCHANGED <<embedded, starter, errChan, mutex, operational, loop, stopper, ownFailure, fatal>>
  /\ UNCHANGED observationVars

\* GracefulStop waits for the requests, then the data sources are closed.
StopConnector ==
  /\ server["connector"] = "stopping" /\ \A h \in Handlers : ~Active(h)
  /\ server' = [server EXCEPT !["connector"] = "stopped"] /\ toStop' = toStop \ {"connector"}
  /\ UNCHANGED <<embedded, starter, errChan, mutex, operational, loop, stopper, ownFailure, fatal>>
  /\ UNCHANGED observationVars

\* Shutdown waits for the answers, up to a timeout.
StopMetrics ==
  /\ "metrics" \in services /\ server["metrics"] = "stopping"
  /\ server' = [server EXCEPT !["metrics"] = "stopped"] /\ toStop' = toStop \ {"metrics"}
  /\ UNCHANGED <<embedded, starter, errChan, mutex, operational, loop, stopper, ownFailure, fatal>>
  /\ UNCHANGED observationVars

\* The same, then the storage is closed.
StopObservation ==
  /\ "observation" \in services /\ server["observation"] = "stopping"
  /\ server' = [server EXCEPT !["observation"] = "stopped"] /\ toStop' = toStop \ {"observation"}
  /\ CloseStorage
  /\ UNCHANGED <<embedded, starter, errChan, mutex, operational, loop, stopper, ownFailure, fatal>>
-----------------------------------------------------------------------------
(* serverEmbedded.Stop, by the test or, after a signal, by the loop *)

\* Which of the two: the names of the goroutines.
Caller(who, pc) == IF who = "loop" THEN loop = pc ELSE stopper = pc
CallerGoes(who, pc) ==
  IF who = "loop" THEN loop' = pc /\ UNCHANGED stopper ELSE stopper' = pc /\ UNCHANGED loop

\* The test has done its work.
CallStop ==
  /\ stopper = "work" /\ stopper' = "stop"
  /\ UNCHANGED <<embedded, server, starter, errChan, mutex, operational, loop, toStop,
                 ownFailure, fatal>>

EmbeddedStop(who) ==
  /\ embedded /\ Caller(who, "stop") /\ mutex = "free"
  /\ IF operational
     THEN mutex' = who /\ toStop' = services /\ CallerGoes(who, "stopping")
     ELSE UNCHANGED <<mutex, toStop>> /\ CallerGoes(who, IF who = "loop" THEN "select" ELSE "over")
  /\ UNCHANGED <<embedded, server, starter, errChan, operational, ownFailure, fatal>>

\* The mutex is given back only here, after the clients are closed.
EmbeddedStopped(who) ==
  /\ embedded /\ Caller(who, "stopping") /\ toStop = {}
  /\ operational' = FALSE /\ mutex' = "free"
  /\ CallerGoes(who, IF who = "loop" THEN "select" ELSE "over")
  /\ UNCHANGED <<embedded, server, starter, errChan, toStop, ownFailure, fatal>>
-----------------------------------------------------------------------------
(* The loop *)

Signal ==
  /\ loop = "select"
  /\ IF embedded THEN loop' = "stop" /\ UNCHANGED toStop
                 ELSE loop' = "stopping" /\ toStop' = services
  /\ UNCHANGED <<embedded, server, starter, errChan, mutex, operational, stopper, ownFailure,
                 fatal>>

\* The flag is read without the mutex.
handleStartError_NoLock(e) ==
  /\ fatal' = (fatal \/ (operational /\ e.err # "nil"))
  /\ UNCHANGED <<mutex, loop>>

\* The error stops the server, with a mutex that Stop takes too.
handleStartError_Stop(e) ==
  /\ mutex = "free"
  /\ IF operational /\ e.err # "nil" THEN mutex' = "loop" /\ loop' = "stop"
                                     ELSE UNCHANGED <<mutex, loop>>
  /\ UNCHANGED fatal

\* It cannot go on while Stop has the mutex.
handleStartError(e) ==
  /\ mutex = "free"
  /\ fatal' = (fatal \/ (operational /\ e.err # "nil"))
  /\ UNCHANGED <<mutex, loop>>

\* A result of Start: the embedded server goes on, the other stops.
TakeError ==
  /\ loop = "select"
  /\ \E e \in errChan :
       /\ errChan' = errChan \ {e}
       /\ IF embedded THEN handleStartError(e) /\ UNCHANGED toStop
          ELSE loop' = "stopping" /\ toStop' = services /\ UNCHANGED <<mutex, fatal>>
  /\ UNCHANGED <<embedded, server, starter, operational, stopper, ownFailure>>

\* runFromCLI returns.
Exit ==
  /\ ~embedded /\ loop = "stopping" /\ toStop = {}
  /\ loop' = "over"
  /\ UNCHANGED <<embedded, server, starter, errChan, mutex, operational, stopper, toStop,
                 ownFailure, fatal>>
-----------------------------------------------------------------------------
\* A request is taken while the connector serves.
Accept(h) == server["connector"] = "serving" /\ StartQuery(h) /\ UNCHANGED servicesVars

Work(h) == HandlerStep(h) /\ UNCHANGED servicesVars

StopSteps ==
  \/ \E s \in services : BeginStop(s) /\ UNCHANGED observationVars
  \/ StopConnector \/ StopMetrics \/ StopObservation

\* The goroutines: one for every Start, the loop, and the test.
Starts(s) == Serve(s) \/ ServeReturns(s)
Stops(who) == EmbeddedStop(who) \/ EmbeddedStopped(who)
Loops == Stops("loop") \/ TakeError \/ Exit

ServicesNext ==
  /\ ~fatal
  /\ \/ \E h \in Handlers : Accept(h) \/ Work(h)
     \/ StopSteps
     \/ /\ (\E s \in services : Starts(s) \/ ServeFails(s)) \/ Loops \/ Stops("test")
           \/ CallStop \/ Signal
        /\ UNCHANGED observationVars

\* Goroutines that can run do run; nobody has to send a signal, to call Stop or to fail.
Only(A) == ~fatal /\ A /\ UNCHANGED observationVars
lifeVars == <<servicesVars, observationVars>>

ServicesFairness ==
  /\ \A h \in Handlers : WF_lifeVars(~fatal /\ Work(h))
  /\ WF_lifeVars(~fatal /\ StopSteps)
  /\ WF_lifeVars(Only(\E s \in services : Starts(s)))
  /\ WF_lifeVars(Only(Loops)) /\ WF_lifeVars(Only(Stops("test")))
-----------------------------------------------------------------------------
(* Properties *)

\* A test that stops its embedded server is not killed by it: the servers report
\* their shutdown as an error, and Fatal is called only after a server has failed by
\* itself.
StopIsNotFatal == fatal => ownFailure

\* When launcher.Stop has returned, no server takes requests and no request is at
\* work, and the storage of the observation service is closed.
StopDrains ==
  (~embedded /\ loop = "over") \/ (embedded /\ ~operational) =>
    /\ \A s \in services : server[s] = "stopped"
    /\ \A h \in Handlers : ~Active(h)
    /\ "observation" \in services => ~storageOpen

\* A Stop that is called, by the test or after a signal, comes to its end.
StopEnds ==
  /\ stopper = "stop" ~> (stopper = "over" \/ fatal)
  /\ loop \in {"stop", "stopping"} ~> (loop \in {"select", "over"} \/ fatal)
=============================================================================
