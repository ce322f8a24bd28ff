--------------------------- MODULE ServicesProofs ----------------------------
(* The stop of the process, and the storage of queries, for any services, requests *)
(* and failures; and the listings of the stored queries, page by page, for any     *)
(* number of requests, queries and pages.                                          *)
EXTENDS Server, Integers, TLAPS

Closing == {"stopping", "stopped"}

\* A stop of the embedded server holds the mutex, and until it is over the server is
\* operational; the servers close only in between.
LifeInv ==
  /\ embedded \/ ~fatal
  /\ embedded /\ mutex = "free" => toStop = {}
  /\ embedded /\ mutex = "free" /\ operational =>
       \A s \in services : server[s] \notin Closing
  /\ \A e \in errChan :
       \/ e.err = "nil"
       \/ e.err = "failed" /\ ownFailure
       \/ e.err = "closed" /\ \E s \in services : server[s] \in Closing
  /\ fatal => ownFailure

\* What the steps other than those of the embedded stop do.
LEMMA LifeKept ==
  ASSUME LifeInv, UNCHANGED <<embedded, mutex, operational, toStop, fatal>>,
         services' = services,
         \A s \in services : server'[s] \in Closing <=> server[s] \in Closing,
         ownFailure => ownFailure',
         \A e \in errChan' : \/ e \in errChan
                             \/ e.err = "nil"
                             \/ e.err = "failed" /\ ownFailure'
                             \/ e.err = "closed" /\ \E s \in services : server[s] \in Closing
  PROVE  LifeInv'
  BY DEF LifeInv

\* No server is closing at the start.
LEMMA LifeInit == ServicesInit => LifeInv
  BY DEF ServicesInit, LifeInv, services, Closing

\* Every step keeps the closing of servers inside of a stop.
LEMMA LifeStep == LifeInv /\ [ServicesNext]_lifeVars => LifeInv'
<1> SUFFICES ASSUME LifeInv, [ServicesNext]_lifeVars PROVE LifeInv'
  OBVIOUS
<1>1. CASE UNCHANGED servicesVars
  BY <1>1 DEF servicesVars, LifeInv, services
<1>2. ASSUME NEW s \in services, Serve(s) PROVE LifeInv'
  <2>1. /\ UNCHANGED <<embedded, mutex, operational, toStop, fatal>>
        /\ services' = services /\ (ownFailure => ownFailure')
        /\ \A x \in services : server'[x] \in Closing <=> server[x] \in Closing
    BY <1>2 DEF Serve, Report, services, Closing
  <2>2. \A e \in errChan' : \/ e \in errChan
                            \/ e.err = "failed" /\ ownFailure'
                            \/ e.err = "closed" /\ server[s] \in Closing
    BY <1>2 DEF Serve, Report, Closing
  <2> QED
    BY <1>2, <2>1, <2>2, LifeKept
<1>3. ASSUME NEW s \in services, ServeFails(s) \/ ServeReturns(s) PROVE LifeInv'
  <2>1. /\ UNCHANGED <<embedded, mutex, operational, toStop, fatal, server>>
        /\ ownFailure => ownFailure'
    BY <1>3 DEF ServeFails, ServeReturns
  <2>2. \A e \in errChan' : \/ e \in errChan \/ e.err = "nil"
                            \/ e.err = "failed" /\ ownFailure'
                            \/ e.err = "closed" /\ server[s] \in Closing
    BY <1>3 DEF ServeFails, ServeReturns, Report, Closing
  <2> QED
    BY <1>3, <2>1, <2>2, LifeKept DEF services
<1>4. ASSUME NEW s \in services, BeginStop(s) PROVE LifeInv'
  BY <1>4 DEF BeginStop, LifeInv, services, Closing
<1>5. CASE StopConnector \/ StopMetrics \/ StopObservation
  <2>1. PICK s : /\ server[s] = "stopping"
                 /\ server' = [server EXCEPT ![s] = "stopped"] /\ toStop' = toStop \ {s}
                 /\ UNCHANGED <<embedded, errChan, mutex, operational, ownFailure, fatal>>
    BY <1>5 DEF StopConnector, StopMetrics, StopObservation
  <2> QED
    BY <2>1 DEF LifeInv, services, Closing
<1>6. ASSUME NEW who \in {"loop", "test"}, EmbeddedStop(who) PROVE LifeInv'
  BY <1>6 DEF EmbeddedStop, LifeInv, services
<1>7. ASSUME NEW who \in {"loop", "test"}, EmbeddedStopped(who) PROVE LifeInv'
  BY <1>7 DEF EmbeddedStopped, LifeInv, services
<1>8. CASE TakeError
  <2>1. PICK e \in errChan :
          /\ errChan' = errChan \ {e}
          /\ IF embedded THEN handleStartError(e) /\ UNCHANGED toStop
             ELSE loop' = "stopping" /\ toStop' = services /\ UNCHANGED <<mutex, fatal>>
          /\ UNCHANGED <<embedded, server, operational, ownFailure>>
    BY <1>8 DEF TakeError
  <2>2. CASE embedded
    BY <2>1, <2>2, Zenon DEF handleStartError, LifeInv, services
  <2>3. CASE ~embedded
    BY <2>1, <2>3 DEF LifeInv, services
  <2> QED
    BY <2>2, <2>3
<1>9. CASE Exit \/ CallStop
  BY <1>9 DEF Exit, CallStop, LifeInv, services
<1>10. CASE Signal
  BY <1>10 DEF Signal, LifeInv, services
<1> QED
  BY <1>1, <1>2, <1>3, <1>4, <1>5, <1>6, <1>7, <1>8, <1>9, <1>10
  DEF ServicesNext, lifeVars, Accept, Work, StopSteps, Starts, Stops, Loops

\* handleStartError calls Fatal only for a server that failed by itself: what the other
\* servers report when Stop closes them is looked at when Stop has given the mutex back,
\* and the server is not operational by then.
THEOREM StopIsSafe == ServerSpec => []StopIsNotFatal
<1>1. LifeInv => StopIsNotFatal
  BY DEF LifeInv, StopIsNotFatal
<1> QED
  BY <1>1, LifeInit, LifeStep, PTL DEF ServerSpec, ServerInit
-----------------------------------------------------------------------------
AllBut(open) == \A s \in services : s \notin open => server[s] = "stopped"

\* Stop is at work on toStop and has stopped the others; when it is over, nothing is
\* left.  Only one stop is at work: of the process, or of whoever has the mutex.
StopProgress ==
  /\ "connector" \in services
  /\ ~embedded /\ loop = "stopping" => AllBut(toStop)
  /\ ~embedded /\ loop = "over" => AllBut({}) /\ toStop = {}
  /\ embedded /\ mutex # "free" => AllBut(toStop) /\ operational
  /\ embedded /\ mutex = "free" => toStop = {}
  /\ embedded /\ ~operational => AllBut({})
  /\ embedded /\ loop = "stopping" => mutex = "loop"
  /\ embedded /\ stopper = "stopping" => mutex = "test"

\* What the stop of a server waits for, or does, stays.
Quiet ==
  /\ DOMAIN handler = Handlers
  /\ server["connector"] = "stopped" => \A h \in Handlers : ~Active(h)
  /\ "observation" \in services /\ server["observation"] = "stopped" => ~storageOpen

\* No stop has begun.
LEMMA DrainInit == ObservationInit /\ ServicesInit => StopProgress /\ Quiet
  BY DEF ObservationInit, ServicesInit, StopProgress, Quiet, AllBut, services

\* A step that stops no server and neither begins nor ends a stop.
LEMMA ProgressKept ==
  ASSUME StopProgress, UNCHANGED <<embedded, mutex, operational, toStop>>, services' = services,
         loop' = loop \/ (loop' # "stopping" /\ loop' # "over"),
         stopper' = stopper \/ stopper' # "stopping",
         \A s \in services : server[s] = "stopped" /\ s \notin toStop => server'[s] = "stopped"
  PROVE  StopProgress'
<1>1. AllBut(toStop) => AllBut(toStop)'
  BY DEF AllBut
<1>2. toStop = {} /\ AllBut({}) => AllBut({})'
  BY DEF AllBut
<1> QED
  BY <1>1, <1>2 DEF StopProgress

\* Every step keeps what the stop has done.
LEMMA ProgressStep == StopProgress /\ [ServicesNext]_lifeVars => StopProgress'
<1> SUFFICES ASSUME StopProgress, [ServicesNext]_lifeVars PROVE StopProgress'
  OBVIOUS
<1>1. CASE UNCHANGED servicesVars
  BY <1>1, ProgressKept DEF servicesVars, services
<1>2. ASSUME NEW s \in services, Serve(s) \/ ServeFails(s) \/ ServeReturns(s) PROVE StopProgress'
  <2>1. /\ UNCHANGED <<embedded, mutex, operational, toStop, loop, stopper>>
        /\ services' = services
        /\ \A x \in services : server[x] = "stopped" => server'[x] = "stopped"
    BY <1>2 DEF Serve, ServeFails, ServeReturns, Report, services
  <2> QED
    BY <2>1, ProgressKept
<1>3. ASSUME NEW s \in services, BeginStop(s) PROVE StopProgress'
  <2>1. /\ UNCHANGED <<embedded, mutex, operational, toStop, loop, stopper>>
        /\ services' = services
        /\ \A x \in services : server[x] = "stopped" /\ x \notin toStop => server'[x] = "stopped"
    BY <1>3 DEF BeginStop, services
  <2> QED
    BY <2>1, ProgressKept
<1>4. CASE StopConnector \/ StopMetrics \/ StopObservation
  <2>1. PICK s : /\ s \in services
                 /\ server' = [server EXCEPT ![s] = "stopped"] /\ toStop' = toStop \ {s}
                 /\ UNCHANGED <<embedded, mutex, operational, loop, stopper>>
    BY <1>4 DEF StopConnector, StopMetrics, StopObservation, StopProgress
  <2>2. services' = services
    BY <2>1 DEF services
  <2>3. AllBut(toStop) => AllBut(toStop)'
    BY <2>1, <2>2 DEF AllBut, services
  <2>4. AllBut({}) => AllBut({})'
    BY <2>1, <2>2 DEF AllBut, services
  <2> QED
    BY <2>1, <2>2, <2>3, <2>4 DEF StopProgress
<1>5. ASSUME NEW who \in {"loop", "test"}, EmbeddedStop(who) PROVE StopProgress'
  <2>1. embedded /\ mutex = "free" /\ UNCHANGED <<embedded, server, operational>> /\ services' = services
    BY <1>5 DEF EmbeddedStop, services
  <2>2. CASE operational
    <3>1. /\ mutex' = who /\ toStop' = services
          /\ \/ who = "loop" /\ loop' = "stopping" /\ stopper' = stopper
             \/ who = "test" /\ stopper' = "stopping" /\ loop' = loop
      BY <1>5, <2>2 DEF EmbeddedStop, CallerGoes
    <3>2. AllBut(toStop)'
      BY <2>1, <3>1 DEF AllBut
    <3> QED
      BY <2>1, <2>2, <3>1, <3>2 DEF StopProgress
  <2>3. CASE ~operational
    <3>1. /\ UNCHANGED <<mutex, toStop>>
          /\ \/ loop' = "select" /\ stopper' = stopper
             \/ stopper' = "over" /\ loop' = loop
      BY <1>5, <2>3 DEF EmbeddedStop, CallerGoes
    <3> QED
      BY <2>1, <3>1, ProgressKept
  <2> QED
    BY <2>2, <2>3
<1>6. ASSUME NEW who \in {"loop", "test"}, EmbeddedStopped(who) PROVE StopProgress'
  <2>1. /\ embedded /\ mutex = who /\ toStop = {} /\ operational' = FALSE /\ mutex' = "free"
        /\ UNCHANGED <<embedded, server, toStop>>
        /\ \/ who = "loop" /\ loop' = "select" /\ stopper' = stopper
           \/ who = "test" /\ stopper' = "over" /\ loop' = loop
    BY <1>6 DEF EmbeddedStopped, Caller, CallerGoes, StopProgress
  <2>2. AllBut({}) /\ AllBut({})'
    BY <2>1 DEF StopProgress, AllBut, services
  <2> QED
    BY <2>1, <2>2 DEF StopProgress, services
<1>7. CASE TakeError \/ Signal
  <2>1. loop = "select" /\ UNCHANGED <<embedded, server, operational, stopper>> /\ services' = services
    BY <1>7 DEF TakeError, Signal, services
  <2>2. CASE UNCHANGED <<mutex, toStop>> /\ (loop' = loop \/ loop' = "stop")
    BY <2>1, <2>2, ProgressKept
  <2>3. CASE ~embedded /\ loop' = "stopping" /\ toStop' = services
    <3>1. AllBut(toStop)'
      BY <2>1, <2>3 DEF AllBut
    <3> QED
      BY <2>1, <2>3, <3>1 DEF StopProgress
  <2> QED
    BY <1>7, <2>2, <2>3 DEF TakeError, Signal, handleStartError
<1>8. CASE CallStop
  BY <1>8, ProgressKept DEF CallStop, services
<1>9. CASE Exit
  <2>1. /\ ~embedded /\ loop = "stopping" /\ toStop = {} /\ loop' = "over"
        /\ UNCHANGED <<embedded, server, mutex, operational, stopper, toStop>>
    BY <1>9 DEF Exit
  <2>2. AllBut({}) /\ AllBut({})'
    BY <2>1 DEF StopProgress, AllBut, services
  <2> QED
    BY <2>1, <2>2 DEF StopProgress, services
<1> QED
  BY <1>1, <1>2, <1>3, <1>4, <1>5, <1>6, <1>7, <1>8, <1>9
  DEF ServicesNext, lifeVars, Accept, Work, StopSteps, Starts, Stops, Loops

\* A request that has ended does not come back by itself.
LEMMA RequestsEnd ==
  ASSUME Quiet, NEW h \in Handlers, HandlerStep(h)
  PROVE  /\ DOMAIN handler' = Handlers /\ storageOpen' = storageOpen
         /\ \A x \in Handlers : Active(x)' => Active(x)
<1>1. Active(h) /\ storageOpen' = storageOpen
  BY Zenon DEF HandlerStep, CreateIncomingQuery, ReturnEarly, BeginTx, InsertOutgoing, CommitTx, EndOutgoingQuery,
         EndIncomingQuery, Active
<1>2. \E r : handler' = [handler EXCEPT ![h] = r]
  BY DEF HandlerStep, CreateIncomingQuery, ReturnEarly, BeginTx, InsertOutgoing, CommitTx, EndOutgoingQuery,
         EndIncomingQuery, Goes, Returns
<1> QED
  BY <1>1, <1>2, SMTT(60) DEF Quiet, Active

\* A step that ends the stop of no server, and no step of a request.
LEMMA StaysQuiet ==
  ASSUME StopProgress, Quiet, UNCHANGED observationVars,
         \A s \in services : server'[s] = "stopped" => server[s] = "stopped",
         services' = services
  PROVE  Quiet'
  BY DEF StopProgress, Quiet, observationVars, Active

\* Every step keeps the requests and the storage at rest.
LEMMA QuietStep == StopProgress /\ Quiet /\ [ServicesNext]_lifeVars => Quiet'
<1> SUFFICES ASSUME StopProgress, Quiet, [ServicesNext]_lifeVars PROVE Quiet'
  OBVIOUS
<1>1. ASSUME NEW h \in Handlers, Accept(h) PROVE Quiet'
  <2>1. /\ server["connector"] = "serving" /\ UNCHANGED <<server, storageOpen>>
        /\ DOMAIN handler' = DOMAIN handler
    BY <1>1 DEF Accept, StartQuery, servicesVars
  <2> QED
    BY <2>1 DEF Quiet, services
<1>2. ASSUME NEW h \in Handlers, Work(h) PROVE Quiet'
  <2>1. server' = server /\ HandlerStep(h)
    BY <1>2 DEF Work, servicesVars
  <2> QED
    BY <2>1, RequestsEnd DEF Quiet, services
<1>3. CASE StopConnector
  <2>1. /\ server' = [server EXCEPT !["connector"] = "stopped"] /\ UNCHANGED <<handler, storageOpen>>
        /\ \A h \in Handlers : ~Active(h)
    BY <1>3 DEF StopConnector, observationVars
  <2> QED
    BY <2>1 DEF Quiet, services, Active
<1>4. CASE StopMetrics
  <2>1. server' = [server EXCEPT !["metrics"] = "stopped"] /\ UNCHANGED <<handler, storageOpen>>
    BY <1>4 DEF StopMetrics, observationVars
  <2> QED
    BY <2>1 DEF StopProgress, Quiet, services, Active
<1>5. CASE StopObservation
  <2>1. /\ server' = [server EXCEPT !["observation"] = "stopped"] /\ handler' = handler
        /\ storageOpen' = FALSE
    BY <1>5 DEF StopObservation, CloseStorage
  <2> QED
    BY <2>1 DEF StopProgress, Quiet, services, Active
<1>6. CASE /\ UNCHANGED observationVars /\ services' = services
           /\ \A s \in services : server'[s] = "stopped" => server[s] = "stopped"
  BY <1>6, StaysQuiet
<1>7. ASSUME NEW s \in services, UNCHANGED observationVars,
             BeginStop(s) \/ Starts(s) \/ ServeFails(s)
      PROVE  Quiet'
  <2>1. \/ server' = server
        \/ \E x \in {"serving", "stopping"} : server' = [server EXCEPT ![s] = x]
    BY <1>7 DEF BeginStop, Starts, Serve, ServeReturns, ServeFails
  <2> QED
    BY <1>6, <1>7, <2>1 DEF services
<1>8. CASE /\ Loops \/ Stops("test") \/ CallStop \/ Signal
           /\ UNCHANGED observationVars
  <2>1. server' = server
    BY <1>8 DEF Loops, Stops, EmbeddedStop, EmbeddedStopped, TakeError, Exit, CallStop, Signal
  <2> QED
    BY <1>6, <1>8, <2>1 DEF services
<1>9. CASE UNCHANGED lifeVars
  BY <1>6, <1>9 DEF lifeVars, servicesVars, services
<1> QED
  BY <1>1, <1>2, <1>3, <1>4, <1>5, <1>7, <1>8, <1>9 DEF ServicesNext, StopSteps

\* launcher.Stop returns after every server has stopped, no request of the connector is
\* at work, and the storage is closed, in whichever order the services are stopped and
\* whoever calls Stop.
THEOREM StopLeavesNothing == ServerSpec => []StopDrains
<1>1. StopProgress /\ Quiet => StopDrains
  BY DEF StopProgress, Quiet, AllBut, StopDrains
<1> QED
  BY <1>1, DrainInit, ProgressStep, QuietStep, PTL DEF ServerSpec, ServerInit
-----------------------------------------------------------------------------
(* The storage.                                                                    *)

Recorded == {"begin", "insert", "commit", "end out", "end in"}
Requests == [pc : {"idle", "create"} \cup Recorded, created : Nat, in : Nat, out : Nat]
States == {"running", "finished", "canceled"}
IncomingQueries == [created : Nat, state : States]
OutgoingQueries == [in : Nat, text : Texts, rows : Nat, state : States]

StorageType ==
  /\ handler \in [Handlers -> Requests] /\ clock \in Nat
  /\ incoming \in Seq(IncomingQueries)
  /\ outgoing \in Seq(OutgoingQueries)

\* A request points to its own records.
Linked ==
  \A h \in Handlers :
    /\ handler[h].pc = "create" => handler[h].in = 0
    /\ handler[h].pc \in Recorded => handler[h].in \in DOMAIN incoming
    /\ handler[h].pc = "end out" => /\ handler[h].out \in DOMAIN outgoing
                                    /\ outgoing[handler[h].out].in = handler[h].in

\* The inductive invariant of the storage.
StorageInv == StorageType /\ Linked /\ ConnectionComesBack /\ RunningHasHandler

\* The storage is opened empty, and the connection is free.
LEMMA StorageInit == ObservationInit => StorageInv
<1> SUFFICES ASSUME ObservationInit PROVE StorageInv
  OBVIOUS
<1>a. Idle \in Requests /\ Idle.pc = "idle"
  BY DEF Idle, Requests
<1>b. StorageType
  BY <1>a DEF ObservationInit, StorageType
<1>1. StorageType /\ Linked
  BY <1>a, <1>b DEF ObservationInit, Linked, Recorded
<1>2. ConnectionComesBack
  BY ObservationAssumption DEF ObservationAssumption, ObservationInit, ConnectionComesBack
<1>3. RunningHasHandler
  BY DEF ObservationInit, RunningHasHandler
<1> QED
  BY <1>1, <1>2, <1>3 DEF StorageInv

\* A record of a table is replaced.
LEMMA Replaced ==
  ASSUME NEW S, NEW q \in Seq(S), NEW i \in DOMAIN q, NEW e \in S
  PROVE  [q EXCEPT ![i] = e] \in Seq(S) /\ q[i] \in S
  OBVIOUS

\* A record is added to a table.
LEMMA Added ==
  ASSUME NEW S, NEW q \in Seq(S), NEW e \in S
  PROVE  /\ Append(q, e) \in Seq(S) /\ DOMAIN Append(q, e) = DOMAIN q \cup {Len(Append(q, e))}
         /\ Len(Append(q, e)) \in Nat \ DOMAIN q
         /\ Append(q, e)[Len(Append(q, e))] = e
         /\ \A i \in DOMAIN q : Append(q, e)[i] = q[i]
  OBVIOUS

\* What the records are after a step of a request.
LEMMA StorageTyped ==
  ASSUME StorageType, Linked, NEW h \in Handlers, StartQuery(h) \/ HandlerStep(h)
  PROVE  StorageType'
<1>1. CASE StartQuery(h)
  <2>1. [Idle EXCEPT !.pc = "create", !.created = clock] \in Requests
    BY Zenon DEF Idle, Requests, StorageType
  <2> QED
    BY <1>1, <2>1 DEF StartQuery, StorageType
<1>2. CASE CreateIncomingQuery(h)
  <2>1. CASE UNCHANGED <<incoming>> /\ Returns(h)
    BY <1>2, <2>1, Zenon DEF CreateIncomingQuery, Returns, Idle, StorageType, Requests, Recorded
  <2>2. CASE /\ incoming' = Append(incoming, [created |-> handler[h].created, state |-> "running"])
             /\ handler' = [handler EXCEPT ![h].pc = "begin", ![h].in = Len(incoming')]
    <3>1. incoming' \in Seq(IncomingQueries) /\ Len(incoming') \in Nat
      BY <2>2 DEF StorageType, Requests, IncomingQueries, OutgoingQueries, States
    <3>2. handler[h] \in Requests
      BY Zenon DEF StorageType
    <3>3. [handler[h] EXCEPT !.pc = "begin", !.in = Len(incoming')] \in Requests
      BY <3>1, <3>2, Zenon DEF Requests, Recorded
    <3>4. handler' \in [Handlers -> Requests]
      <4> HIDE DEF Requests
      <4> QED
        BY <2>2, <3>3 DEF StorageType
    <3>5. UNCHANGED <<clock, outgoing>>
      BY <1>2, Zenon DEF CreateIncomingQuery
    <3> QED
      BY <3>1, <3>4, <3>5, Zenon DEF StorageType
  <2> QED
    BY <1>2, <2>1, <2>2 DEF CreateIncomingQuery
<1>3. CASE BeginTx(h) \/ InsertOutgoing(h)
  <2>1. /\ UNCHANGED <<incoming, outgoing, clock>>
        /\ \E x \in Recorded : handler' = [handler EXCEPT ![h].pc = x]
    BY <1>3 DEF BeginTx, InsertOutgoing, Goes, Recorded
  <2> QED
    BY <2>1, Zenon DEF StorageType, Requests
<1>4. CASE CommitTx(h)
  <2>1. CASE UNCHANGED outgoing /\ Goes(h, "end in")
    BY <1>4, <2>1, Zenon DEF CommitTx, Goes, StorageType, Requests, Recorded
  <2>2. ASSUME NEW t \in Texts,
               outgoing' = Append(outgoing, [in |-> handler[h].in, text |-> t, rows |-> 0,
                                             state |-> "running"]),
               handler' = [handler EXCEPT ![h].pc = "end out", ![h].out = Len(outgoing')]
        PROVE  StorageType'
    <3>a. [in |-> handler[h].in, text |-> t, rows |-> 0, state |-> "running"] \in OutgoingQueries
      BY DEF StorageType, Requests, OutgoingQueries, States
    <3>1. /\ outgoing' \in Seq(OutgoingQueries)
          /\ Len(outgoing') \in Nat
      BY <2>2, <3>a, Added, Zenon DEF StorageType
    <3> QED
      <4>1. handler' \in [Handlers -> Requests]
        BY <2>2, <3>1, Zenon DEF StorageType, Requests, Recorded
      <4> QED
        BY <1>4, <3>1, <4>1 DEF CommitTx, StorageType
  <2> QED
    BY <1>4, <2>1, <2>2 DEF CommitTx
<1>5. CASE EndOutgoingQuery(h)
  <2>1. handler' \in [Handlers -> Requests] /\ UNCHANGED <<incoming, clock>>
    BY <1>5, Zenon DEF EndOutgoingQuery, Goes, StorageType, Requests, Recorded
  <2>2. outgoing' \in Seq(OutgoingQueries)
    <3>a. handler[h].out \in DOMAIN outgoing
      BY <1>5 DEF EndOutgoingQuery, Linked
    <3>1. CASE outgoing' = outgoing
      BY <3>1 DEF StorageType
    <3>2. ASSUME NEW rows \in 1 .. 2,
                 outgoing' = [outgoing EXCEPT ![handler[h].out].state = "finished",
                                              ![handler[h].out].rows = rows]
          PROVE  outgoing' \in Seq(OutgoingQueries)
      <4> DEFINE e == [outgoing[handler[h].out] EXCEPT !.state = "finished", !.rows = rows]
      <4>1. e \in OutgoingQueries
        <5>1. outgoing[handler[h].out] \in OutgoingQueries
          BY <3>a, Replaced DEF StorageType
        <5>2. rows \in Nat
          OBVIOUS
        <5> QED
          BY <5>1, <5>2, Zenon DEF OutgoingQueries, States
      <4>2. outgoing' = [outgoing EXCEPT ![handler[h].out] = e]
        BY <3>2, Zenon
      <4> QED
        BY <3>a, <4>1, <4>2, Replaced DEF StorageType
    <3>3. ASSUME outgoing' = [outgoing EXCEPT ![handler[h].out].state = "canceled"]
          PROVE  outgoing' \in Seq(OutgoingQueries)
      <4> DEFINE e == [outgoing[handler[h].out] EXCEPT !.state = "canceled"]
      <4>1. e \in OutgoingQueries
        <5>1. outgoing[handler[h].out] \in OutgoingQueries
          BY <3>a, Replaced DEF StorageType
        <5> QED
          BY <5>1 DEF OutgoingQueries, States
      <4>2. outgoing' = [outgoing EXCEPT ![handler[h].out] = e]
        BY <3>3
      <4> QED
        BY <3>a, <4>1, <4>2, Replaced DEF StorageType
    <3> QED
      BY <1>5, <3>1, <3>2, <3>3, Zenon DEF EndOutgoingQuery
  <2> QED
    BY <2>1, <2>2 DEF StorageType
<1>6. CASE EndIncomingQuery(h)
  <2>1. handler' \in [Handlers -> Requests] /\ UNCHANGED <<outgoing, clock>>
    BY <1>6, Zenon DEF EndIncomingQuery, Returns, Idle, StorageType, Requests, Recorded
  <2>2. incoming' \in Seq(IncomingQueries)
    <3>a. handler[h].in \in DOMAIN incoming
      BY <1>6 DEF EndIncomingQuery, Linked, Recorded
    <3>1. CASE incoming' = incoming
      BY <3>1 DEF StorageType
    <3>2. ASSUME NEW x \in {"finished", "canceled"},
                 incoming' = [incoming EXCEPT ![handler[h].in].state = x]
          PROVE  incoming' \in Seq(IncomingQueries)
      <4> DEFINE e == [incoming[handler[h].in] EXCEPT !.state = x]
      <4>1. e \in IncomingQueries
        <5>1. incoming[handler[h].in] \in IncomingQueries
          BY <3>a, Replaced DEF StorageType
        <5> QED
          BY <5>1 DEF IncomingQueries, States
      <4>2. incoming' = [incoming EXCEPT ![handler[h].in] = e]
        BY <3>2
      <4> QED
        BY <3>a, <4>1, <4>2, Replaced DEF StorageType
    <3> QED
      BY <1>6, <3>1, <3>2 DEF EndIncomingQuery
  <2> QED
    BY <2>1, <2>2 DEF StorageType
<1>7. CASE ReturnEarly(h)
  BY <1>7, Zenon DEF ReturnEarly, Returns, Idle, StorageType, Requests, Recorded
<1> QED
  BY <1>1, <1>2, <1>3, <1>4, <1>5, <1>6, <1>7 DEF HandlerStep

\* A step of a request may take the connection, and gives back only its own.
LEMMA ConnectionOfRequest ==
  ASSUME StorageType, ConnectionComesBack, NEW h \in Handlers, StartQuery(h) \/ HandlerStep(h)
  PROVE  ConnectionComesBack'
<1>1. browser' = browser /\ \A x \in Handlers \ {h} : handler'[x] = handler[x]
  BY DEF StartQuery, HandlerStep, CreateIncomingQuery, ReturnEarly, BeginTx, InsertOutgoing, CommitTx,
         EndOutgoingQuery, EndIncomingQuery, Goes, Returns, StorageType
<1>2. \/ connection' = "free"
      \/ connection' = connection /\ handler[h].pc \notin {"insert", "commit"}
      \/ connection' = h /\ handler'[h].pc = "insert"
      \/ connection' = connection /\ handler'[h].pc = "commit"
  <2>1. CASE StartQuery(h) \/ CreateIncomingQuery(h) \/ ReturnEarly(h) \/ EndOutgoingQuery(h) \/ EndIncomingQuery(h)
    BY <2>1 DEF StartQuery, CreateIncomingQuery, ReturnEarly, EndOutgoingQuery, EndIncomingQuery
  <2>2. CASE BeginTx(h) \/ InsertOutgoing(h) \/ CommitTx(h)
    BY <2>2, Zenon DEF BeginTx, InsertOutgoing, CommitTx, Goes, StorageType, Requests
  <2> QED
    BY <2>1, <2>2, SMTT(60) DEF HandlerStep
<1> QED
  BY <1>1, <1>2, ObservationAssumption, Zenon DEF ObservationAssumption, ConnectionComesBack

\* What a step of a request leaves alone.
Alone(h) ==
  /\ \A x \in Handlers \ {h} : handler'[x] = handler[x]
  /\ DOMAIN incoming \subseteq DOMAIN incoming' /\ DOMAIN outgoing \subseteq DOMAIN outgoing'
  /\ \A i \in DOMAIN outgoing : outgoing'[i].in = outgoing[i].in
  /\ leftRunning \subseteq leftRunning'

\* The records of the other requests stay, and those of this one are what its step makes
\* of them.
LEMMA LinkedKept ==
  ASSUME Linked, NEW h \in Handlers, Alone(h),
         handler'[h].pc = "create" => handler'[h].in = 0,
         handler'[h].pc \in Recorded => handler'[h].in \in DOMAIN incoming',
         handler'[h].pc = "end out" => /\ handler'[h].out \in DOMAIN outgoing'
                                       /\ outgoing'[handler'[h].out].in = handler'[h].in
  PROVE  Linked'
<1> SUFFICES ASSUME NEW x \in Handlers
             PROVE  /\ handler'[x].pc = "create" => handler'[x].in = 0
                    /\ handler'[x].pc \in Recorded => handler'[x].in \in DOMAIN incoming'
                    /\ handler'[x].pc = "end out" => /\ handler'[x].out \in DOMAIN outgoing'
                                                     /\ outgoing'[handler'[x].out].in = handler'[x].in
  BY DEF Linked
<1>1. CASE x = h
  BY <1>1
<1>2. CASE x # h
  <2>1. handler'[x] = handler[x]
    BY <1>2 DEF Alone
  <2>2. /\ handler[x].pc = "create" => handler[x].in = 0
        /\ handler[x].pc \in Recorded => handler[x].in \in DOMAIN incoming'
    BY DEF Linked, Alone
  <2>3. ASSUME handler[x].pc = "end out"
        PROVE  /\ handler[x].out \in DOMAIN outgoing'
               /\ outgoing'[handler[x].out].in = handler[x].in
    BY <2>3 DEF Linked, Alone
  <2> QED
    BY <2>1, <2>2, <2>3
<1> QED
  BY <1>1, <1>2

IncomingAttended ==
  \A i \in DOMAIN incoming : incoming[i].state = "running" =>
    i \in leftRunning \/ \E h \in Handlers : Active(h) /\ handler[h].in = i
OutgoingAttended ==
  \A i \in DOMAIN outgoing : outgoing[i].state = "running" =>
    outgoing[i].in \in leftRunning
    \/ \E h \in Handlers : handler[h].pc = "end out" /\ handler[h].out = i

\* The two parts of RunningHasHandler.
LEMMA Attended == (RunningHasHandler <=> IncomingAttended /\ OutgoingAttended)
  BY DEF RunningHasHandler, IncomingAttended, OutgoingAttended

\* An incoming query that is running was running before, with a request that goes on
\* with it, or is that of this step.
LEMMA IncomingKept ==
  ASSUME IncomingAttended, NEW h \in Handlers, Alone(h),
         \A i \in DOMAIN incoming' : incoming'[i].state = "running" =>
           \/ Active(h)' /\ handler'[h].in = i
           \/ i \in leftRunning'
           \/ i \in DOMAIN incoming /\ incoming[i].state = "running" /\ ~(Active(h) /\ handler[h].in = i)
  PROVE  IncomingAttended'
<1> SUFFICES ASSUME NEW i \in DOMAIN incoming', incoming'[i].state = "running", i \notin leftRunning'
             PROVE  \E x \in Handlers : Active(x)' /\ handler'[x].in = i
  BY DEF IncomingAttended
<1>1. CASE Active(h)' /\ handler'[h].in = i
  BY <1>1
<1>2. CASE i \in DOMAIN incoming /\ incoming[i].state = "running" /\ ~(Active(h) /\ handler[h].in = i)
  <2>1. PICK x \in Handlers : Active(x) /\ handler[x].in = i
    BY <1>2 DEF IncomingAttended, Alone
  <2>2. handler'[x] = handler[x]
    BY <1>2, <2>1 DEF Alone
  <2> QED
    BY <2>1, <2>2 DEF Active
<1> QED
  BY <1>1, <1>2

\* So for an outgoing query.
LEMMA OutgoingKept ==
  ASSUME OutgoingAttended, NEW h \in Handlers, Alone(h),
         \A i \in DOMAIN outgoing' : outgoing'[i].state = "running" =>
           \/ handler'[h].pc = "end out" /\ handler'[h].out = i
           \/ outgoing'[i].in \in leftRunning'
           \/ /\ i \in DOMAIN outgoing /\ outgoing[i].state = "running"
              /\ ~(handler[h].pc = "end out" /\ handler[h].out = i)
  PROVE  OutgoingAttended'
<1> SUFFICES ASSUME NEW i \in DOMAIN outgoing', outgoing'[i].state = "running",
                    outgoing'[i].in \notin leftRunning'
             PROVE  \E x \in Handlers : handler'[x].pc = "end out" /\ handler'[x].out = i
  BY DEF OutgoingAttended
<1>1. CASE handler'[h].pc = "end out" /\ handler'[h].out = i
  BY <1>1
<1>2. CASE /\ i \in DOMAIN outgoing /\ outgoing[i].state = "running"
           /\ ~(handler[h].pc = "end out" /\ handler[h].out = i)
  <2>1. PICK x \in Handlers : handler[x].pc = "end out" /\ handler[x].out = i
    BY <1>2 DEF OutgoingAttended, Alone
  <2>2. handler'[x] = handler[x]
    BY <1>2, <2>1 DEF Alone
  <2> QED
    BY <2>1, <2>2
<1> QED
  BY <1>1, <1>2

\* A step that changes no table, of a request that stays with its incoming query or
\* has none.
LEMMA RunningKept ==
  ASSUME RunningHasHandler, NEW h \in Handlers, Alone(h),
         UNCHANGED <<incoming, outgoing>>,
         \A i \in DOMAIN incoming : Active(h) /\ handler[h].in = i =>
           i \in leftRunning' \/ (Active(h)' /\ handler'[h].in = i),
         handler[h].pc # "end out"
  PROVE  RunningHasHandler'
<1>1. IncomingAttended'
  BY IncomingKept, Attended
<1>2. OutgoingAttended'
  BY OutgoingKept, Attended, Zenon
<1> QED
  BY <1>1, <1>2 DEF RunningHasHandler, IncomingAttended, OutgoingAttended

\* A request that starts has no records.
LEMMA StartLinks ==
  ASSUME StorageInv, NEW h \in Handlers, StartQuery(h) PROVE Linked' /\ RunningHasHandler'
<1>1. /\ handler[h].pc = "idle" /\ UNCHANGED <<incoming, outgoing, leftRunning>>
      /\ handler'[h].pc = "create" /\ handler'[h].in = 0
      /\ \A x \in Handlers \ {h} : handler'[x] = handler[x]
  BY DEF StorageInv, StorageType, StartQuery, Idle
<1>2. Alone(h)
  BY <1>1 DEF Alone
<1> QED
  BY <1>1, <1>2, LinkedKept, RunningKept DEF StorageInv, Active, Recorded

\* A new incoming query belongs to its request.
LEMMA CreateLinks ==
  ASSUME StorageInv, NEW h \in Handlers, CreateIncomingQuery(h)
  PROVE  Linked' /\ RunningHasHandler'
<1>1. handler[h].pc = "create" /\ handler[h].in = 0 /\ UNCHANGED <<outgoing, leftRunning>>
  BY DEF StorageInv, Linked, CreateIncomingQuery
<1>2. 0 \notin DOMAIN incoming
  BY DEF StorageInv, StorageType
<1>3. CASE incoming' = incoming /\ Returns(h)
  <2>1. Alone(h) /\ handler'[h].pc = "idle"
    BY <1>1, <1>3 DEF Alone, Returns, Idle, StorageInv, StorageType, Requests
  <2> QED
    BY <1>1, <1>2, <1>3, <2>1, LinkedKept, RunningKept DEF StorageInv, Recorded
<1>4. CASE /\ incoming' = Append(incoming, [created |-> handler[h].created, state |-> "running"])
           /\ handler' = [handler EXCEPT ![h].pc = "begin", ![h].in = Len(incoming')]
  <2>1. [created |-> handler[h].created, state |-> "running"] \in IncomingQueries
    BY DEF StorageInv, StorageType, Requests, IncomingQueries, States
  <2>2. /\ DOMAIN incoming' = DOMAIN incoming \cup {Len(incoming')}
        /\ \A i \in DOMAIN incoming : incoming'[i] = incoming[i]
    BY <1>4, <2>1, Added, SMTT(60) DEF StorageInv, StorageType
  <2>3. /\ \A x \in Handlers \ {h} : handler'[x] = handler[x]
        /\ handler'[h].pc = "begin" /\ handler'[h].in = Len(incoming')
    BY <1>4 DEF StorageInv, StorageType, Requests
  <2>4. Alone(h)
    BY <1>1, <2>2, <2>3, Zenon DEF Alone
  <2>5. Linked'
    BY <2>2, <2>3, <2>4, LinkedKept, Zenon DEF StorageInv
  <2>6. RunningHasHandler'
    <3>1. IncomingAttended'
      BY <1>1, <1>2, <2>2, <2>3, <2>4, IncomingKept, Attended, Zenon DEF StorageInv, Active
    <3>2. OutgoingAttended'
      BY <1>1, <2>4, OutgoingKept, Attended DEF StorageInv
    <3> QED
      BY <3>1, <3>2, Zenon DEF RunningHasHandler, IncomingAttended, OutgoingAttended
  <2> QED
    BY <2>5, <2>6
<1> QED
  BY <1>3, <1>4 DEF CreateIncomingQuery

\* A request that returns early is known to have left its query.
LEMMA ReturnLinks ==
  ASSUME StorageInv, NEW h \in Handlers, ReturnEarly(h)
  PROVE  Linked' /\ RunningHasHandler'
<1>1. /\ handler[h].pc = "begin" /\ UNCHANGED <<incoming, outgoing>>
      /\ leftRunning' = leftRunning \cup {handler[h].in}
  BY DEF ReturnEarly
<1>2. Alone(h) /\ handler'[h].pc = "idle"
  BY <1>1 DEF ReturnEarly, Alone, Returns, Idle, StorageInv, StorageType, Requests
<1> QED
  BY <1>1, <1>2, LinkedKept, RunningKept DEF StorageInv, Recorded

\* A new outgoing query belongs to its request, which keeps its incoming query.
LEMMA TxLinks ==
  ASSUME StorageInv, NEW h \in Handlers, BeginTx(h) \/ InsertOutgoing(h) \/ CommitTx(h)
  PROVE  Linked' /\ RunningHasHandler'
<1>1. handler[h].pc \in {"begin", "insert", "commit"} /\ UNCHANGED <<incoming, leftRunning>>
  BY DEF BeginTx, InsertOutgoing, CommitTx
<1>2. handler[h].in \in DOMAIN incoming
  BY <1>1 DEF StorageInv, Linked, Recorded
<1>3. ASSUME NEW pc \in {"insert", "commit", "end in"}, Goes(h, pc), outgoing' = outgoing
      PROVE  Linked' /\ RunningHasHandler'
  <2>1. Alone(h) /\ handler'[h].pc = pc /\ handler'[h].in = handler[h].in
    BY <1>1, <1>3 DEF Alone, Goes, StorageInv, StorageType, Requests
  <2> QED
    BY <1>1, <1>2, <1>3, <2>1, LinkedKept, RunningKept DEF StorageInv, Active, Recorded
<1>4. ASSUME NEW t \in Texts,
             outgoing' = Append(outgoing, [in |-> handler[h].in, text |-> t, rows |-> 0,
                                           state |-> "running"]),
             handler' = [handler EXCEPT ![h].pc = "end out", ![h].out = Len(outgoing')]
      PROVE  Linked' /\ RunningHasHandler'
  <2> DEFINE e == [in |-> handler[h].in, text |-> t, rows |-> 0, state |-> "running"]
  <2>1. e \in OutgoingQueries /\ e.in = handler[h].in
    BY DEF StorageInv, StorageType, Requests, OutgoingQueries, States
  <2>2. /\ DOMAIN outgoing' = DOMAIN outgoing \cup {Len(outgoing')}
        /\ \A i \in DOMAIN outgoing : outgoing'[i] = outgoing[i]
        /\ outgoing'[Len(outgoing')] = e
    <3>1. outgoing \in Seq(OutgoingQueries) /\ outgoing' = Append(outgoing, e)
      BY <1>4 DEF StorageInv, StorageType
    <3> HIDE DEF e
    <3> QED
      BY <2>1, <3>1, Added
  <2>3. /\ \A x \in Handlers \ {h} : handler'[x] = handler[x]
        /\ handler'[h].pc = "end out" /\ handler'[h].in = handler[h].in
        /\ handler'[h].out = Len(outgoing')
    BY <1>4, Zenon DEF StorageInv, StorageType, Requests
  <2>4. Alone(h)
    BY <1>1, <2>2, <2>3, Zenon DEF Alone
  <2>5. Linked'
    BY <1>1, <1>2, <2>1, <2>2, <2>3, <2>4, LinkedKept, Zenon DEF StorageInv
  <2>6. RunningHasHandler'
    <3>1. IncomingAttended'
      BY <1>1, <2>3, <2>4, IncomingKept, Attended, Zenon DEF StorageInv, Active
    <3>2. OutgoingAttended'
      BY <1>1, <2>2, <2>3, <2>4, OutgoingKept, Attended, Zenon DEF StorageInv
    <3> QED
      BY <3>1, <3>2 DEF RunningHasHandler, IncomingAttended, OutgoingAttended
  <2> QED
    BY <2>5, <2>6
<1> QED
  BY <1>3, <1>4 DEF BeginTx, InsertOutgoing, CommitTx

\* An outgoing query ends, or its end is not taken and its incoming query is marked.
LEMMA EndOutLinks ==
  ASSUME StorageInv, NEW h \in Handlers, EndOutgoingQuery(h)
  PROVE  Linked' /\ RunningHasHandler'
<1> DEFINE o == handler[h].out
<1>1. handler[h].pc = "end out" /\ Goes(h, "end in") /\ incoming' = incoming
  BY DEF EndOutgoingQuery
<1>2. o \in DOMAIN outgoing /\ outgoing[o].in = handler[h].in /\ handler[h].in \in DOMAIN incoming
  BY <1>1 DEF StorageInv, Linked, Recorded
<1>3. /\ \A x \in Handlers \ {h} : handler'[x] = handler[x]
      /\ handler'[h].pc = "end in" /\ handler'[h].in = handler[h].in
  BY <1>1, Zenon DEF Goes, StorageInv, StorageType, Requests
<1>4. /\ DOMAIN outgoing' = DOMAIN outgoing /\ leftRunning \subseteq leftRunning'
      /\ \A i \in DOMAIN outgoing : outgoing'[i].in = outgoing[i].in
      /\ \A i \in DOMAIN outgoing \ {o} : outgoing'[i] = outgoing[i]
      /\ outgoing'[o].state # "running" \/ outgoing[o].in \in leftRunning'
  <2>1. CASE outgoing' = outgoing /\ leftRunning' = leftRunning \cup {handler[h].in}
    BY <1>2, <2>1
  <2>2. \A i \in DOMAIN outgoing : outgoing[i] \in OutgoingQueries
    BY Replaced DEF StorageInv, StorageType
  <2>3. ASSUME NEW rows \in 1 .. 2, leftRunning' = leftRunning,
               outgoing' = [outgoing EXCEPT ![o].state = "finished", ![o].rows = rows]
        PROVE  /\ DOMAIN outgoing' = DOMAIN outgoing
               /\ \A i \in DOMAIN outgoing \ {o} : outgoing'[i] = outgoing[i]
               /\ outgoing'[o].in = outgoing[o].in /\ outgoing'[o].state # "running"
    BY <1>2, <2>2, <2>3 DEF OutgoingQueries
  <2>4. ASSUME leftRunning' = leftRunning,
               outgoing' = [outgoing EXCEPT ![o].state = "canceled"]
        PROVE  /\ DOMAIN outgoing' = DOMAIN outgoing
               /\ \A i \in DOMAIN outgoing \ {o} : outgoing'[i] = outgoing[i]
               /\ outgoing'[o].in = outgoing[o].in /\ outgoing'[o].state # "running"
    BY <1>2, <2>2, <2>4, SMTT(60) DEF OutgoingQueries
  <2> QED
    BY <2>1, <2>3, <2>4 DEF EndOutgoingQuery
<1>5. Alone(h)
  BY <1>1, <1>3, <1>4, Zenon DEF Alone
<1>6. Linked'
  BY <1>1, <1>2, <1>3, <1>5, LinkedKept, Zenon DEF StorageInv
<1>7. IncomingAttended'
  BY <1>1, <1>3, <1>5, IncomingKept, Attended DEF StorageInv, Active
<1>8. OutgoingAttended'
  BY <1>2, <1>4, <1>5, OutgoingKept, Attended DEF StorageInv
<1> QED
  BY <1>6, <1>7, <1>8 DEF RunningHasHandler, IncomingAttended, OutgoingAttended

\* An incoming query ends, or its end is not taken and it is marked.
LEMMA EndInLinks ==
  ASSUME StorageInv, NEW h \in Handlers, EndIncomingQuery(h)
  PROVE  Linked' /\ RunningHasHandler'
<1> DEFINE n == handler[h].in
<1>1. handler[h].pc = "end in" /\ Returns(h) /\ outgoing' = outgoing
  BY DEF EndIncomingQuery
<1>2. n \in DOMAIN incoming
  BY <1>1 DEF StorageInv, Linked, Recorded
<1>3. /\ \A x \in Handlers \ {h} : handler'[x] = handler[x]
      /\ handler'[h].pc = "idle"
  BY <1>1 DEF Returns, Idle, StorageInv, StorageType, Requests
<1>4. /\ DOMAIN incoming' = DOMAIN incoming /\ leftRunning \subseteq leftRunning'
      /\ \A i \in DOMAIN incoming \ {n} : incoming'[i] = incoming[i]
      /\ incoming'[n].state # "running" \/ n \in leftRunning'
  <2>1. CASE incoming' = incoming /\ leftRunning' = leftRunning \cup {handler[h].in}
    BY <1>2, <2>1
  <2>2. \A i \in DOMAIN incoming : incoming[i] \in IncomingQueries
    BY Replaced DEF StorageInv, StorageType
  <2>3. ASSUME NEW x \in {"finished", "canceled"}, leftRunning' = leftRunning,
               incoming' = [incoming EXCEPT ![n].state = x]
        PROVE  /\ DOMAIN incoming' = DOMAIN incoming
               /\ \A i \in DOMAIN incoming \ {n} : incoming'[i] = incoming[i]
               /\ incoming'[n].state # "running"
    BY <1>2, <2>2, <2>3, SMTT(60) DEF IncomingQueries
  <2> QED
    BY <2>1, <2>3 DEF EndIncomingQuery
<1>5. Alone(h)
  BY <1>1, <1>3, <1>4, Zenon DEF Alone
<1>6. Linked'
  BY <1>3, <1>5, LinkedKept, Zenon DEF StorageInv, Recorded
<1>7. IncomingAttended'
  BY <1>2, <1>4, <1>5, IncomingKept, Attended DEF StorageInv
<1>8. OutgoingAttended'
  BY <1>1, <1>5, OutgoingKept, Attended DEF StorageInv
<1> QED
  BY <1>6, <1>7, <1>8 DEF RunningHasHandler, IncomingAttended, OutgoingAttended

\* Every step of a request keeps the invariant.
LEMMA StorageRequest ==
  ASSUME StorageInv, NEW h \in Handlers, StartQuery(h) \/ HandlerStep(h) PROVE StorageInv'
<1>1. StorageType' /\ ConnectionComesBack'
  BY StorageTyped, ConnectionOfRequest DEF StorageInv
<1>2. Linked' /\ RunningHasHandler'
  BY StartLinks, CreateLinks, ReturnLinks, TxLinks, EndOutLinks, EndInLinks DEF HandlerStep
<1> QED
  BY <1>1, <1>2 DEF StorageInv

\* A step that changes no table and no request.
LEMMA StorageKept ==
  ASSUME StorageInv, UNCHANGED <<incoming, outgoing, handler, clock, leftRunning>>
  PROVE  StorageType' /\ Linked' /\ RunningHasHandler'
<1>1. StorageType'
  BY DEF StorageInv, StorageType
<1>2. Linked'
  BY DEF StorageInv, Linked
<1>3. RunningHasHandler'
  BY Zenon DEF StorageInv, RunningHasHandler, Active
<1> QED
  BY <1>1, <1>2, <1>3

\* The browser is a record.
BrowserType == "pc" \in DOMAIN browser

\* A browser that leaves is a record like the others.
LEMMA LeavesType == ASSUME NEW pc, NEW unseen, NEW state
  PROVE  /\ "pc" \in DOMAIN Leaves(pc, unseen)
         /\ "pc" \in DOMAIN [Leaves(pc, unseen) EXCEPT !.listing.state = state]
  BY DEF Leaves, NoBrowser

\* So does every step of the browser: it changes no table, and has the connection only
\* between a statement and the end of its rows.
LEMMA StorageBrowser ==
  ASSUME StorageInv, BrowserType, BrowserStep PROVE StorageInv' /\ BrowserType'
<1>1. UNCHANGED <<incoming, outgoing, handler, clock, leftRunning>>
  BY Zenon DEF BrowserStep, OpenListing, ListPage, RenderPage, FindSimilar, ReadKeys, FetchGroup, Browses
<1>2. StorageType' /\ Linked' /\ RunningHasHandler'
  BY <1>1, StorageKept
<1>3. BrowserType'
  <2>1. CASE OpenListing
    BY <2>1, LeavesType, Zenon DEF OpenListing, Browses, BrowserType
  <2>2. CASE ListPage
    BY <2>2, LeavesType, Zenon DEF ListPage, Browses, BrowserType
  <2>3. CASE RenderPage
    BY <2>3, LeavesType DEF RenderPage, Browses, BrowserType
  <2>4. CASE FindSimilar \/ ReadKeys
    BY <2>4, LeavesType, Zenon DEF FindSimilar, ReadKeys, Browses, BrowserType
  <2>5. CASE FetchGroup
    BY <2>5, LeavesType, Zenon DEF FetchGroup, Browses, BrowserType
  <2> QED
    BY <2>1, <2>2, <2>3, <2>4, <2>5, SMTT(60) DEF BrowserStep
<1>4. \/ connection' = "free"
      \/ connection' = "browser" /\ browser'.pc \in {"close page", "keys"}
      \/ connection' = connection /\ browser.pc \notin {"close page", "keys"}
  <2>1. CASE OpenListing \/ RenderPage \/ ReadKeys \/ FetchGroup
    BY <2>1, Zenon DEF OpenListing, RenderPage, ReadKeys, FetchGroup
  <2>2. CASE ListPage
    BY <2>2 DEF ListPage, Browses, BrowserType
  <2>3. CASE FindSimilar
    BY <2>3 DEF FindSimilar, Browses, BrowserType
  <2> QED
    BY <2>1, <2>2, <2>3, Zenon DEF BrowserStep
<1>5. ConnectionComesBack'
  BY <1>1, <1>4, ObservationAssumption DEF ObservationAssumption, StorageInv, ConnectionComesBack
<1> QED
  BY <1>2, <1>3, <1>5 DEF StorageInv

\* And the end and the restart of the process: a request that was at work is marked.
LEMMA StorageRestart ==
  ASSUME StorageInv, CloseStorage \/ Restart PROVE StorageInv'
<1>1. CASE CloseStorage
  <2>1. UNCHANGED <<incoming, outgoing, handler, clock, leftRunning, connection, browser>>
    BY <1>1 DEF CloseStorage
  <2>2. ConnectionComesBack'
    BY <2>1, Zenon DEF StorageInv, ConnectionComesBack
  <2> QED
    BY <2>1, <2>2, StorageKept DEF StorageInv
<1>2. CASE Restart
  <2>1. /\ UNCHANGED <<incoming, outgoing, clock>> /\ connection' = "free"
        /\ handler' = [h \in Handlers |-> Idle]
        /\ leftRunning \subseteq leftRunning'
        /\ \A h \in Handlers : Active(h) => handler[h].in \in leftRunning'
    BY <1>2 DEF Restart
  <2>2. Idle \in Requests /\ Idle.pc = "idle"
    BY SMTT(60) DEF Idle, Requests
  <2>3. StorageType' /\ Linked'
    BY <2>1, <2>2 DEF StorageInv, StorageType, Linked, Recorded
  <2>4. ConnectionComesBack'
    BY <2>1, ObservationAssumption DEF ObservationAssumption, ConnectionComesBack
  <2>5. IncomingAttended'
    BY <2>1, Attended DEF StorageInv, IncomingAttended
  <2>6. OutgoingAttended'
    <3> SUFFICES ASSUME NEW i \in DOMAIN outgoing, outgoing[i].state = "running"
                 PROVE  outgoing[i].in \in leftRunning'
      BY <2>1 DEF OutgoingAttended
    <3>1. CASE outgoing[i].in \in leftRunning
      BY <2>1, <3>1
    <3>2. ASSUME NEW h \in Handlers, handler[h].pc = "end out", handler[h].out = i
          PROVE  outgoing[i].in \in leftRunning'
      BY <2>1, <3>2 DEF StorageInv, Linked, Active
    <3> QED
      BY <3>1, <3>2, Attended DEF StorageInv, OutgoingAttended
  <2> QED
    BY <2>3, <2>4, <2>5, <2>6, Zenon DEF StorageInv, RunningHasHandler, IncomingAttended, OutgoingAttended
<1> QED
  BY <1>1, <1>2

\* The invariant of the storage, with the type of the browser.
LEMMA StorageInvariant == ObservationSpec => [](StorageInv /\ BrowserType)
<1>1. ObservationInit => BrowserType
  BY DEF ObservationInit, NoBrowser, BrowserType
<1>2. StorageInv /\ BrowserType /\ [ObservationNext]_observationVars => (StorageInv /\ BrowserType)'
  <2> SUFFICES ASSUME StorageInv, BrowserType, [ObservationNext]_observationVars
               PROVE  StorageInv' /\ BrowserType'
    OBVIOUS
  <2>1. ASSUME NEW h \in Handlers, StartQuery(h) \/ HandlerStep(h) PROVE StorageInv' /\ BrowserType'
    <3>1. browser' = browser
      BY <2>1 DEF StartQuery, HandlerStep, CreateIncomingQuery, ReturnEarly, BeginTx, InsertOutgoing, CommitTx,
                  EndOutgoingQuery, EndIncomingQuery
    <3> QED
      BY <2>1, <3>1, StorageRequest, SMTT(60) DEF BrowserType
  <2>2. CASE CloseStorage \/ Restart
    <3>1. browser' = browser \/ browser' = NoBrowser
      BY <2>2 DEF CloseStorage, Restart
    <3> QED
      BY <2>2, <3>1, StorageRestart DEF BrowserType, NoBrowser
  <2>3. CASE UNCHANGED observationVars
    <3>1. UNCHANGED <<incoming, outgoing, handler, clock, leftRunning, connection, browser>>
      BY <2>3 DEF observationVars
    <3>2. ConnectionComesBack' /\ BrowserType'
      BY <3>1 DEF StorageInv, ConnectionComesBack, BrowserType
    <3> QED
      BY <3>1, <3>2, StorageKept DEF StorageInv
  <2> QED
    BY <2>1, <2>2, <2>3, StorageBrowser DEF ObservationNext
<1> QED
  BY <1>1, <1>2, StorageInit, PTL DEF ObservationSpec

\* However many requests and browsers share the one connection of the SQLite storage,
\* whoever has it is about to give it back, so that nobody waits for it forever.
THEOREM ConnectionReturns == ObservationSpec => []ConnectionComesBack
<1>1. StorageInv => ConnectionComesBack
  BY DEF StorageInv
<1> QED
  BY <1>1, StorageInvariant, PTL

\* A query that the storage shows as running has a request at work, unless the end of
\* that request was lost with the storage or the process.
THEOREM RunningIsReal == ObservationSpec => []RunningHasHandler
<1>1. StorageInv => RunningHasHandler
  BY DEF StorageInv
<1> QED
  BY <1>1, StorageInvariant, PTL
-----------------------------------------------------------------------------
(* What is stored stays.                                                           *)

\* A request has its records to itself, and they are running until it ends them.
OwnRecords ==
  \A h \in Handlers :
    /\ handler[h].pc \in Recorded => incoming[handler[h].in].state = "running"
    /\ handler[h].pc = "end out" => outgoing[handler[h].out].state = "running"
    /\ \A g \in Handlers \ {h} :
         /\ handler[h].pc \in Recorded /\ handler[g].pc \in Recorded => handler[h].in # handler[g].in
         /\ handler[h].pc = "end out" /\ handler[g].pc = "end out" => handler[h].out # handler[g].out

\* What a step may do to the tables: records are added, and those that are not running
\* any more stay as they are.
TablesGrow ==
  /\ DOMAIN incoming \subseteq DOMAIN incoming' /\ DOMAIN outgoing \subseteq DOMAIN outgoing'
  /\ \A i \in DOMAIN incoming :
       /\ incoming'[i].created = incoming[i].created
       /\ incoming[i].state # "running" => incoming'[i].state = incoming[i].state
  /\ \A i \in DOMAIN outgoing :
       /\ outgoing'[i].in = outgoing[i].in /\ outgoing'[i].text = outgoing[i].text
       /\ outgoing[i].state # "running" => outgoing'[i] = outgoing[i]

\* The records of the other requests are not those of this one.
LEMMA OwnKept ==
  ASSUME OwnRecords, Linked, NEW h \in Handlers, Alone(h),
         \A i \in DOMAIN incoming : \/ incoming'[i].state = incoming[i].state
                                    \/ handler[h].pc \in Recorded /\ handler[h].in = i,
         \A i \in DOMAIN outgoing : \/ outgoing'[i].state = outgoing[i].state
                                    \/ handler[h].pc = "end out" /\ handler[h].out = i,
         handler'[h].pc \in Recorded =>
           /\ incoming'[handler'[h].in].state = "running"
           /\ \/ handler'[h].in \notin DOMAIN incoming
              \/ handler[h].pc \in Recorded /\ handler'[h].in = handler[h].in,
         handler'[h].pc = "end out" =>
           outgoing'[handler'[h].out].state = "running" /\ handler'[h].out \notin DOMAIN outgoing
  PROVE  OwnRecords'
<1>1. ASSUME NEW x \in Handlers, x # h
      PROVE  /\ handler'[x] = handler[x]
             /\ handler[x].pc \in Recorded =>
                  handler[x].in \in DOMAIN incoming /\ incoming'[handler[x].in].state = "running"
             /\ handler[x].pc = "end out" =>
                  handler[x].out \in DOMAIN outgoing /\ outgoing'[handler[x].out].state = "running"
  <2>1. handler'[x] = handler[x]
    BY <1>1 DEF Alone
  <2>2. ASSUME handler[x].pc \in Recorded
        PROVE  handler[x].in \in DOMAIN incoming /\ incoming'[handler[x].in].state = "running"
    <3>1. handler[x].in \in DOMAIN incoming /\ incoming[handler[x].in].state = "running"
      BY <2>2 DEF Linked, OwnRecords
    <3>2. ~(handler[h].pc \in Recorded /\ handler[h].in = handler[x].in)
      BY <1>1, <2>2 DEF OwnRecords
    <3> QED
      BY <3>1, <3>2
  <2>3. ASSUME handler[x].pc = "end out"
        PROVE  handler[x].out \in DOMAIN outgoing /\ outgoing'[handler[x].out].state = "running"
    <3>1. handler[x].out \in DOMAIN outgoing /\ outgoing[handler[x].out].state = "running"
      BY <2>3 DEF Linked, OwnRecords
    <3>2. ~(handler[h].pc = "end out" /\ handler[h].out = handler[x].out)
      BY <1>1, <2>3 DEF OwnRecords
    <3> QED
      BY <3>1, <3>2
  <2> QED
    BY <2>1, <2>2, <2>3
<1>2. ASSUME NEW x \in Handlers, x # h
      PROVE  /\ handler'[h].pc \in Recorded /\ handler[x].pc \in Recorded => handler'[h].in # handler[x].in
             /\ handler'[h].pc = "end out" /\ handler[x].pc = "end out" => handler'[h].out # handler[x].out
  <2>1. ASSUME handler'[h].pc \in Recorded, handler[x].pc \in Recorded
        PROVE  handler'[h].in # handler[x].in
    <3>1. CASE handler'[h].in \notin DOMAIN incoming
      BY <1>1, <1>2, <2>1, <3>1
    <3>2. CASE handler[h].pc \in Recorded /\ handler'[h].in = handler[h].in
      <4>1. x \in Handlers \ {h}
        BY <1>2
      <4>2. handler[h].in # handler[x].in
        BY <2>1, <3>2, <4>1 DEF OwnRecords
      <4> QED
        BY <3>2, <4>2
    <3> QED
      BY <2>1, <3>1, <3>2
  <2> QED
    BY <1>1, <1>2, <2>1
<1> SUFFICES ASSUME NEW x \in Handlers
             PROVE  /\ handler'[x].pc \in Recorded => incoming'[handler'[x].in].state = "running"
                    /\ handler'[x].pc = "end out" => outgoing'[handler'[x].out].state = "running"
                    /\ \A g \in Handlers \ {x} :
                         /\ handler'[x].pc \in Recorded /\ handler'[g].pc \in Recorded =>
                              handler'[x].in # handler'[g].in
                         /\ handler'[x].pc = "end out" /\ handler'[g].pc = "end out" =>
                              handler'[x].out # handler'[g].out
  BY DEF OwnRecords
<1>3. /\ handler'[x].pc \in Recorded => incoming'[handler'[x].in].state = "running"
      /\ handler'[x].pc = "end out" => outgoing'[handler'[x].out].state = "running"
  <2>1. CASE x = h
    BY <2>1
  <2>2. CASE x # h
    <3>1. handler'[x] = handler[x]
      BY <1>1, <2>2
    <3>2. /\ handler[x].pc \in Recorded => incoming'[handler[x].in].state = "running"
          /\ handler[x].pc = "end out" => outgoing'[handler[x].out].state = "running"
      BY <1>1, <2>2
    <3> QED
      BY <3>1, <3>2
  <2> QED
    BY <2>1, <2>2
<1>4. ASSUME NEW g \in Handlers \ {x}
      PROVE  /\ handler'[x].pc \in Recorded /\ handler'[g].pc \in Recorded =>
                  handler'[x].in # handler'[g].in
             /\ handler'[x].pc = "end out" /\ handler'[g].pc = "end out" =>
                  handler'[x].out # handler'[g].out
  <2>1. CASE x = h
    BY <1>1, <1>2, <2>1
  <2>2. CASE g = h
    BY <1>1, <1>2, <2>2
  <2>3. CASE x # h /\ g # h
    <3>1. handler'[x] = handler[x] /\ handler'[g] = handler[g]
      BY <1>1, <2>3
    <3>2. /\ handler[x].pc \in Recorded /\ handler[g].pc \in Recorded => handler[x].in # handler[g].in
          /\ handler[x].pc = "end out" /\ handler[g].pc = "end out" => handler[x].out # handler[g].out
      BY DEF OwnRecords
    <3> QED
      BY <3>1, <3>2
  <2> QED
    BY <2>1, <2>2, <2>3
<1> QED
  BY <1>3, <1>4

\* A request adds records, and ends only its own.
LEMMA RequestGrows ==
  ASSUME StorageInv, OwnRecords, NEW h \in Handlers, StartQuery(h) \/ HandlerStep(h)
  PROVE  OwnRecords' /\ TablesGrow
<1>1. /\ handler \in [Handlers -> Requests] /\ Linked
      /\ \A i \in DOMAIN incoming : incoming[i] \in IncomingQueries
      /\ \A i \in DOMAIN outgoing : outgoing[i] \in OutgoingQueries
  BY Replaced DEF StorageInv, StorageType
<1>2. CASE StartQuery(h)
  <2>1. /\ UNCHANGED <<incoming, outgoing, leftRunning>> /\ handler'[h].pc = "create"
        /\ \A x \in Handlers \ {h} : handler'[x] = handler[x]
    BY <1>1, <1>2 DEF StartQuery, Idle
  <2>2. Alone(h)
    BY <2>1 DEF Alone
  <2>3. OwnRecords'
    BY <1>1, <2>1, <2>2, OwnKept DEF Recorded
  <2> QED
    BY <2>1, <2>3 DEF TablesGrow
<1>3. CASE CreateIncomingQuery(h)
  <2>1. handler[h].pc = "create" /\ UNCHANGED <<outgoing, leftRunning>>
    BY <1>3 DEF CreateIncomingQuery
  <2>2. CASE /\ incoming' = Append(incoming, [created |-> handler[h].created, state |-> "running"])
             /\ handler' = [handler EXCEPT ![h].pc = "begin", ![h].in = Len(incoming')]
    <3>1. [created |-> handler[h].created, state |-> "running"] \in IncomingQueries
      BY <1>1 DEF Requests, IncomingQueries, States
    <3>2. /\ DOMAIN incoming \subseteq DOMAIN incoming' /\ Len(incoming') \notin DOMAIN incoming
          /\ incoming'[Len(incoming')].state = "running"
          /\ \A i \in DOMAIN incoming : incoming'[i] = incoming[i]
      BY <2>2, <3>1, Added DEF StorageInv, StorageType
    <3>3. /\ \A x \in Handlers \ {h} : handler'[x] = handler[x]
          /\ handler'[h].pc = "begin" /\ handler'[h].in = Len(incoming')
      BY <1>1, <2>2 DEF Requests
    <3>4. Alone(h)
      BY <2>1, <3>2, <3>3 DEF Alone
    <3>5. OwnRecords'
      BY <1>1, <2>1, <3>2, <3>3, <3>4, OwnKept
    <3> QED
      BY <2>1, <3>2, <3>5 DEF TablesGrow
  <2>3. CASE Returns(h) /\ UNCHANGED incoming
    <3>1. /\ \A x \in Handlers \ {h} : handler'[x] = handler[x] /\ handler'[h].pc = "idle"
      BY <1>1, <2>3 DEF Returns, Idle, Requests
    <3>2. Alone(h)
      BY <2>1, <2>3, <3>1 DEF Alone
    <3>3. handler'[h].pc = "idle"
      BY <1>1, <2>3 DEF Returns, Idle, Requests
    <3>4. OwnRecords'
      BY <1>1, <2>1, <2>3, <3>2, <3>3, OwnKept DEF Recorded
    <3> QED
      BY <2>1, <2>3, <3>4 DEF TablesGrow
  <2> QED
    BY <1>3, <2>2, <2>3 DEF CreateIncomingQuery
<1>4. CASE BeginTx(h) \/ InsertOutgoing(h) \/ (CommitTx(h) /\ Goes(h, "end in") /\ UNCHANGED outgoing)
  <2>1. /\ handler[h].pc \in {"begin", "insert", "commit"} /\ UNCHANGED <<incoming, outgoing, leftRunning>>
        /\ \E x \in {"insert", "commit", "end in"} : Goes(h, x)
    BY <1>4 DEF BeginTx, InsertOutgoing, CommitTx
  <2>2. /\ \A x \in Handlers \ {h} : handler'[x] = handler[x]
        /\ handler'[h].pc \in {"insert", "commit", "end in"} /\ handler'[h].in = handler[h].in
    BY <1>1, <2>1 DEF Goes, Requests
  <2>3. Alone(h)
    BY <2>1, <2>2 DEF Alone
  <2>4. incoming[handler[h].in].state = "running"
    BY <2>1 DEF OwnRecords, Recorded
  <2>5. OwnRecords'
    BY <1>1, <2>1, <2>2, <2>3, <2>4, OwnKept DEF Recorded
  <2> QED
    BY <2>1, <2>5 DEF TablesGrow
<1>5. ASSUME NEW t \in Texts, CommitTx(h),
             outgoing' = Append(outgoing, [in |-> handler[h].in, text |-> t, rows |-> 0,
                                           state |-> "running"]),
             handler' = [handler EXCEPT ![h].pc = "end out", ![h].out = Len(outgoing')]
      PROVE  OwnRecords' /\ TablesGrow
  <2>1. handler[h].pc = "commit" /\ UNCHANGED <<incoming, leftRunning>>
    BY <1>5 DEF CommitTx
  <2>2. [in |-> handler[h].in, text |-> t, rows |-> 0, state |-> "running"] \in OutgoingQueries
    BY <1>1 DEF Requests, OutgoingQueries, States
  <2>3. /\ DOMAIN outgoing \subseteq DOMAIN outgoing' /\ Len(outgoing') \notin DOMAIN outgoing
        /\ outgoing'[Len(outgoing')].state = "running"
        /\ \A i \in DOMAIN outgoing : outgoing'[i] = outgoing[i]
    <3>1. PICK e \in OutgoingQueries : outgoing' = Append(outgoing, e) /\ e.state = "running"
      BY <1>5, <2>2
    <3> QED
      BY <3>1, Added DEF StorageInv, StorageType
  <2>4. /\ \A x \in Handlers \ {h} : handler'[x] = handler[x]
        /\ handler'[h].pc = "end out" /\ handler'[h].in = handler[h].in /\ handler'[h].out = Len(outgoing')
    BY <1>1, <1>5 DEF Requests
  <2>5. Alone(h)
    BY <2>1, <2>3, <2>4 DEF Alone
  <2>6. incoming[handler[h].in].state = "running"
    BY <2>1 DEF OwnRecords, Recorded
  <2>7. OwnRecords'
    BY <1>1, <2>1, <2>3, <2>4, <2>5, <2>6, OwnKept DEF Recorded
  <2> QED
    BY <2>1, <2>3, <2>7 DEF TablesGrow
<1>6. CASE EndOutgoingQuery(h)
  <2> DEFINE o == handler[h].out
  <2>1. handler[h].pc = "end out" /\ Goes(h, "end in") /\ incoming' = incoming
    BY <1>6 DEF EndOutgoingQuery
  <2>2. /\ o \in DOMAIN outgoing /\ outgoing[o].state = "running"
        /\ incoming[handler[h].in].state = "running"
    BY <1>1, <2>1 DEF Linked, OwnRecords, Recorded
  <2>3. /\ \A x \in Handlers \ {h} : handler'[x] = handler[x]
        /\ handler'[h].pc = "end in" /\ handler'[h].in = handler[h].in
    BY <1>1, <2>1 DEF Goes, Requests
  <2>4. /\ DOMAIN outgoing' = DOMAIN outgoing /\ leftRunning \subseteq leftRunning'
        /\ outgoing'[o].in = outgoing[o].in /\ outgoing'[o].text = outgoing[o].text
        /\ \A i \in DOMAIN outgoing \ {o} : outgoing'[i] = outgoing[i]
    <3>1. CASE outgoing' = outgoing /\ leftRunning' = leftRunning \cup {handler[h].in}
      BY <3>1
    <3>2. ASSUME NEW rows \in 1 .. 2, leftRunning' = leftRunning,
                 outgoing' = [outgoing EXCEPT ![o].state = "finished", ![o].rows = rows]
          PROVE  /\ DOMAIN outgoing' = DOMAIN outgoing
                 /\ \A i \in DOMAIN outgoing \ {o} : outgoing'[i] = outgoing[i]
                 /\ outgoing'[o].in = outgoing[o].in /\ outgoing'[o].text = outgoing[o].text
      BY <1>1, <2>2, <3>2 DEF OutgoingQueries
    <3>3. ASSUME leftRunning' = leftRunning,
                 outgoing' = [outgoing EXCEPT ![o].state = "canceled"]
          PROVE  /\ DOMAIN outgoing' = DOMAIN outgoing
                 /\ \A i \in DOMAIN outgoing \ {o} : outgoing'[i] = outgoing[i]
                 /\ outgoing'[o].in = outgoing[o].in /\ outgoing'[o].text = outgoing[o].text
      BY <1>1, <2>2, <3>3 DEF OutgoingQueries
    <3> QED
      BY <1>6, <3>1, <3>2, <3>3 DEF EndOutgoingQuery
  <2>5. Alone(h)
    BY <2>1, <2>3, <2>4 DEF Alone
  <2>6. OwnRecords'
    BY <1>1, <2>1, <2>2, <2>3, <2>4, <2>5, OwnKept DEF Recorded
  <2> QED
    BY <2>1, <2>2, <2>4, <2>6 DEF TablesGrow
<1>7. CASE EndIncomingQuery(h)
  <2> DEFINE n == handler[h].in
  <2>1. handler[h].pc = "end in" /\ Returns(h) /\ outgoing' = outgoing
    BY <1>7 DEF EndIncomingQuery
  <2>2. n \in DOMAIN incoming /\ incoming[n].state = "running"
    BY <1>1, <2>1 DEF Linked, OwnRecords, Recorded
  <2>3. /\ \A x \in Handlers \ {h} : handler'[x] = handler[x]
        /\ handler'[h].pc = "idle"
    BY <1>1, <2>1 DEF Returns, Idle, Requests
  <2>4. /\ DOMAIN incoming' = DOMAIN incoming /\ leftRunning \subseteq leftRunning'
        /\ incoming'[n].created = incoming[n].created
        /\ \A i \in DOMAIN incoming \ {n} : incoming'[i] = incoming[i]
    <3>1. CASE incoming' = incoming /\ leftRunning' = leftRunning \cup {handler[h].in}
      BY <3>1
    <3>2. ASSUME NEW x \in {"finished", "canceled"}, leftRunning' = leftRunning,
                 incoming' = [incoming EXCEPT ![n].state = x]
          PROVE  /\ DOMAIN incoming' = DOMAIN incoming
                 /\ \A i \in DOMAIN incoming \ {n} : incoming'[i] = incoming[i]
                 /\ incoming'[n].created = incoming[n].created
      BY <1>1, <2>2, <3>2 DEF IncomingQueries
    <3> QED
      BY <1>7, <3>1, <3>2 DEF EndIncomingQuery
  <2>5. Alone(h)
    BY <2>1, <2>3, <2>4 DEF Alone
  <2>6. OwnRecords'
    BY <1>1, <2>1, <2>2, <2>3, <2>4, <2>5, OwnKept DEF Recorded
  <2> QED
    BY <2>1, <2>2, <2>4, <2>6 DEF TablesGrow
<1>8. CASE ReturnEarly(h)
  <2>1. /\ handler[h].pc = "begin" /\ Returns(h) /\ UNCHANGED <<incoming, outgoing>>
        /\ leftRunning \subseteq leftRunning'
    BY <1>8 DEF ReturnEarly
  <2>2. /\ \A x \in Handlers \ {h} : handler'[x] = handler[x]
        /\ handler'[h].pc = "idle"
    BY <1>1, <2>1 DEF Returns, Idle, Requests
  <2>3. Alone(h)
    BY <2>1, <2>2 DEF Alone
  <2>4. OwnRecords'
    BY <1>1, <2>1, <2>2, <2>3, OwnKept DEF Recorded
  <2> QED
    BY <2>1, <2>4 DEF TablesGrow
<1> QED
  BY <1>2, <1>3, <1>4, <1>5, <1>6, <1>7, <1>8 DEF HandlerStep, CommitTx

\* So does every step.
LEMMA TablesStep ==
  ASSUME StorageInv, OwnRecords, [ObservationNext]_observationVars PROVE OwnRecords' /\ TablesGrow
<1>1. CASE BrowserStep \/ CloseStorage \/ UNCHANGED observationVars
  <2>1. UNCHANGED <<incoming, outgoing, handler>>
    BY <1>1, Zenon DEF BrowserStep, OpenListing, ListPage, RenderPage, FindSimilar, ReadKeys, FetchGroup,
                       Browses, CloseStorage, observationVars
  <2> QED
    BY <2>1 DEF OwnRecords, TablesGrow
<1>2. CASE Restart
  <2>1. UNCHANGED <<incoming, outgoing>> /\ handler' = [h \in Handlers |-> Idle]
    BY <1>2 DEF Restart
  <2>2. \A h \in Handlers : handler'[h].pc = "idle"
    BY <2>1 DEF Idle
  <2>3. OwnRecords'
    BY <2>2 DEF OwnRecords, Recorded
  <2> QED
    BY <2>1, <2>3 DEF TablesGrow
<1> QED
  BY <1>1, <1>2, RequestGrows DEF ObservationNext

\* The requests start without records.
LEMMA OwnInit == ObservationInit => OwnRecords
<1>1. ObservationInit => \A h \in Handlers : handler[h].pc = "idle"
  BY DEF ObservationInit, Idle
<1> QED
  BY <1>1 DEF OwnRecords, Recorded

\* No request changes or loses the record of another, of a query that has ended, or of
\* an earlier life of the process: what a step does to the tables is to add records
\* and to end those that are running.
THEOREM RecordsStay == ObservationSpec => [][TablesGrow]_observationVars
<1>1. StorageInv /\ OwnRecords /\ [ObservationNext]_observationVars => OwnRecords' /\ TablesGrow
  BY TablesStep
<1> QED
  BY <1>1, OwnInit, StorageInvariant, PTL DEF ObservationSpec
-----------------------------------------------------------------------------
(* The listings *)

Rank(listing, i) == Cardinality({j \in Matches(listing) : Newer(listing.table, j, i)})

Listings ==
  [table : {"incoming", "outgoing"}, in : Nat, state : {"any", "finished", "running"}, limit : Nat]

Browsers ==
  [pc : {"idle", "page", "close page", "similar", "keys", "groups", "done", "failed"},
   listing : Listings, offset : Nat, keys : SUBSET (Nat \cup Texts), unseen : SUBSET (Nat \cup Texts)]

\* What the browser has still to be shown is on later pages.
ToCome(listing, offset, unseen) ==
  /\ unseen \subseteq Matches(listing)
  /\ \A i \in unseen : offset <= Rank(listing, i)

Listed ==
  LET b == browser IN
  /\ b \in Browsers
  /\ b.pc \in {"idle", "similar", "keys", "groups"} =>
       b.unseen = {} /\ b.offset = 0 /\ b.listing = NoListing
  /\ b.pc = "page" /\ b.listing.state # "running" => ToCome(b.listing, b.offset, b.unseen)
  /\ b.pc = "close page" /\ b.listing.state # "running" =>
       /\ ToCome(b.listing, b.offset + b.listing.limit, b.unseen \ b.keys)
       /\ Cardinality(b.keys) < b.listing.limit => b.unseen \subseteq b.keys
  /\ b.pc = "close page" => IsFiniteSet(b.keys)
  /\ b.pc \in {"keys", "groups"} => b.keys \subseteq Texts /\ \A t \in b.keys : Differ(Finished(t))
  /\ ListingSkipsNothing

\* The order of a listing is total.
LEMMA NewerOrder ==
  ASSUME StorageType, NEW listing, listing.table \in {"incoming", "outgoing"},
         NEW i \in Matches(listing), NEW j \in Matches(listing), NEW k \in Matches(listing)
  PROVE  /\ ~Newer(listing.table, i, i)
         /\ i # j => Newer(listing.table, i, j) \/ Newer(listing.table, j, i)
         /\ Newer(listing.table, i, j) /\ Newer(listing.table, j, k) => Newer(listing.table, i, k)
<1>1. CASE listing.table = "outgoing"
  <2>1. i \in Nat /\ j \in Nat /\ k \in Nat
    BY <1>1 DEF StorageType, Matches
  <2> QED
    BY <1>1, <2>1 DEF Newer
<1>2. CASE listing.table = "incoming"
  <2>1. \A x \in DOMAIN incoming : x \in Nat /\ incoming[x] \in IncomingQueries
    BY DEF StorageType
  <2>2. i \in DOMAIN incoming /\ j \in DOMAIN incoming /\ k \in DOMAIN incoming
    BY <1>2 DEF Matches
  <2>3. /\ i \in Nat /\ j \in Nat /\ k \in Nat
        /\ incoming[i].created \in Nat /\ incoming[j].created \in Nat /\ incoming[k].created \in Nat
    BY <2>1, <2>2 DEF IncomingQueries
  <2> QED
    BY <1>2, <2>3 DEF Newer
<1> QED
  BY <1>1, <1>2

\* Queries that are finished stay so, with their rows.
LEMMA DifferKept ==
  ASSUME TablesGrow, NEW t, Differ(Finished(t)) PROVE Differ(Finished(t))'
<1>1. PICK i \in Finished(t), j \in Finished(t) : outgoing[i].rows # outgoing[j].rows
  BY DEF Differ
<1>2. \A k \in Finished(t) : k \in Finished(t)' /\ outgoing'[k] = outgoing[k]
  BY DEF Finished, TablesGrow
<1> QED
  BY <1>1, <1>2 DEF Differ

\* A browser that has nothing open.
LEMMA NoBrowserListed ==
  ASSUME browser = NoBrowser PROVE Listed
<1>1. NoListing \in Listings
  BY ObservationAssumption DEF NoListing, Listings
<1>2. /\ browser \in Browsers /\ browser.pc = "idle" /\ browser.unseen = {} /\ browser.offset = 0
      /\ browser.listing = NoListing
  BY <1>1 DEF NoBrowser, Browsers
<1> QED
  BY <1>2 DEF Listed, ListingSkipsNothing

\* What a step has to establish of the browser it leaves.
LEMMA ListedNext ==
  ASSUME NEW b \in Browsers, browser' = b,
         b.pc \in {"idle", "similar", "keys", "groups"} =>
           b.unseen = {} /\ b.offset = 0 /\ b.listing = NoListing,
         b.pc = "page" /\ b.listing.state # "running" => ToCome(b.listing, b.offset, b.unseen)',
         b.pc = "close page" /\ b.listing.state # "running" =>
           /\ ToCome(b.listing, b.offset + b.listing.limit, b.unseen \ b.keys)'
           /\ Cardinality(b.keys) < b.listing.limit => b.unseen \subseteq b.keys,
         b.pc = "close page" => IsFiniteSet(b.keys),
         b.pc \in {"keys", "groups"} => b.keys \subseteq Texts /\ \A t \in b.keys : Differ(Finished(t))',
         b.pc = "done" /\ b.listing.state # "running" => b.unseen = {}
  PROVE  Listed'
<1>1. browser'.pc = "page" /\ browser'.listing.state # "running" =>
        ToCome(browser.listing, browser.offset, browser.unseen)'
  BY DEF ToCome, Matches, Rank, Newer
<1>2. browser'.pc = "close page" /\ browser'.listing.state # "running" =>
        ToCome(browser.listing, browser.offset + browser.listing.limit, browser.unseen \ browser.keys)'
  BY DEF ToCome, Matches, Rank, Newer
<1> QED
  BY <1>1, <1>2 DEF Listed, ListingSkipsNothing

\* A browser that leaves with nothing left to show, or starts.
LEMMA LeavesListed ==
  ASSUME browser' \in {NoBrowser, Leaves("done", {}), Leaves("failed", {})} PROVE Listed'
<1>1. NoListing \in Listings
  BY ObservationAssumption DEF NoListing, Listings
<1>2. PICK c \in {NoBrowser, Leaves("done", {}), Leaves("failed", {})} : browser' = c
  OBVIOUS
<1>3. /\ c \in Browsers /\ c.pc \in {"idle", "done", "failed"} /\ c.unseen = {} /\ c.offset = 0
      /\ c.listing = NoListing
  <2>1. PICK l \in Listings : l = NoListing
    BY <1>1, Zenon
  <2>2. \E pc \in {"idle", "done", "failed"} :
          c = [pc |-> pc, listing |-> l, offset |-> 0, keys |-> {}, unseen |-> {}]
    <3>1. CASE c = NoBrowser
      BY <2>1, <3>1 DEF NoBrowser
    <3>2. CASE c = Leaves("done", {})
      BY <2>1, <3>2 DEF NoBrowser, Leaves
    <3>3. CASE c = Leaves("failed", {})
      BY <2>1, <3>3 DEF NoBrowser, Leaves
    <3> QED
      BY <1>2, <3>1, <3>2, <3>3
  <2>3. PICK pc \in {"idle", "done", "failed"} :
          c = [pc |-> pc, listing |-> l, offset |-> 0, keys |-> {}, unseen |-> {}]
    BY <2>2, Zenon
  <2> QED
    BY <2>1, <2>3 DEF Browsers
<1> QED
  BY <1>2, <1>3, ListedNext

\* The browser changes no table.
LEMMA ToComeSame ==
  ASSUME UNCHANGED <<incoming, outgoing>>, NEW l, NEW o, NEW u, ToCome(l, o, u) PROVE ToCome(l, o, u)'
  BY DEF ToCome, Matches, Rank, Newer

\* The steps of the browser that look for similar queries.
LEMMA SimilarListed ==
  ASSUME StorageType, Listed, FindSimilar \/ ReadKeys \/ FetchGroup PROVE Listed'
<1>1. PICK b : b = browser
  OBVIOUS
<1>2. /\ b \in Browsers /\ browser = b /\ b.pc \in {"similar", "keys", "groups"}
      /\ b.unseen = {} /\ b.offset = 0 /\ b.listing = NoListing
      /\ b.pc \in {"keys", "groups"} => b.keys \subseteq Texts /\ \A t \in b.keys : Differ(Finished(t))
  BY <1>1, Zenon DEF Listed, FindSimilar, ReadKeys, FetchGroup
<1>3. UNCHANGED <<incoming, outgoing>>
  BY Zenon DEF FindSimilar, ReadKeys, FetchGroup, Browses
<1>4. \A t : Differ(Finished(t)) => Differ(Finished(t))'
  BY <1>3 DEF Differ, Finished
<1>5. ASSUME NEW pc \in {"keys", "groups"}, NEW keys \in SUBSET Texts, \A t \in keys : Differ(Finished(t)),
             browser' = [b EXCEPT !.pc = pc, !.keys = keys]
      PROVE  Listed'
  <2>1. PICK c : c = [b EXCEPT !.pc = pc, !.keys = keys]
    OBVIOUS
  <2>2. /\ c \in Browsers /\ c.pc = pc /\ c.listing = NoListing /\ c.unseen = {} /\ c.offset = 0
        /\ c.keys = keys /\ browser' = c
    BY <1>2, <1>5, <2>1 DEF Browsers
  <2>3. \A t \in keys : Differ(Finished(t))'
    BY <1>4, <1>5
  <2> QED
    BY <2>2, <2>3, ListedNext
<1>6. CASE browser' = Leaves("failed", {}) \/ browser' = Leaves("done", {})
  BY <1>6, LeavesListed
<1>7. CASE FindSimilar
  <2>1. ASSUME browser' = [b EXCEPT !.pc = "keys", !.keys = {t \in Texts : Differ(Finished(t))}]
        PROVE  Listed'
    <3>1. PICK keys : keys = {t \in Texts : Differ(Finished(t))}
      BY Zenon
    <3>2. keys \in SUBSET Texts /\ \A t \in keys : Differ(Finished(t))
      BY <3>1
    <3> QED
      BY <1>5, <2>1, <3>1, <3>2, Zenon
  <2> QED
    BY <1>2, <1>6, <1>7, <2>1 DEF FindSimilar, Browses
<1>8. CASE ReadKeys
  <2>1. browser' = [b EXCEPT !.pc = "groups"] /\ b.pc = "keys"
    BY <1>2, <1>8 DEF ReadKeys, Browses
  <2>2. [b EXCEPT !.pc = "groups"] = [b EXCEPT !.pc = "groups", !.keys = b.keys]
    BY <1>2 DEF Browsers
  <2> QED
    BY <1>2, <1>5, <2>1, <2>2, Zenon
<1>9. CASE FetchGroup
  <2>1. ASSUME NEW t \in b.keys, b.pc = "groups",
               browser' = [b EXCEPT !.keys = b.keys \ {t},
                                    !.unseen = IF Differ(Finished(t)) THEN b.unseen ELSE b.unseen \cup {t}]
        PROVE  Listed'
    <3>1. Differ(Finished(t))
      BY <1>2, <2>1
    <3>2. PICK keys : keys = b.keys \ {t}
      BY Zenon
    <3>3. keys \in SUBSET Texts /\ \A x \in keys : Differ(Finished(x))
      BY <1>2, <2>1, <3>2
    <3>4. browser' = [b EXCEPT !.keys = keys, !.unseen = b.unseen]
      BY <2>1, <3>1, <3>2, Zenon
    <3>5. browser' = [b EXCEPT !.pc = "groups", !.keys = keys]
      BY <1>2, <2>1, <3>4 DEF Browsers
    <3> QED
      BY <1>5, <3>3, <3>5, Zenon
  <2> QED
    BY <1>2, <1>6, <1>9, <2>1, Zenon DEF FetchGroup, Browses
<1> QED
  BY <1>7, <1>8, <1>9
-----------------------------------------------------------------------------
(* The listings, and how many queries there are *)

OneToOne(f, S) == \A x, y \in S : f[x] = f[y] => x = y
Onto(f, S, T) == \A y \in T : \E x \in S : f[x] = y

\* How many members a finite set has.  The theorems that say so are used at the end of
\* the module only (SizesHold), which keeps them out of the steps before.
Sizes ==
  /\ \A S : IsFiniteSet(S) => Cardinality(S) \in Nat
  /\ \A S : IsFiniteSet(S) => \A T \in SUBSET S :
       /\ IsFiniteSet(T) /\ Cardinality(T) <= Cardinality(S)
       /\ Cardinality(T) = Cardinality(S) => S = T
  /\ \A a, b \in Int : /\ IsFiniteSet(a .. b)
                       /\ Cardinality(a .. b) = IF a > b THEN 0 ELSE b - a + 1
  /\ \A S, T, f : f \in [S -> T] /\ IsFiniteSet(T) /\ OneToOne(f, S) =>
       /\ IsFiniteSet(S) /\ Cardinality(S) <= Cardinality(T)
       /\ Cardinality(S) = Cardinality(T) => Onto(f, S, T)

\* An injection into a finite set: it is onto when the sets have the same size.
LEMMA InjectionSize ==
  ASSUME Sizes, NEW S, NEW T, NEW f \in [S -> T], IsFiniteSet(T), \A x, y \in S : f[x] = f[y] => x = y
  PROVE  /\ IsFiniteSet(S) /\ Cardinality(S) <= Cardinality(T)
         /\ Cardinality(S) = Cardinality(T) => \A y \in T : \E x \in S : f[x] = y
<1>1. OneToOne(f, S)
  BY DEF OneToOne
<1>2. /\ IsFiniteSet(S) /\ Cardinality(S) <= Cardinality(T)
      /\ Cardinality(S) = Cardinality(T) => Onto(f, S, T)
  BY <1>1, Zenon DEF Sizes
<1> QED
  BY <1>2, Zenon DEF Onto

\* In a finite set whose elements have ranks of their own below its size, every rank is
\* taken: when some element comes after the page, the page is full.
LEMMA FullPage ==
  ASSUME Sizes, NEW M, IsFiniteSet(M), NEW r \in [M -> Nat],
         \A i \in M : r[i] < Cardinality(M), \A i, j \in M : r[i] = r[j] => i = j,
         NEW off \in Nat, NEW lim \in Nat, NEW u \in M, off + lim <= r[u],
         NEW P, P = {i \in M : off <= r[i] /\ r[i] < off + lim}
  PROVE  lim <= Cardinality(P)
<1> DEFINE n == Cardinality(M)
           T == 0 .. n - 1
           K == off .. off + lim - 1
<1>1. n \in Nat /\ IsFiniteSet(T) /\ Cardinality(T) = n
  <2>1. n \in Nat
    BY Zenon DEF Sizes
  <2> HIDE DEF n
  <2>2. 0 \in Int /\ n - 1 \in Int
    BY <2>1
  <2>3. IsFiniteSet(T) /\ Cardinality(T) = IF 0 > n - 1 THEN 0 ELSE (n - 1) - 0 + 1
    BY <2>2, Zenon DEF Sizes
  <2>4. (IF 0 > n - 1 THEN 0 ELSE (n - 1) - 0 + 1) = n
    BY <2>1
  <2> QED
    BY <2>1, <2>3, <2>4
<1>2. r \in [M -> T]
  BY <1>1
<1>3. \A k \in T : \E i \in M : r[i] = k
  <2> HIDE DEF n, T
  <2> QED
    BY <1>1, <1>2, InjectionSize DEF n
<1>4. \A k \in K : \E i \in M : r[i] = k
  <2>1. r[u] < n /\ r[u] \in Nat
    OBVIOUS
  <2>2. \A k \in K : k \in T
    BY <1>1, <2>1
  <2> QED
    BY <1>3, <2>2
<1> DEFINE g == [k \in K |-> CHOOSE i \in M : r[i] = k]
<1>5. \A k \in K : g[k] \in M /\ r[g[k]] = k
  BY <1>4
<1>6. \A k \in K : off <= k /\ k < off + lim
  OBVIOUS
<1>7. g \in [K -> P] /\ \A k, l \in K : g[k] = g[l] => k = l
  BY <1>5, <1>6
<1>8. IsFiniteSet(P)
  <2>1. P \in SUBSET M
    OBVIOUS
  <2> QED
    BY <2>1, Zenon DEF Sizes
<1>9. Cardinality(K) <= Cardinality(P)
  <2> HIDE DEF g, K
  <2> QED
    BY <1>7, <1>8, InjectionSize
<1>10. Cardinality(K) = lim
  <2>1. off \in Int /\ off + lim - 1 \in Int
    OBVIOUS
  <2>2. Cardinality(K) = IF off > off + lim - 1 THEN 0 ELSE (off + lim - 1) - off + 1
    BY <2>1, Zenon DEF Sizes
  <2>3. (IF off > off + lim - 1 THEN 0 ELSE (off + lim - 1) - off + 1) = lim
    OBVIOUS
  <2> QED
    BY <2>2, <2>3
<1> QED
  BY <1>9, <1>10

\* A table is finite.
LEMMA FiniteTable ==
  ASSUME Sizes, NEW S, NEW table \in Seq(S) PROVE IsFiniteSet(DOMAIN table)
<1>1. DOMAIN table = 1 .. Len(table) /\ Len(table) \in Nat
  OBVIOUS
<1>2. 1 \in Int /\ Len(table) \in Int
  BY <1>1
<1> QED
  BY <1>1, <1>2, Zenon DEF Sizes

\* So is a listing.
LEMMA FiniteMatches ==
  ASSUME Sizes, StorageType, NEW listing PROVE IsFiniteSet(Matches(listing))
<1>1. IsFiniteSet(DOMAIN incoming) /\ IsFiniteSet(DOMAIN outgoing)
  BY FiniteTable DEF StorageType
<1>2. Matches(listing) \in SUBSET DOMAIN incoming \/ Matches(listing) \in SUBSET DOMAIN outgoing
  BY DEF Matches
<1> QED
  BY <1>1, <1>2, Zenon DEF Sizes

\* So the ranks are different numbers below the number of matches.
LEMMA Ranks ==
  ASSUME Sizes, StorageType, NEW listing, listing.table \in {"incoming", "outgoing"},
         NEW i \in Matches(listing)
  PROVE  /\ Rank(listing, i) \in Nat /\ Rank(listing, i) < Cardinality(Matches(listing))
         /\ \A j \in Matches(listing) : Rank(listing, i) = Rank(listing, j) => i = j
<1> DEFINE M == Matches(listing)
           N(x) == {y \in M : Newer(listing.table, y, x)}
<1>1. IsFiniteSet(M)
  BY FiniteMatches
<1>2. \A x \in M : N(x) \in SUBSET M /\ N(x) # M /\ Rank(listing, x) = Cardinality(N(x))
  BY NewerOrder DEF Rank
<1>3. \A x \in M : IsFiniteSet(N(x)) /\ Cardinality(N(x)) <= Cardinality(M) /\ Cardinality(N(x)) # Cardinality(M)
  BY <1>1, <1>2, Zenon DEF Sizes
<1>4. Cardinality(M) \in Nat /\ \A x \in M : Cardinality(N(x)) \in Nat
  BY <1>1, <1>3, Zenon DEF Sizes
<1>5. ASSUME NEW x \in M, NEW y \in M, Newer(listing.table, x, y)
      PROVE  Cardinality(N(x)) # Cardinality(N(y))
  <2>1. N(x) \in SUBSET N(y)
    BY <1>5, NewerOrder
  <2>2. x \in N(y) /\ x \notin N(x)
    BY <1>5, NewerOrder
  <2> QED
    BY <1>3, <2>1, <2>2, Zenon DEF Sizes
<1>6. ASSUME NEW j \in M, Rank(listing, i) = Rank(listing, j), i # j PROVE FALSE
  <2>1. Newer(listing.table, i, j) \/ Newer(listing.table, j, i)
    BY <1>6, NewerOrder
  <2> QED
    BY <1>2, <1>5, <1>6, <2>1, Zenon
<1>7. Rank(listing, i) \in Nat /\ Rank(listing, i) < Cardinality(M)
  <2>1. /\ Rank(listing, i) = Cardinality(N(i)) /\ Cardinality(N(i)) \in Nat /\ Cardinality(M) \in Nat
        /\ Cardinality(N(i)) <= Cardinality(M) /\ Cardinality(N(i)) # Cardinality(M)
    BY <1>2, <1>3, <1>4
  <2> QED
    BY <2>1
<1> QED
  BY <1>6, <1>7

\* A page that is not full is the last one.
LEMMA LastPage ==
  ASSUME Sizes, StorageType, NEW listing, listing.table \in {"incoming", "outgoing"}, listing.limit \in Nat,
         NEW offset \in Nat, NEW i \in Matches(listing), offset + listing.limit <= Rank(listing, i)
  PROVE  listing.limit <= Cardinality(Page(listing, offset))
<1> DEFINE M == Matches(listing)
           r == [x \in M |-> Rank(listing, x)]
<1>1. IsFiniteSet(M)
  BY FiniteMatches
<1>2. r \in [M -> Nat]
  BY Ranks
<1>3. \A x \in M : r[x] < Cardinality(M) /\ r[x] = Rank(listing, x)
  BY Ranks
<1>4. \A x, y \in M : r[x] = r[y] => x = y
  BY Ranks
<1>5. Page(listing, offset) = {x \in M : offset <= r[x] /\ r[x] < offset + listing.limit}
  BY DEF Page, Rank
<1>6. offset + listing.limit <= r[i]
  OBVIOUS
<1> HIDE DEF r, M
<1>7. i \in M
  BY DEF M
<1> QED
  BY <1>1, <1>2, <1>3, <1>4, <1>5, <1>6, <1>7, FullPage

\* What is created and ended meanwhile leaves no listing of all queries, or of the
\* finished ones, shorter, and pushes its queries to later places only.
LEMMA RanksGrow ==
  ASSUME Sizes, StorageType, StorageType', TablesGrow, NEW listing,
         listing.table \in {"incoming", "outgoing"}, listing.state \in {"any", "finished"}
  PROVE  /\ Matches(listing) \subseteq Matches(listing)'
         /\ \A i \in Matches(listing) : Rank(listing, i) <= Rank(listing, i)'
<1>1. Matches(listing) \subseteq Matches(listing)'
  <2>1. CASE listing.table = "incoming"
    BY <2>1 DEF Matches, TablesGrow
  <2>2. CASE listing.table = "outgoing"
    BY <2>2 DEF Matches, TablesGrow
  <2> QED
    BY <2>1, <2>2
<1>2. \A i, j \in Matches(listing) : Newer(listing.table, j, i) => Newer(listing.table, j, i)'
  <2>1. CASE listing.table = "incoming"
    BY <2>1 DEF Matches, Newer, TablesGrow
  <2>2. CASE listing.table = "outgoing"
    BY <2>2 DEF Newer
  <2> QED
    BY <2>1, <2>2
<1>3. IsFiniteSet(Matches(listing)')
  <2>1. IsFiniteSet(DOMAIN incoming') /\ IsFiniteSet(DOMAIN outgoing')
    BY FiniteTable DEF StorageType
  <2>2. Matches(listing)' \in SUBSET DOMAIN incoming' \/ Matches(listing)' \in SUBSET DOMAIN outgoing'
    BY DEF Matches
  <2> QED
    BY <2>1, <2>2, Zenon DEF Sizes
<1>4. ASSUME NEW i \in Matches(listing) PROVE Rank(listing, i) <= Rank(listing, i)'
  <2>1. PICK N, M : /\ N = {j \in Matches(listing) : Newer(listing.table, j, i)}
                    /\ M = {j \in Matches(listing)' : Newer(listing.table, j, i)'}
    BY Zenon
  <2>2. N \in SUBSET M /\ M \in SUBSET Matches(listing)'
    BY <1>1, <1>2, <2>1
  <2>3. Cardinality(N) <= Cardinality(M)
    BY <1>3, <2>2, Zenon DEF Sizes
  <2> QED
    BY <2>1, <2>3 DEF Rank
<1> QED
  BY <1>1, <1>4

\* What the requests do while the browser does nothing.
LEMMA ListedKept ==
  ASSUME Sizes, StorageType, StorageType', TablesGrow, Listed, browser' = browser PROVE Listed'
<1>1. PICK b, l : b = browser /\ l = browser.listing
  OBVIOUS
<1>2. /\ b \in Browsers /\ l = b.listing /\ browser = b /\ browser' = b
      /\ l.table \in {"incoming", "outgoing"} /\ l.state \in {"any", "finished", "running"}
      /\ b.offset \in Nat /\ l.limit \in Nat
  BY <1>1 DEF Listed, Browsers, Listings
<1>3. ASSUME l.state # "running", NEW o \in Nat, NEW u, ToCome(l, o, u) PROVE ToCome(l, o, u)'
  <2>1. /\ Matches(l) \subseteq Matches(l)'
        /\ \A i \in Matches(l) : Rank(l, i) <= Rank(l, i)'
    BY <1>2, <1>3, RanksGrow
  <2>2. ASSUME NEW i \in u PROVE i \in Matches(l)' /\ o <= Rank(l, i)'
    <3>1. i \in Matches(l) /\ o <= Rank(l, i) /\ Rank(l, i) <= Rank(l, i)'
      BY <1>3, <2>1 DEF ToCome
    <3>2. Rank(l, i) \in Nat
      BY <1>2, <3>1, Ranks
    <3>3. Rank(l, i)' \in Nat
      <4>1. IsFiniteSet(DOMAIN incoming') /\ IsFiniteSet(DOMAIN outgoing')
        BY FiniteTable DEF StorageType
      <4>2. PICK M : M = {j \in Matches(l)' : Newer(l.table, j, i)'}
        BY Zenon
      <4>3. M \in SUBSET DOMAIN incoming' \/ M \in SUBSET DOMAIN outgoing'
        BY <4>2 DEF Matches
      <4>4. Cardinality(M) \in Nat
        BY <4>1, <4>3, Zenon DEF Sizes
      <4> QED
        BY <4>2, <4>4 DEF Rank
    <3> QED
      BY <2>1, <3>1, <3>2, <3>3
  <2> QED
    BY <2>2 DEF ToCome
<1>4. b.pc = "page" /\ l.state # "running" => ToCome(l, b.offset, b.unseen)'
  BY <1>2, <1>3 DEF Listed
<1>5. b.pc = "close page" /\ l.state # "running" =>
        /\ ToCome(l, b.offset + l.limit, b.unseen \ b.keys)'
        /\ Cardinality(b.keys) < l.limit => b.unseen \subseteq b.keys
  <2>1. b.offset + l.limit \in Nat
    BY <1>2
  <2> QED
    BY <1>2, <1>3, <2>1 DEF Listed
<1>6. b.pc \in {"keys", "groups"} => b.keys \subseteq Texts /\ \A t \in b.keys : Differ(Finished(t))'
  BY <1>2, DifferKept DEF Listed
<1>7. /\ b.pc \in {"idle", "similar", "keys", "groups"} =>
           b.unseen = {} /\ b.offset = 0 /\ b.listing = NoListing
      /\ b.pc = "close page" => IsFiniteSet(b.keys)
      /\ b.pc = "done" /\ b.listing.state # "running" => b.unseen = {}
  BY <1>2 DEF Listed, ListingSkipsNothing
<1> QED
  BY <1>2, <1>4, <1>5, <1>6, <1>7, ListedNext

\* The steps of the browser that open a listing and read its pages.
LEMMA PagesListed ==
  ASSUME Sizes, StorageType, Listed, OpenListing \/ ListPage \/ RenderPage PROVE Listed'
<1>1. PICK b, l : b = browser /\ l = browser.listing
  OBVIOUS
<1>2. /\ b \in Browsers /\ l = b.listing /\ browser = b /\ l \in Listings
      /\ l.table \in {"incoming", "outgoing"} /\ l.state \in {"any", "finished", "running"}
      /\ b.offset \in Nat /\ l.limit \in Nat /\ b.offset + l.limit \in Nat
  <2>1. b \in Browsers /\ l = b.listing /\ browser = b
    BY <1>1 DEF Listed
  <2>2. l \in Listings /\ b.offset \in Nat
    BY <2>1 DEF Browsers
  <2>3. /\ l.table \in {"incoming", "outgoing"} /\ l.state \in {"any", "finished", "running"}
        /\ l.limit \in Nat
    BY <2>2 DEF Listings
  <2>4. b.offset + l.limit \in Nat
    BY <2>2, <2>3
  <2> QED
    BY <2>1, <2>2, <2>3, <2>4, Zenon
<1>3. UNCHANGED <<incoming, outgoing>>
  BY Zenon DEF OpenListing, ListPage, RenderPage, Browses
<1>4. \A x : Matches(x) \in SUBSET (Nat \cup Texts)
  BY DEF Matches, StorageType
<1>5. ASSUME NEW x \in Listings, b.pc = "idle",
             browser' = [b EXCEPT !.pc = "page", !.listing = x, !.unseen = Matches(x)]
      PROVE  Listed'
  <2>1. PICK c : c = [b EXCEPT !.pc = "page", !.listing = x, !.unseen = Matches(x)]
    OBVIOUS
  <2>2. /\ c \in Browsers /\ c.pc = "page" /\ c.listing = x /\ c.unseen = Matches(x)
        /\ c.offset = b.offset /\ browser' = c
    BY <1>2, <1>4, <1>5, <2>1 DEF Browsers
  <2>3. b.offset = 0
    BY <1>2, <1>5 DEF Listed
  <2>4. ToCome(x, 0, Matches(x))
    <3>1. \A i \in Matches(x) : Rank(x, i) \in Nat
      BY Ranks DEF Listings
    <3> QED
      BY <3>1 DEF ToCome
  <2>5. PICK u : u = Matches(x)
    OBVIOUS
  <2>6. ToCome(x, 0, u)'
    BY <1>3, <2>4, <2>5, ToComeSame
  <2> QED
    BY <2>2, <2>3, <2>5, <2>6, ListedNext
<1>6. CASE OpenListing
  <2>1. b.pc = "idle" /\ b.unseen = {} /\ b.offset = 0 /\ l = NoListing
    BY <1>2, <1>6, Zenon DEF OpenListing, Listed
  <2>2. IncomingListings \cup OutgoingListings \subseteq Listings
    BY ObservationAssumption DEF IncomingListings, OutgoingListings, Listings, RunningLimit
  <2>3. CASE browser' = [b EXCEPT !.pc = "similar"]
    <3>1. PICK c : c = [b EXCEPT !.pc = "similar"]
      BY Zenon
    <3>2. /\ c \in Browsers /\ c.pc = "similar" /\ c.listing = l /\ c.unseen = b.unseen
          /\ c.offset = b.offset /\ browser' = c
      BY <1>2, <2>3, <3>1 DEF Browsers
    <3> QED
      BY <2>1, <3>2, ListedNext
  <2>4. CASE browser' = Leaves("done", {})
    BY <2>4, LeavesListed
  <2> QED
    BY <1>2, <1>5, <1>6, <2>1, <2>2, <2>3, <2>4, Zenon DEF OpenListing, Browses
<1>7. CASE ListPage
  <2>1. CASE browser' = Leaves("failed", {})
    BY <2>1, LeavesListed
  <2>2. CASE browser' = [b EXCEPT !.pc = "close page", !.keys = Page(l, b.offset)] /\ b.pc = "page"
    <3>1. PICK c, P : P = Page(l, b.offset) /\ c = [b EXCEPT !.pc = "close page", !.keys = P]
      BY Zenon
    <3>2. P \subseteq Matches(l) /\ IsFiniteSet(P) /\ Cardinality(P) \in Nat
      <4>1. P \in SUBSET Matches(l)
        BY <3>1 DEF Page
      <4> QED
        BY <4>1, FiniteMatches, Zenon DEF Sizes
    <3>3. /\ c \in Browsers /\ c.pc = "close page" /\ c.listing = l /\ c.unseen = b.unseen
          /\ c.offset = b.offset /\ c.keys = P /\ browser' = c
      BY <1>2, <1>4, <2>2, <3>1, <3>2 DEF Browsers
    <3>4. ASSUME l.state # "running", NEW i \in b.unseen, i \notin P
          PROVE  i \in Matches(l) /\ b.offset + l.limit <= Rank(l, i) /\ l.limit <= Cardinality(P)
      <4>1. i \in Matches(l) /\ b.offset <= Rank(l, i)
        BY <1>2, <2>2, <3>4 DEF Listed, ToCome
      <4>2. Rank(l, i) \in Nat
        BY <1>2, <4>1, Ranks
      <4>3. ~(b.offset <= Rank(l, i) /\ Rank(l, i) < b.offset + l.limit)
        BY <3>1, <3>4, <4>1 DEF Page, Rank
      <4>4. b.offset + l.limit <= Rank(l, i)
        BY <1>2, <4>1, <4>2, <4>3
      <4> QED
        BY <1>2, <3>1, <4>1, <4>4, LastPage
    <3>5. l.state # "running" => ToCome(l, b.offset + l.limit, b.unseen \ P)
      BY <3>4 DEF ToCome
    <3>6. l.state # "running" => ToCome(l, b.offset + l.limit, b.unseen \ P)'
      BY <1>3, <3>5, ToComeSame
    <3>7. l.state # "running" /\ Cardinality(P) < l.limit => b.unseen \subseteq P
      BY <1>2, <3>2, <3>4
    <3> QED
      BY <3>2, <3>3, <3>6, <3>7, ListedNext
  <2> QED
    BY <1>2, <1>7, <2>1, <2>2 DEF ListPage, Browses
<1>8. CASE RenderPage
  <2>1. /\ b.pc = "close page" /\ IsFiniteSet(b.keys)
        /\ l.state # "running" => /\ ToCome(l, b.offset + l.limit, b.unseen \ b.keys)
                                  /\ Cardinality(b.keys) < l.limit => b.unseen \subseteq b.keys
    BY <1>2, <1>8 DEF RenderPage, Listed
  <2>2. CASE /\ HasNext(b.keys, l.limit)
             /\ browser' = [b EXCEPT !.pc = "page", !.offset = b.offset + l.limit, !.keys = {},
                                     !.unseen = b.unseen \ b.keys]
    <3>1. PICK c, o, u : /\ o = b.offset + l.limit /\ u = b.unseen \ b.keys
                         /\ c = [b EXCEPT !.pc = "page", !.offset = o, !.keys = {}, !.unseen = u]
      BY Zenon
    <3>2. /\ c \in Browsers /\ c.pc = "page" /\ c.listing = l /\ c.unseen = u /\ c.offset = o
          /\ browser' = c
      BY <1>2, <2>2, <3>1 DEF Browsers
    <3>3. l.state # "running" => ToCome(l, o, u)'
      BY <1>3, <2>1, <3>1, ToComeSame
    <3> QED
      BY <3>2, <3>3, ListedNext
  <2>3. CASE /\ ~HasNext(b.keys, l.limit)
             /\ browser' = [Leaves("done", b.unseen \ b.keys) EXCEPT !.listing.state = l.state]
    <3>1. PICK c, u : /\ u = b.unseen \ b.keys
                      /\ c = [Leaves("done", u) EXCEPT !.listing.state = l.state]
      BY Zenon
    <3>2. Cardinality(b.keys) \in Nat
      BY <2>1, Zenon DEF Sizes
    <3>3. Cardinality(b.keys) < l.limit
      BY <1>2, <2>3, <3>2 DEF HasNext
    <3>4. l.state # "running" => u = {}
      BY <2>1, <3>1, <3>3
    <3>5. [NoListing EXCEPT !.state = l.state] \in Listings /\ u \in SUBSET (Nat \cup Texts)
      BY <1>2, <3>1, ObservationAssumption DEF NoListing, Listings, Browsers
    <3>6. /\ c \in Browsers /\ c.pc = "done" /\ c.listing.state = l.state /\ c.unseen = u
          /\ browser' = c
      <4>1. c = [pc |-> "done", listing |-> [NoListing EXCEPT !.state = l.state], offset |-> 0,
                 keys |-> {}, unseen |-> u]
        BY <3>1, Zenon DEF Leaves, NoBrowser
      <4>2. [NoListing EXCEPT !.state = l.state].state = l.state
        BY DEF NoListing
      <4>3. PICK x \in Listings : x = [NoListing EXCEPT !.state = l.state] /\ x.state = l.state
        BY <3>5, <4>2, Zenon
      <4>4. c = [pc |-> "done", listing |-> x, offset |-> 0, keys |-> {}, unseen |-> u]
        BY <4>1, <4>3, Zenon
      <4>5. browser' = c
        BY <2>3, <3>1, Zenon
      <4> QED
        BY <3>5, <4>3, <4>4, <4>5, Zenon DEF Browsers
    <3> QED
      BY <3>4, <3>6, ListedNext
  <2> QED
    BY <1>2, <1>8, <2>2, <2>3 DEF RenderPage, Browses
<1> QED
  BY <1>6, <1>7, <1>8

\* Every step of the storage, its requests and its browser.
LEMMA ListedStep ==
  ASSUME Sizes, StorageInv, StorageInv', OwnRecords, Listed, [ObservationNext]_observationVars
  PROVE  OwnRecords' /\ Listed'
<1>1. StorageType /\ StorageType' /\ OwnRecords' /\ TablesGrow
  BY TablesStep DEF StorageInv
<1>2. CASE browser' = browser
  BY <1>1, <1>2, ListedKept
<1>3. CASE BrowserStep
  BY <1>1, <1>3, PagesListed, SimilarListed DEF BrowserStep
<1>4. CASE Restart
  BY <1>1, <1>4, LeavesListed DEF Restart
<1>5. BrowserStep \/ Restart \/ browser' = browser
  BY Zenon DEF ObservationNext, StartQuery, HandlerStep, CreateIncomingQuery, ReturnEarly, BeginTx, InsertOutgoing,
               CommitTx, EndOutgoingQuery, EndIncomingQuery, CloseStorage, observationVars
<1> QED
  BY <1>1, <1>2, <1>3, <1>4, <1>5

INSTANCE FiniteSetTheorems

\* The facts about the sizes of finite sets, from the library.
LEMMA SizesHold == Sizes
<1>1. ASSUME NEW S, NEW T, NEW f, f \in [S -> T], IsFiniteSet(T), OneToOne(f, S)
      PROVE  /\ IsFiniteSet(S) /\ Cardinality(S) <= Cardinality(T)
             /\ Cardinality(S) = Cardinality(T) => Onto(f, S, T)
  <2>1. f \in Injection(S, T)
    BY <1>1 DEF Injection, IsInjective, OneToOne
  <2>2. /\ IsFiniteSet(S) /\ Cardinality(S) <= Cardinality(T)
        /\ Cardinality(S) = Cardinality(T) => f \in Surjection(S, T)
    BY <1>1, <2>1, FS_Injection
  <2> QED
    BY <2>2 DEF Surjection, Onto
<1>2. \A a, b \in Int : /\ IsFiniteSet(a .. b)
                         /\ Cardinality(a .. b) = IF a > b THEN 0 ELSE b - a + 1
  BY FS_Interval
<1>3. \A S : IsFiniteSet(S) => \A T \in SUBSET S :
        /\ IsFiniteSet(T) /\ Cardinality(T) <= Cardinality(S)
        /\ Cardinality(T) = Cardinality(S) => S = T
  BY FS_Subset
<1>4. \A S : IsFiniteSet(S) => Cardinality(S) \in Nat
  BY FS_CardinalityType
<1> QED
  BY <1>1, <1>2, <1>3, <1>4, Zenon DEF Sizes

\* A browser that follows the links of a listing from the first page to the last is
\* shown every query that was there when it began, however many requests create and end
\* queries between its pages, whatever the size of a page: new queries only push the
\* others to later places, and a page that is not full has nothing after it.
THEOREM ListingShowsAll == ObservationSpec => []ListingSkipsNothing
<1>1. Listed => ListingSkipsNothing
  BY DEF Listed
<1>2. ObservationInit => OwnRecords /\ Listed
  BY OwnInit, NoBrowserListed DEF ObservationInit
<1>3. StorageInv /\ StorageInv' /\ OwnRecords /\ Listed /\ [ObservationNext]_observationVars
        => OwnRecords' /\ Listed'
  BY SizesHold, ListedStep
<1> QED
  BY <1>1, <1>2, <1>3, StorageInvariant, PTL DEF ObservationSpec
=============================================================================
