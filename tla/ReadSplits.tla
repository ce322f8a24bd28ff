----------------------------- MODULE ReadSplits -----------------------------
(***************************************************************************)
(* How one split is read: the pipeline that ReadSplitsStreamer.Run starts. *)
(*                                                                         *)
(*   reader      the goroutine of Run that calls dataSource.ReadSplit and  *)
(*               then offers its error to errorChan                        *)
(*   conn c      one errgroup goroutine per data source connection; it     *)
(*               reads rows and owns the sink of that connection           *)
(*   handler     sinkTerminationHandler of the sink factory, which closes  *)
(*               the result queue when every sink has reported             *)
(*   consumer    writeDataToStream, in the goroutine of the gRPC handler   *)
(*   client      may cancel the context of the gRPC stream at any moment   *)
(*                                                                         *)
(* There are two contexts.  The stream's context is the one the sinks and  *)
(* the termination handler wait on (streamDone).  The streamer's own clone *)
(* of it (cloneDone) is cancelled when the consumer returns, and only the  *)
(* reader looks at it.                                                     *)
(*                                                                         *)
(* A row is its index among the rows of its connection and its size in     *)
(* bytes; a page is a range of rows.                                       *)
(***************************************************************************)
EXTENDS TrafficTracker, Sequences, FiniteSets

CONSTANTS
  Conns,             \* connections made by the connection manager
  Rows,              \* Rows[c]: number of rows that connection c yields
  Volume,            \* Volume[c][k]: size in bytes of the first k of them
  QueueCap,          \* TPagingConfig.prefetch_queue_capacity
  ToResponseMayFail  \* whether the Arrow encoding of a page can fail

ASSUME ReadAssumption ==
  /\ IsFiniteSet(Conns) /\ Conns # {}
  /\ Rows \in [Conns -> Nat]
  /\ \A c \in Conns :
       /\ Volume[c] \in [0 .. Rows[c] -> Nat]
       /\ Volume[c][0] = 0
       /\ \A k \in 1 .. Rows[c] : Volume[c][k - 1] <= Volume[c][k]
  /\ QueueCap \in Nat
  /\ ToResponseMayFail \in BOOLEAN

VARIABLES
  streamDone,   \* the context of the gRPC stream is cancelled
  reader,       \* where the reader goroutine is
  readErr,      \* the error that ReadSplit returned is not nil
  conn,         \* conn[c]: where the goroutine of connection c is
  added,        \* added[c]: rows that sink.AddRow accepted
  flushed,      \* flushed[c]: rows that left currBuffer in a page
  tracker,      \* tracker[c]: trafficTracker of the sink of c
  queue,        \* buffered elements of resultQueue
  closed,       \* resultQueue is closed
  termChan,     \* number of sinks waiting in terminateChan
  handler,      \* where sinkTerminationHandler is
  terminated,   \* terminatedSinks
  consumer,     \* where writeDataToStream is
  cur,          \* the ReadResult that the consumer is sending
  result,       \* what writeDataToStream returned
  sent,         \* sent[c]: rows of c the client got, without a gap
  terminalSent, \* connections whose terminal page the client got
  gap,          \* a page was sent although an earlier one of it was not
  query         \* state of the incoming query in the observation storage

sinkVars == <<added, flushed, tracker>>
chanVars == <<queue, closed, termChan, handler, terminated>>
clientVars == <<sent, terminalSent, gap>>
vars == <<streamDone, reader, readErr, conn, sinkVars, chanVars,
          consumer, cur, result, clientVars, query>>

Page == [conn : Conns, lo : Nat, hi : Nat, rows : Nat, bytes : Nat,
         terminal : BOOLEAN]

NoPage == [conn |-> CHOOSE c \in Conns : TRUE, lo |-> 0, hi |-> 0,
           rows |-> 0, bytes |-> 0, terminal |-> FALSE]

\* s.ctx is done: the consumer has returned, or the stream's context is done.
cloneDone == streamDone \/ consumer = "returned"

\* currBuffer.TotalRows()
TotalRows(c) == added[c] - flushed[c]

Exited(c) == conn[c] \in {"done", "dropped", "failed"}

TypeOK ==
  /\ streamDone \in BOOLEAN
  /\ reader \in {"connect", "sinks", "wait", "report", "exit"}
  /\ readErr \in BOOLEAN
  /\ conn \in [Conns -> {"idle", "query", "next", "flush", "finish",
                         "notify", "done", "dropped", "failed"}]
  /\ added \in [Conns -> Nat]
  /\ flushed \in [Conns -> Nat]
  /\ tracker \in [Conns -> Tracker]
  /\ queue \in Seq(Page)
  /\ closed \in BOOLEAN
  /\ termChan \in Nat
  /\ handler \in {"off", "loop", "exit"}
  /\ terminated \in Nat
  /\ consumer \in {"select", "send", "returned"}
  /\ cur \in Page
  /\ result \in {"none", "ok", "error", "canceled"}
  /\ sent \in [Conns -> Nat]
  /\ terminalSent \in SUBSET Conns
  /\ gap \in BOOLEAN
  /\ query \in {"running", "finished", "canceled"}

Init ==
  /\ streamDone = FALSE
  /\ reader = "connect"
  /\ readErr = FALSE
  /\ conn = [c \in Conns |-> "idle"]
  /\ added = [c \in Conns |-> 0]
  /\ flushed = [c \in Conns |-> 0]
  /\ tracker = [c \in Conns |-> newTrafficTracker]
  /\ queue = <<>>
  /\ closed = FALSE
  /\ termChan = 0
  /\ handler = "off"
  /\ terminated = 0
  /\ consumer = "select"
  /\ cur = NoPage
  /\ result = "none"
  /\ sent = [c \in Conns |-> 0]
  /\ terminalSent = {}
  /\ gap = FALSE
  /\ query = "running"
-----------------------------------------------------------------------------
(* The client *)

Cancel ==
  /\ ~streamDone
  /\ streamDone' = TRUE
  /\ UNCHANGED <<reader, readErr, conn, sinkVars, chanVars,
                 consumer, cur, result, clientVars, query>>
-----------------------------------------------------------------------------
(* The reader *)

\* Connections are made (with retries), or ReadSplit returns the error.
MakeConnection ==
  /\ reader = "connect"
  /\ \/ reader' = "sinks" /\ UNCHANGED readErr
     \/ reader' = "report" /\ readErr' = TRUE
  /\ UNCHANGED <<streamDone, conn, sinkVars, chanVars,
                 consumer, cur, result, clientVars, query>>

\* MakeSinks: one sink and one goroutine per connection, and the handler;
\* or a buffer can not be made.
MakeSinks ==
  /\ reader = "sinks"
  /\ \/ /\ reader' = "wait"
        /\ conn' = [c \in Conns |-> "query"]
        /\ handler' = "loop"
        /\ UNCHANGED readErr
     \/ /\ reader' = "report"
        /\ readErr' = TRUE
        /\ UNCHANGED <<conn, handler>>
  /\ UNCHANGED <<streamDone, sinkVars, queue, closed, termChan, terminated,
                 consumer, cur, result, clientVars, query>>

\* A bug of a kind seen with hand-written groups: the first error is ignored.
GroupWait_DropError ==
  /\ reader = "wait"
  /\ \A c \in Conns : Exited(c)
  /\ reader' = "report"
  /\ UNCHANGED <<streamDone, readErr, conn, sinkVars, chanVars,
                 consumer, cur, result, clientVars, query>>

\* group.Wait(): every goroutine has returned, and the first error is kept.
GroupWait ==
  /\ reader = "wait"
  /\ \A c \in Conns : Exited(c)
  /\ reader' = "report"
  /\ readErr' = (\E c \in Conns : conn[c] = "failed")
  /\ UNCHANGED <<streamDone, conn, sinkVars, chanVars,
                 consumer, cur, result, clientVars, query>>

\* A consumer that takes a nil error for the end of the results.
ReportError_NilEnds ==
  /\ reader = "report"
  /\ consumer = "select"
  /\ reader' = "exit"
  /\ consumer' = "returned"
  /\ result' = IF readErr THEN "error" ELSE "ok"
  /\ UNCHANGED <<streamDone, readErr, conn, sinkVars, chanVars, cur,
                 clientVars, query>>

\* errorChan is not buffered: the error is taken by a consumer that is in
\* its select; a nil error only makes the consumer loop.
ReportError ==
  /\ reader = "report"
  /\ consumer = "select"
  /\ reader' = "exit"
  /\ IF readErr THEN consumer' = "returned" /\ result' = "error"
                ELSE UNCHANGED <<consumer, result>>
  /\ UNCHANGED <<streamDone, readErr, conn, sinkVars, chanVars, cur,
                 clientVars, query>>

ReaderGivesUp ==
  /\ reader = "report"
  /\ cloneDone
  /\ reader' = "exit"
  /\ UNCHANGED <<streamDone, readErr, conn, sinkVars, chanVars,
                 consumer, cur, result, clientVars, query>>
-----------------------------------------------------------------------------
(* Connection c and its sink *)

Goto(c, place) == conn' = [conn EXCEPT ![c] = place]

\* Size of the row that connection c yields next.
NextRow(c) == Volume[c][added[c] + 1] - Volume[c][added[c]]

\* MakeSelectQuery, CreateOutgoingQuery, Query (with retries), MakeTransformer.
Query(c) ==
  /\ conn[c] = "query"
  /\ Goto(c, "next") \/ Goto(c, "failed")
  /\ UNCHANGED <<streamDone, reader, readErr, sinkVars, chanVars,
                 consumer, cur, result, clientVars, query>>

\* currBuffer.addRow: the row counted by the tracker is appended, or not.
AppendRow(c, counted) ==
  /\ tracker' = [tracker EXCEPT ![c] = counted]
  /\ \/ Goto(c, "next") /\ added' = [added EXCEPT ![c] = @ + 1]
     \/ Goto(c, "failed") /\ UNCHANGED added

\* rows.Next, rows.Scan and sink.AddRow up to the flush it may need.
AddRow(c) ==
  /\ conn[c] = "next"
  /\ added[c] < Rows[c]
  /\ \/ /\ PageSizeExceeded(NextRow(c))
        /\ Goto(c, "failed")
        /\ UNCHANGED <<added, tracker>>
     \/ /\ ~PageSizeExceeded(NextRow(c))
        /\ WouldBeEnough(tracker[c], NextRow(c))
        /\ Goto(c, "flush")
        /\ UNCHANGED <<added, tracker>>
     \/ /\ ~PageSizeExceeded(NextRow(c))
        /\ ~WouldBeEnough(tracker[c], NextRow(c))
        /\ AppendRow(c, CountRow(tracker[c], NextRow(c)))
  /\ UNCHANGED <<streamDone, reader, readErr, flushed, chanVars,
                 consumer, cur, result, clientVars, query>>

\* rows.Scan, the read limiter or rows.Err() end the reading with an error.
ReadFails(c) ==
  /\ conn[c] = "next"
  /\ Goto(c, "failed")
  /\ UNCHANGED <<streamDone, reader, readErr, sinkVars, chanVars,
                 consumer, cur, result, clientVars, query>>

\* Swapped arguments of flush(makeNewBuffer, isTerminalMessage bool).
PageOf_Swapped(c, isTerminal) ==
  [conn |-> c, lo |-> flushed[c] + 1, hi |-> added[c],
   rows |-> tracker[c].rowsCurr, bytes |-> tracker[c].bytesCurr,
   terminal |-> ~isTerminal]

PageOf(c, isTerminal) ==
  [conn |-> c, lo |-> flushed[c] + 1, hi |-> added[c],
   rows |-> tracker[c].rowsCurr, bytes |-> tracker[c].bytesCurr,
   terminal |-> isTerminal]

\* The same slip without a buffer: nobody waits, the page is dropped.
respondWith_Rendezvous(page) ==
  \/ /\ consumer = "select"
     /\ consumer' = "send"
     /\ cur' = page
     /\ UNCHANGED queue
  \/ /\ consumer # "select"
     /\ UNCHANGED <<queue, consumer, cur>>

\* respondWith: the page is queued (or, without a buffer, handed to a waiting
\* consumer), or it is dropped because the stream's context is done.
respondWith(page) ==
  \/ /\ Len(queue) < QueueCap
     /\ queue' = Append(queue, page)
     /\ UNCHANGED <<consumer, cur>>
  \/ /\ QueueCap = 0
     /\ consumer = "select"
     /\ consumer' = "send"
     /\ cur' = page
     /\ UNCHANGED queue
  \/ /\ streamDone
     /\ UNCHANGED <<queue, consumer, cur>>

\* flush(true, false) inside AddRow: the page leaves, a new buffer is made
\* and the row that did not fit is tried again.
Flush(c) ==
  /\ conn[c] = "flush"
  /\ respondWith(PageOf(c, FALSE))
  /\ flushed' = [flushed EXCEPT ![c] = added[c]]
  /\ LET fresh == refreshCounters(tracker[c]) IN
       \/ AppendRow(c, CountRow(fresh, NextRow(c)))
       \/ /\ Goto(c, "failed")
          /\ tracker' = [tracker EXCEPT ![c] = fresh]
          /\ UNCHANGED added
  /\ UNCHANGED <<streamDone, reader, readErr, closed, termChan, handler,
                 terminated, result, clientVars, query>>

\* The rows are over and rows.Err() is nil: sink.Finish starts.
EndOfRows(c) ==
  /\ conn[c] = "next"
  /\ added[c] = Rows[c]
  /\ Goto(c, IF TotalRows(c) = 0 THEN "notify" ELSE "finish")
  /\ UNCHANGED <<streamDone, reader, readErr, sinkVars, chanVars,
                 consumer, cur, result, clientVars, query>>

\* flush(false, true) inside Finish.
FinishFlush(c) ==
  /\ conn[c] = "finish"
  /\ respondWith(PageOf(c, TRUE))
  /\ flushed' = [flushed EXCEPT ![c] = added[c]]
  /\ tracker' = [tracker EXCEPT ![c] = refreshCounters(tracker[c])]
  /\ Goto(c, "notify")
  /\ UNCHANGED <<streamDone, reader, readErr, added, closed, termChan,
                 handler, terminated, result, clientVars, query>>

\* The end of Finish: terminateChan has room for every sink.
NotifyFactory(c) ==
  /\ conn[c] = "notify"
  /\ \/ /\ termChan < Cardinality(Conns)
        /\ termChan' = termChan + 1
        /\ Goto(c, "done")
     \/ /\ streamDone
        /\ Goto(c, "dropped")
        /\ UNCHANGED termChan
  /\ UNCHANGED <<streamDone, reader, readErr, sinkVars, queue, closed,
                 handler, terminated, consumer, cur, result, clientVars,
                 query>>
-----------------------------------------------------------------------------
(* The termination handler of the sink factory *)

\* An off-by-one: the queue is closed when one sink is still to come.
LastSink_Early(n) == n + 1 >= Cardinality(Conns)

LastSink(n) == n = Cardinality(Conns)

SinkTerminated ==
  /\ handler = "loop"
  /\ termChan > 0
  /\ termChan' = termChan - 1
  /\ terminated' = terminated + 1
  /\ IF LastSink(terminated + 1)
     THEN closed' = TRUE /\ handler' = "exit"
     ELSE UNCHANGED <<closed, handler>>
  /\ UNCHANGED <<streamDone, reader, readErr, conn, sinkVars, queue,
                 consumer, cur, result, clientVars, query>>

HandlerCanceled ==
  /\ handler = "loop"
  /\ streamDone
  /\ handler' = "exit"
  /\ UNCHANGED <<streamDone, reader, readErr, conn, sinkVars, queue, closed,
                 termChan, terminated, consumer, cur, result, clientVars,
                 query>>
-----------------------------------------------------------------------------
(* The consumer *)

Return(res) == consumer' = "returned" /\ result' = res

ReceivePage ==
  /\ consumer = "select"
  /\ queue # <<>>
  /\ cur' = Head(queue)
  /\ queue' = Tail(queue)
  /\ consumer' = "send"
  /\ UNCHANGED <<streamDone, reader, readErr, conn, sinkVars, closed,
                 termChan, handler, terminated, result, clientVars, query>>

\* A consumer that takes the close for the end without draining the queue.
ReceiveClosed_NoDrain ==
  /\ consumer = "select"
  /\ closed
  /\ Return("ok")
  /\ UNCHANGED <<streamDone, reader, readErr, conn, sinkVars, chanVars,
                 cur, clientVars, query>>

\* A receive on a closed channel fails only when nothing is buffered.
ReceiveClosed ==
  /\ consumer = "select"
  /\ closed
  /\ queue = <<>>
  /\ Return("ok")
  /\ UNCHANGED <<streamDone, reader, readErr, conn, sinkVars, chanVars,
                 cur, clientVars, query>>

ConsumerCanceled ==
  /\ consumer = "select"
  /\ streamDone
  /\ Return("canceled")
  /\ UNCHANGED <<streamDone, reader, readErr, conn, sinkVars, chanVars,
                 cur, clientVars, query>>

\* What the client knows after it got the page.
Deliver(page) ==
  IF page.lo = sent[page.conn] + 1
  THEN /\ sent' = [sent EXCEPT ![page.conn] = page.hi]
       /\ terminalSent' = IF page.terminal THEN terminalSent \cup {page.conn}
                                           ELSE terminalSent
       /\ UNCHANGED gap
  ELSE gap' = TRUE /\ UNCHANGED <<sent, terminalSent>>

SendPage ==
  /\ consumer = "send"
  /\ Deliver(cur)
  /\ consumer' = "select"
  /\ UNCHANGED <<streamDone, reader, readErr, conn, sinkVars, chanVars,
                 cur, result, query>>

\* ToResponse fails; the context of the stream is not affected.
EncodeFails ==
  /\ ToResponseMayFail
  /\ consumer = "send"
  /\ Return("error")
  /\ UNCHANGED <<streamDone, reader, readErr, conn, sinkVars, chanVars,
                 cur, clientVars, query>>

\* stream.Send fails: gRPC aborts the stream and its context is done.
SendFails ==
  /\ consumer = "send"
  /\ Return("error")
  /\ streamDone' = TRUE
  /\ UNCHANGED <<reader, readErr, conn, sinkVars, chanVars,
                 cur, clientVars, query>>

\* Run returns when the reader is gone (wg.Wait); doReadSplit registers the
\* outcome, the handler returns and gRPC ends the context of the stream.
HandlerReturns ==
  /\ query = "running"
  /\ consumer = "returned"
  /\ reader = "exit"
  /\ query' = IF result = "ok" THEN "finished" ELSE "canceled"
  /\ streamDone' = TRUE
  /\ UNCHANGED <<reader, readErr, conn, sinkVars, chanVars,
                 consumer, cur, result, clientVars>>
-----------------------------------------------------------------------------
Reader == MakeConnection \/ MakeSinks \/ GroupWait \/ ReportError \/ ReaderGivesUp

Connection(c) ==
  \/ Query(c) \/ AddRow(c) \/ ReadFails(c) \/ Flush(c)
  \/ EndOfRows(c) \/ FinishFlush(c) \/ NotifyFactory(c)

Handler == SinkTerminated \/ HandlerCanceled

Consumer ==
  \/ ReceivePage \/ ReceiveClosed \/ ConsumerCanceled
  \/ SendPage \/ EncodeFails \/ SendFails \/ HandlerReturns

Next == Cancel \/ Reader \/ Handler \/ Consumer \/ \E c \in Conns : Connection(c)

Spec == Init /\ [][Next]_vars

\* Goroutines are scheduled; nothing forces the client to cancel.
Fairness ==
  /\ WF_vars(Reader) /\ WF_vars(Handler) /\ WF_vars(Consumer)
  /\ \A c \in Conns : WF_vars(Connection(c))

FairSpec == Spec /\ Fairness
-----------------------------------------------------------------------------
(* Properties *)

\* The pages between the sinks and the client, oldest first: the one that is
\* being sent (index 0), then the queue.
InFlight == {i \in 0 .. Len(queue) : i > 0 \/ consumer = "send"}
PageAt(i) == IF i = 0 THEN cur ELSE queue[i]

\* sinkTerminationHandler closes resultQueue only after the last send of every
\* sink: a send on the closed channel would bring the process down.
NoSendOnClosed == closed => \A c \in Conns : conn[c] = "done"

\* While the client is there, writeDataToStream returns nil only if no
\* connection failed and the client got every row of every connection, with
\* the terminal page of every connection that had rows.
NothingLost ==
  result = "ok" /\ ~streamDone =>
    \A c \in Conns :
      /\ conn[c] = "done"
      /\ sent[c] = Rows[c]
      /\ Rows[c] # 0 => c \in terminalSent

\* The pages of a connection reach the client in order and without a gap,
\* although respondWith drops pages, unless the stream was cancelled.
NoGap == gap => streamDone

\* Every page respects the configured limits, is not empty, and its Stats are
\* those of the rows in it (AddRow counts a row before it appends it, and
\* counts it again after a flush).
PageStatsExact ==
  \A i \in InFlight : LET p == PageAt(i) IN
    /\ p.lo <= p.hi
    /\ p.rows = p.hi - p.lo + 1
    /\ p.bytes = Volume[p.conn][p.hi] - Volume[p.conn][p.lo - 1]
    /\ WithinPageLimits(p.rows, p.bytes)

\* What FinalStats registers in the observation storage for a finished query
\* is what the client got.
FinalStatsExact ==
  result = "ok" /\ ~streamDone =>
    \A c \in Conns :
      /\ tracker[c].rowsTotal = sent[c]
      /\ tracker[c].bytesTotal = Volume[c][sent[c]]

\* "flag marking this stream as completed": no page of a connection follows
\* its terminal page, and the terminal page ends with the last row.
TerminalIsLast ==
  \A i \in InFlight : LET p == PageAt(i) IN
    /\ p.conn \notin terminalSent
    /\ p.terminal => /\ p.hi = Rows[p.conn]
                     /\ \A j \in InFlight : j > i => PageAt(j).conn # p.conn

\* The consumer has left because a page could not be encoded, the stream of the
\* client is still open, and the reader is not gone.
LeftOnEncoding == result = "error" /\ ~streamDone /\ reader # "exit"

\* The handler returns, and no goroutine of the request outlives it for ever,
\* whatever fails and whenever the client cancels.  The one exception is the
\* reader that waits, on the context of the stream, for a consumer that left.
Terminates ==
  <>[](\/ LeftOnEncoding
       \/ /\ query # "running"
          /\ handler # "loop"
          /\ \A c \in Conns : Exited(c) \/ conn[c] = "idle")

\* "exit from this function will cause publisher's goroutine termination as
\* well" (writeDataToStream).
ExitStopsPublisher == consumer = "returned" ~> reader = "exit"
-----------------------------------------------------------------------------
(* The promise to the rest of the connector *)

Status ==
  CASE consumer # "returned" -> "running"
    [] consumer = "returned" /\ result = "ok" -> "ok"
    [] OTHER -> "failed"

Promise == INSTANCE SplitRead
  WITH Size <- Rows, status <- Status, canceled <- streamDone

\* The pipeline implements the reading of a split as the callers see it.
PromiseKept == Promise!FairSpec
=============================================================================
