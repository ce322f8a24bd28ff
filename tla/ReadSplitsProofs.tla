-------------------------- MODULE ReadSplitsProofs --------------------------
(***************************************************************************)
(* Safety of the reading of a split, for any number of connections, any    *)
(* rows, page limits and queue capacity: the inductive invariant, the      *)
(* steps that keep it, and what follows from it.                           *)
(***************************************************************************)
EXTENDS ReadSplits, TLAPS
-----------------------------------------------------------------------------
(* The inductive invariant *)

\* A sink: how far it is, and what its tracker holds.  Once the goroutine has
\* failed, its tracker may have counted a row that was not appended.
SinkOK(c) ==
  /\ flushed[c] <= added[c] /\ added[c] <= Rows[c]
  /\ conn[c] \in {"idle", "query"} => added[c] = 0
  /\ conn[c] = "next" => added[c] = 0 \/ flushed[c] < added[c]
  /\ conn[c] = "flush" => /\ flushed[c] < added[c] /\ added[c] < Rows[c]
                          /\ ~PageSizeExceeded(NextRow(c))
  /\ conn[c] = "finish" => flushed[c] < added[c] /\ added[c] = Rows[c]
  /\ conn[c] \in {"notify", "done", "dropped"} =>
       flushed[c] = added[c] /\ added[c] = Rows[c]
  /\ conn[c] # "failed" =>
       /\ tracker[c].rowsCurr = added[c] - flushed[c]
       /\ tracker[c].bytesCurr = Volume[c][added[c]] - Volume[c][flushed[c]]
       /\ tracker[c].rowsTotal = added[c]
       /\ tracker[c].bytesTotal = Volume[c][added[c]]
       /\ WithinPageLimits(tracker[c].rowsCurr, tracker[c].bytesCurr)

SinkInv == \A c \in Conns : SinkOK(c)

\* Every sink that has reported is counted once, and the queue is closed
\* after the last one.
DoneConns == {c \in Conns : conn[c] = "done"}
CountInv ==
  /\ terminated + termChan = Cardinality(DoneConns)
  /\ closed => terminated = Cardinality(Conns) /\ handler = "exit"
  /\ reader \in {"connect", "sinks"} =>
       /\ handler = "off" /\ \A c \in Conns : conn[c] = "idle"

\* A page that has left its sink: not sent yet, not empty, exact, and terminal
\* only at the end of the rows.
PageOK(p) ==
  /\ sent[p.conn] < p.lo /\ p.lo <= p.hi /\ p.hi <= flushed[p.conn]
  /\ p.rows = p.hi - p.lo + 1
  /\ p.bytes = Volume[p.conn][p.hi] - Volume[p.conn][p.lo - 1]
  /\ WithinPageLimits(p.rows, p.bytes)
  /\ p.terminal => p.hi = Rows[p.conn]

FlightInv ==
  /\ Len(queue) <= QueueCap
  /\ \A i \in InFlight : PageOK(PageAt(i))
  /\ \A i, j \in InFlight :
       i < j /\ PageAt(i).conn = PageAt(j).conn => PageAt(i).hi < PageAt(j).lo

\* What the client has.
ClientInv ==
  \A c \in Conns : /\ sent[c] <= flushed[c]
                   /\ c \in terminalSent => sent[c] = Rows[c]

\* Until the stream is cancelled, a row that left its sink is with the client
\* or in flight, and so is the terminal page of a sink that has finished.
InFlightRow(c, r) ==
  \E i \in InFlight : PageAt(i).conn = c /\ PageAt(i).lo <= r /\ r <= PageAt(i).hi
InFlightEnd(c) == \E i \in InFlight : PageAt(i).conn = c /\ PageAt(i).terminal
CoverInv ==
  ~streamDone /\ consumer # "returned" =>
    \A c \in Conns :
      /\ \A r \in 1 .. flushed[c] : sent[c] < r => InFlightRow(c, r)
      /\ conn[c] \in {"notify", "done"} /\ Rows[c] # 0 =>
           c \in terminalSent \/ InFlightEnd(c)

OutcomeInv == /\ consumer # "returned" => result = "none"
              /\ gap => streamDone

IInv == /\ TypeOK /\ SinkInv /\ CountInv /\ FlightInv /\ ClientInv
        /\ CoverInv /\ OutcomeInv /\ NothingLost
-----------------------------------------------------------------------------
(* Types *)

\* The size of the next row is a number.
LEMMA NextRowType ==
  ASSUME TypeOK, NEW c \in Conns, added[c] < Rows[c]
  PROVE  NextRow(c) \in Nat
<1>1. Rows[c] \in Nat /\ added[c] \in Nat
  BY ReadAssumption DEF TypeOK
<1>2. added[c] + 1 \in 1 .. Rows[c] /\ added[c] \in 0 .. Rows[c]
      /\ added[c] + 1 \in 0 .. Rows[c]
  BY <1>1
<1>3. Volume[c][added[c]] \in Nat /\ Volume[c][added[c] + 1] \in Nat
  BY <1>2, ReadAssumption, SMTT(60)
<1>4. Volume[c][(added[c] + 1) - 1] <= Volume[c][added[c] + 1]
  BY <1>2, ReadAssumption
<1>5. (added[c] + 1) - 1 = added[c]
  BY <1>1
<1> QED
  BY <1>3, <1>4, <1>5 DEF NextRow

\* The empty page is a page.
LEMMA NoPageType == NoPage \in Page
<1>1. PICK c \in Conns : TRUE
  BY ReadAssumption
<1>2. (CHOOSE x \in Conns : TRUE) \in Conns
  BY <1>1
<1> QED
  BY <1>2 DEF NoPage, Page

\* A page cut from the buffer of a sink is a page.
LEMMA PageOfType ==
  ASSUME TypeOK, NEW c \in Conns, NEW t \in BOOLEAN
  PROVE  PageOf(c, t) \in Page
<1>1. added[c] \in Nat /\ flushed[c] \in Nat /\ tracker[c] \in Tracker
  BY DEF TypeOK
<1> QED
  BY <1>1 DEF PageOf, Page, Tracker

\* The traffic tracker keeps its type.
LEMMA TrackerType ==
  ASSUME NEW tt \in Tracker
  PROVE  /\ refreshCounters(tt) \in Tracker
         /\ \A b \in Nat : CountRow(tt, b) \in Tracker
<1>1. refreshCounters(tt) \in Tracker
  BY Zenon DEF Tracker, refreshCounters
<1>2. ASSUME NEW b \in Nat PROVE CountRow(tt, b) \in Tracker
  BY DEF Tracker, CountRow
<1> QED
  BY <1>1, <1>2

\* An updated function keeps its type.
LEMMA Update ==
  ASSUME NEW S, NEW T, NEW f \in [S -> T], NEW x \in S, NEW v \in T
  PROVE  [f EXCEPT ![x] = v] \in [S -> T]
OBVIOUS

\* A page put into the result queue keeps the types of the queue and its reader.
LEMMA RespondType ==
  ASSUME TypeOK, NEW p \in Page, respondWith(p)
  PROVE  /\ queue' \in Seq(Page)
         /\ consumer' \in {"select", "send", "returned"}
         /\ cur' \in Page
<1>1. CASE Len(queue) < QueueCap /\ queue' = Append(queue, p)
           /\ UNCHANGED <<consumer, cur>>
  BY <1>1 DEF TypeOK
<1>2. CASE QueueCap = 0 /\ consumer' = "send" /\ cur' = p /\ UNCHANGED queue
  BY <1>2 DEF TypeOK
<1>3. CASE UNCHANGED <<queue, consumer, cur>>
  BY <1>3 DEF TypeOK
<1> QED
  BY <1>1, <1>2, <1>3 DEF respondWith

\* The part of TypeOK about flags.
Flags == /\ streamDone \in BOOLEAN /\ readErr \in BOOLEAN
         /\ closed \in BOOLEAN /\ gap \in BOOLEAN

\* Every step keeps the types of the flags.
LEMMA FlagsStep == TypeOK /\ [Next]_vars => Flags'
<1> SUFFICES ASSUME TypeOK, [Next]_vars PROVE Flags'
  OBVIOUS
<1> USE DEF TypeOK, Flags, sinkVars, chanVars, clientVars
<1>1. CASE Cancel \/ UNCHANGED vars
  BY <1>1, Zenon DEF Cancel, vars
<1>2. CASE Reader
  BY <1>2, Zenon DEF Reader, MakeConnection, MakeSinks, GroupWait,
     ReportError, ReaderGivesUp
<1>3. CASE Handler
  BY <1>3, Zenon DEF Handler, SinkTerminated, HandlerCanceled
<1>4. CASE Consumer
  BY <1>4, Zenon DEF Consumer, ReceivePage, ReceiveClosed, ConsumerCanceled,
     SendPage, Deliver, EncodeFails, SendFails, HandlerReturns
<1>5. ASSUME NEW c \in Conns, Connection(c) PROVE Flags'
  BY <1>5, Zenon DEF Connection, Query, AddRow, ReadFails, Flush, EndOfRows,
     FinishFlush, NotifyFactory
<1> QED
  BY <1>1, <1>2, <1>3, <1>4, <1>5, Zenon DEF Next

\* Every step keeps the types.
LEMMA TypeStep == TypeOK /\ SinkInv /\ [Next]_vars => TypeOK'
<1> SUFFICES ASSUME TypeOK, SinkInv, [Next]_vars PROVE TypeOK'
  OBVIOUS
<1>f. Flags'
  BY FlagsStep
<1> USE DEF TypeOK, Flags, sinkVars, chanVars, clientVars
<1>1. CASE Cancel \/ UNCHANGED vars
  BY <1>1, <1>f DEF Cancel, vars
<1>2. CASE Reader
  <2>1. CASE MakeSinks
    BY <2>1, <1>f DEF MakeSinks
  <2>2. CASE MakeConnection \/ GroupWait \/ ReportError \/ ReaderGivesUp
    BY <2>2, <1>f, ZenonT(60) DEF MakeConnection, GroupWait, ReportError,
       ReaderGivesUp
  <2> QED
    BY <1>2, <2>1, <2>2 DEF Reader
<1>3. CASE Handler
  <2>1. termChan' \in Nat /\ terminated' \in Nat
    BY <1>3 DEF Handler, SinkTerminated, HandlerCanceled
  <2>2. handler' \in {"off", "loop", "exit"}
    BY <1>3 DEF Handler, SinkTerminated, HandlerCanceled
  <2> QED
    BY <1>3, <1>f, <2>1, <2>2, ZenonT(60) DEF Handler, SinkTerminated,
       HandlerCanceled
<1>4. CASE ReceivePage
  BY <1>4, <1>f DEF ReceivePage
<1>5. CASE SendPage
  <2>1. cur.conn \in Conns /\ cur.hi \in Nat
    BY DEF Page
  <2>2. sent' \in [Conns -> Nat] /\ terminalSent' \in SUBSET Conns
    BY <1>5, <2>1, SMTT(60) DEF SendPage, Deliver
  <2> QED
    BY <1>5, <1>f, <2>2, Zenon DEF SendPage
<1>6. CASE ReceiveClosed \/ ConsumerCanceled \/ EncodeFails \/ SendFails
           \/ HandlerReturns
  BY <1>6, <1>f, ZenonT(60) DEF ReceiveClosed, ConsumerCanceled, EncodeFails,
     SendFails, HandlerReturns, Return
<1>7. ASSUME NEW c \in Conns, Connection(c) PROVE TypeOK'
  <2>1. CASE Query(c) \/ ReadFails(c) \/ EndOfRows(c) \/ NotifyFactory(c)
    <3>1. \E place \in {"next", "failed", "notify", "finish", "done", "dropped"} :
            Goto(c, place)
      BY <2>1, Zenon DEF Query, ReadFails, EndOfRows, NotifyFactory
    <3>2. conn' \in [Conns -> {"idle", "query", "next", "flush", "finish",
                               "notify", "done", "dropped", "failed"}]
      BY <3>1 DEF Goto
    <3>3. termChan' \in Nat
      BY <2>1 DEF Query, ReadFails, EndOfRows, NotifyFactory
    <3>4. /\ UNCHANGED <<streamDone, reader, readErr, sinkVars, queue, closed,
                         handler, terminated>>
          /\ UNCHANGED <<consumer, cur, result, clientVars, query>>
      BY <2>1, Zenon DEF Query, ReadFails, EndOfRows, NotifyFactory
    <3> QED
      BY <1>f, <3>2, <3>3, <3>4, ZenonT(60)
  <2>2. CASE AddRow(c)
    <3>1. CountRow(tracker[c], NextRow(c)) \in Tracker
      BY <2>2, NextRowType, TrackerType, Zenon DEF AddRow
    <3>a. /\ \/ tracker' = tracker
             \/ tracker' = [tracker EXCEPT ![c] = CountRow(tracker[c], NextRow(c))]
          /\ added' = added \/ added' = [added EXCEPT ![c] = @ + 1]
      BY <2>2, Zenon DEF AddRow, AppendRow
    <3>b. tracker' \in [Conns -> Tracker]
      BY <3>a, <3>1, Zenon
    <3>2. added' \in [Conns -> Nat]
      BY <3>a
    <3>3. \E place \in {"next", "failed", "flush"} : Goto(c, place)
      BY <2>2, Zenon DEF AddRow, AppendRow
    <3>4. conn' \in [Conns -> {"idle", "query", "next", "flush", "finish",
                               "notify", "done", "dropped", "failed"}]
      BY <3>3 DEF Goto
    <3> QED
      BY <2>2, <1>f, <3>b, <3>2, <3>4, ZenonT(60) DEF AddRow
  <2>3. CASE Flush(c)
    <3> DEFINE fresh == refreshCounters(tracker[c])
    <3>1. added[c] < Rows[c]
      BY <2>3 DEF Flush, SinkInv, SinkOK
    <3>2. fresh \in Tracker /\ CountRow(fresh, NextRow(c)) \in Tracker
      BY <3>1, NextRowType, TrackerType, Zenon
    <3>3. /\ queue' \in Seq(Page) /\ cur' \in Page
          /\ consumer' \in {"select", "send", "returned"}
      BY <2>3, PageOfType, RespondType, Zenon DEF Flush
    <3>a. \/ tracker' = [tracker EXCEPT ![c] = fresh]
          \/ tracker' = [tracker EXCEPT ![c] = CountRow(fresh, NextRow(c))]
      BY <2>3, Zenon DEF Flush, AppendRow
    <3>c. added' = added \/ added' = [added EXCEPT ![c] = @ + 1]
      BY <2>3, Zenon DEF Flush, AppendRow
    <3> HIDE DEF fresh
    <3>b. tracker' \in [Conns -> Tracker]
      BY <3>a, <3>2, Update, Zenon
    <3>4. added' \in [Conns -> Nat]
      BY <3>c, SMTT(60)
    <3>5. flushed' \in [Conns -> Nat]
      BY <2>3 DEF Flush
    <3>6. \E place \in {"next", "failed"} : Goto(c, place)
      BY <2>3, Zenon DEF Flush, AppendRow
    <3>7. conn' \in [Conns -> {"idle", "query", "next", "flush", "finish",
                               "notify", "done", "dropped", "failed"}]
      BY <3>6 DEF Goto
    <3> QED
      BY <2>3, <1>f, <3>b, <3>3, <3>4, <3>5, <3>7, ZenonT(60) DEF Flush
  <2>4. CASE FinishFlush(c)
    <3>1. PageOf(c, TRUE) \in Page /\ refreshCounters(tracker[c]) \in Tracker
      BY PageOfType, TrackerType, Zenon
    <3>2. /\ queue' \in Seq(Page) /\ cur' \in Page
          /\ consumer' \in {"select", "send", "returned"}
      BY <2>4, <3>1, RespondType, Zenon DEF FinishFlush
    <3>3. /\ flushed' \in [Conns -> Nat] /\ tracker' \in [Conns -> Tracker]
          /\ conn' \in [Conns -> {"idle", "query", "next", "flush", "finish",
                                  "notify", "done", "dropped", "failed"}]
      BY <2>4, <3>1 DEF FinishFlush, Goto
    <3> QED
      BY <2>4, <1>f, <3>2, <3>3, Zenon DEF FinishFlush
  <2> QED
    BY <1>7, <2>1, <2>2, <2>3, <2>4, SMTT(60) DEF Connection
<1> QED
  BY <1>1, <1>2, <1>3, <1>4, <1>5, <1>6, <1>7, SMTT(60) DEF Next, Consumer
-----------------------------------------------------------------------------
(* The sinks *)

\* The volume of the first rows of a connection is a number.
LEMMA VolumeType ==
  ASSUME NEW c \in Conns, NEW k \in Nat, k <= Rows[c]
  PROVE  Volume[c][k] \in Nat
<1>1. Rows[c] \in Nat /\ Volume[c] \in [0 .. Rows[c] -> Nat]
  BY ReadAssumption
<1>2. k \in 0 .. Rows[c]
  BY <1>1
<1> QED
  BY <1>1, <1>2

\* After a flush, a row that is not larger than a page always fits: the second
\* tryAddRow of sinkImpl.AddRow can not ask for another flush.
THEOREM RowFitsAfterFlush ==
  ASSUME NEW tt \in Tracker, NEW b \in Nat, ~PageSizeExceeded(b)
  PROVE  ~WouldBeEnough(refreshCounters(tt), b)
<1>1. /\ refreshCounters(tt).rowsCurr = 0
      /\ refreshCounters(tt).bytesCurr = 0
  BY DEF refreshCounters, Tracker
<1> QED
  BY <1>1, PagingAssumption DEF WouldBeEnough, PageSizeExceeded

\* A counted row that fits keeps the page within its limits.
LEMMA CountKeepsLimits ==
  ASSUME NEW tt \in Tracker, NEW b \in Nat, ~WouldBeEnough(tt, b)
  PROVE  WithinPageLimits(CountRow(tt, b).rowsCurr, CountRow(tt, b).bytesCurr)
<1>1. /\ CountRow(tt, b).rowsCurr = tt.rowsCurr + 1
      /\ CountRow(tt, b).bytesCurr = tt.bytesCurr + b
  BY DEF CountRow
<1>2. tt.rowsCurr \in Nat /\ tt.bytesCurr \in Nat
  BY DEF Tracker
<1> QED
  BY <1>1, <1>2, PagingAssumption DEF WouldBeEnough, WithinPageLimits

\* AddRow asks for a flush only when the buffer holds a row.
LEMMA FlushNotEmpty ==
  ASSUME NEW tt \in Tracker, NEW b \in Nat,
         ~PageSizeExceeded(b), WouldBeEnough(tt, b)
  PROVE  tt.rowsCurr > 0 \/ tt.bytesCurr > 0
<1>1. tt.rowsCurr \in Nat /\ tt.bytesCurr \in Nat
  BY DEF Tracker
<1> QED
  BY <1>1, PagingAssumption DEF WouldBeEnough, PageSizeExceeded

\* A sink that a step leaves alone.
LEMMA SinkFrame ==
  ASSUME NEW c \in Conns, SinkOK(c), conn'[c] = conn[c], added'[c] = added[c],
         flushed'[c] = flushed[c], tracker'[c] = tracker[c]
  PROVE  SinkOK(c)'
BY Zenon DEF SinkOK, NextRow

\* AddRow keeps the sink of its connection sound.
LEMMA SinkAddRow ==
  ASSUME TypeOK, NEW c \in Conns, SinkOK(c), AddRow(c)
  PROVE  SinkOK(c)'
<1> DEFINE b == NextRow(c)
           tt == tracker[c]
<1>1. /\ Rows[c] \in Nat /\ added[c] \in Nat /\ flushed[c] \in Nat
      /\ flushed[c] <= added[c] /\ added[c] < Rows[c]
  BY ReadAssumption DEF TypeOK, AddRow, SinkOK
<1>2. tt \in Tracker /\ b \in Nat
  BY <1>1, NextRowType, SMTT(60) DEF TypeOK
<1>3. /\ Volume[c][added[c]] \in Nat /\ Volume[c][added[c] + 1] \in Nat
      /\ Volume[c][flushed[c]] \in Nat
  BY <1>1, VolumeType, SMTT(60)
<1>4. flushed'[c] = flushed[c]
  BY DEF AddRow
<1>5. conn[c] = "next"
  BY DEF AddRow
<1>6. /\ tt.rowsCurr = added[c] - flushed[c]
      /\ tt.bytesCurr = Volume[c][added[c]] - Volume[c][flushed[c]]
      /\ tt.rowsTotal = added[c] /\ tt.bytesTotal = Volume[c][added[c]]
      /\ WithinPageLimits(tt.rowsCurr, tt.bytesCurr)
  BY <1>5 DEF SinkOK
<1>7. conn \in [Conns -> {"idle", "query", "next", "flush", "finish",
                          "notify", "done", "dropped", "failed"}]
      /\ added \in [Conns -> Nat] /\ tracker \in [Conns -> Tracker]
  BY SMTT(60) DEF TypeOK
<1> HIDE DEF tt, b
<1>8. CASE Goto(c, "failed") /\ (added' = added \/ added' = [added EXCEPT ![c] = @ + 1])
  <2>1. conn'[c] = "failed" /\ flushed'[c] <= added'[c] /\ added'[c] <= Rows[c]
    BY <1>8, <1>1, <1>4, <1>7, SMTT(60) DEF Goto
  <2> QED
    BY <2>1, Zenon DEF SinkOK
<1>9. CASE /\ ~PageSizeExceeded(b) /\ WouldBeEnough(tt, b)
           /\ Goto(c, "flush") /\ UNCHANGED <<added, tracker>>
  <2>1. tt.rowsCurr > 0 \/ tt.bytesCurr > 0
    BY <1>9, <1>2, FlushNotEmpty, SMTT(60)
  <2>2. flushed[c] < added[c]
    <3>1. CASE tt.rowsCurr > 0
      <4>1. added[c] - flushed[c] > 0
        BY <1>6, <3>1, Zenon
      <4> QED
        BY <1>1, <4>1
    <3>2. CASE tt.bytesCurr > 0
      <4>1. Volume[c][added[c]] # Volume[c][flushed[c]]
        BY <3>2, <1>3, <1>6, SMTT(60)
      <4>2. added[c] # flushed[c]
        BY <4>1, Zenon
      <4> QED
        BY <4>2, <1>1, SMTT(60)
    <3> QED
      BY <2>1, <3>1, <3>2, SMTT(60)
  <2>3. /\ conn'[c] = "flush" /\ added'[c] = added[c] /\ tracker'[c] = tt
        /\ NextRow(c)' = b
    BY <1>9, <1>7 DEF Goto, NextRow, tt, b
  <2>4. PageSizeExceeded(NextRow(c))' = PageSizeExceeded(b)
    BY <2>3, SMTT(60) DEF PageSizeExceeded
  <2> QED
    BY <1>9, <1>1, <1>4, <1>6, <2>2, <2>3, <2>4, Zenon DEF SinkOK
<1>10. CASE /\ ~WouldBeEnough(tt, b)
            /\ tracker' = [tracker EXCEPT ![c] = CountRow(tt, b)]
            /\ Goto(c, "next") /\ added' = [added EXCEPT ![c] = @ + 1]
  <2>1. /\ conn'[c] = "next" /\ added'[c] = added[c] + 1
        /\ tracker'[c] = CountRow(tt, b)
    BY <1>10, <1>7 DEF Goto
  <2>2. WithinPageLimits(tracker'[c].rowsCurr, tracker'[c].bytesCurr)
    BY <1>10, <1>2, <2>1, CountKeepsLimits
  <2>3. b = Volume[c][added[c] + 1] - Volume[c][added[c]]
    BY DEF b, NextRow
  <2>4. /\ tracker'[c].rowsCurr = tt.rowsCurr + 1
        /\ tracker'[c].bytesCurr = tt.bytesCurr + b
        /\ tracker'[c].rowsTotal = tt.rowsTotal + 1
        /\ tracker'[c].bytesTotal = tt.bytesTotal + b
    BY <2>1, SMTT(60) DEF CountRow
  <2>5. /\ tracker'[c].rowsCurr = added'[c] - flushed'[c]
        /\ tracker'[c].rowsTotal = added'[c]
    BY <1>1, <1>4, <1>6, <2>1, <2>4, SMTT(60)
  <2>6. /\ tracker'[c].bytesCurr = Volume[c][added'[c]] - Volume[c][flushed'[c]]
        /\ tracker'[c].bytesTotal = Volume[c][added'[c]]
    <3>1. Volume[c][added'[c]] = Volume[c][added[c] + 1]
      BY <2>1, SMTT(60)
    <3>2. Volume[c][flushed'[c]] = Volume[c][flushed[c]]
      BY <1>4, SMTT(60)
    <3> QED
      BY <1>3, <1>6, <2>3, <2>4, <3>1, <3>2
  <2>7. flushed'[c] <= added'[c] /\ added'[c] <= Rows[c] /\ flushed'[c] < added'[c]
    BY <1>1, <1>4, <2>1, SMTT(60)
  <2> QED
    BY <2>1, <2>2, <2>5, <2>6, <2>7, Zenon DEF SinkOK
<1> QED
  BY <1>8, <1>9, <1>10, ZenonT(60) DEF AddRow, AppendRow, tt, b

\* The flush of a full page keeps the sink sound.
LEMMA SinkFlush ==
  ASSUME TypeOK, NEW c \in Conns, SinkOK(c), Flush(c)
  PROVE  SinkOK(c)'
<1> DEFINE b == NextRow(c)
           fresh == refreshCounters(tracker[c])
<1>1. /\ Rows[c] \in Nat /\ added[c] \in Nat /\ flushed[c] \in Nat
      /\ added[c] < Rows[c] /\ ~PageSizeExceeded(b)
  BY ReadAssumption, Zenon DEF TypeOK, Flush, SinkOK
<1>2. tracker[c] \in Tracker /\ fresh \in Tracker /\ b \in Nat
  BY <1>1, NextRowType, TrackerType, SMTT(60) DEF TypeOK
<1>3. Volume[c][added[c]] \in Nat /\ Volume[c][added[c] + 1] \in Nat
  BY <1>1, VolumeType
<1>4. /\ conn \in [Conns -> {"idle", "query", "next", "flush", "finish",
                             "notify", "done", "dropped", "failed"}]
      /\ added \in [Conns -> Nat] /\ flushed \in [Conns -> Nat]
      /\ tracker \in [Conns -> Tracker]
  BY DEF TypeOK
<1>5. flushed'[c] = added[c]
  BY <1>4 DEF Flush
<1>6. tracker[c].rowsTotal = added[c] /\ tracker[c].bytesTotal = Volume[c][added[c]]
  BY Zenon DEF Flush, SinkOK
<1>7. /\ fresh.rowsCurr = 0 /\ fresh.bytesCurr = 0
      /\ fresh.rowsTotal = added[c] /\ fresh.bytesTotal = Volume[c][added[c]]
  BY <1>2, <1>6, SMTT(60) DEF refreshCounters, Tracker
<1>8. ~WouldBeEnough(fresh, b)
  BY <1>1, <1>2, RowFitsAfterFlush, Zenon
<1>9. b = Volume[c][added[c] + 1] - Volume[c][added[c]]
  BY DEF NextRow
<1> HIDE DEF b, fresh
<1>10. CASE Goto(c, "failed") /\ UNCHANGED added
  <2>1. conn'[c] = "failed" /\ flushed'[c] <= added'[c] /\ added'[c] <= Rows[c]
    BY <1>10, <1>1, <1>4, <1>5, SMTT(60) DEF Goto
  <2> QED
    BY <2>1, Zenon DEF SinkOK
<1>11. CASE /\ tracker' = [tracker EXCEPT ![c] = CountRow(fresh, b)]
            /\ Goto(c, "next") /\ added' = [added EXCEPT ![c] = @ + 1]
  <2>1. /\ conn'[c] = "next" /\ added'[c] = added[c] + 1
        /\ tracker'[c] = CountRow(fresh, b)
    BY <1>11, <1>4, SMTT(60) DEF Goto
  <2>2. WithinPageLimits(tracker'[c].rowsCurr, tracker'[c].bytesCurr)
    BY <1>8, <1>2, <2>1, CountKeepsLimits, Zenon
  <2>3. /\ tracker'[c].rowsCurr = 1 /\ tracker'[c].bytesCurr = b
        /\ tracker'[c].rowsTotal = added[c] + 1
        /\ tracker'[c].bytesTotal = Volume[c][added[c]] + b
    BY <1>2, <1>7, <2>1, SMTT(60) DEF CountRow
  <2>4. /\ tracker'[c].rowsCurr = added'[c] - flushed'[c]
        /\ tracker'[c].rowsTotal = added'[c]
    BY <1>1, <1>5, <2>1, <2>3, SMTT(60)
  <2>5. /\ tracker'[c].bytesCurr = Volume[c][added'[c]] - Volume[c][flushed'[c]]
        /\ tracker'[c].bytesTotal = Volume[c][added'[c]]
    <3>1. Volume[c][added'[c]] = Volume[c][added[c] + 1]
      BY <2>1
    <3>2. Volume[c][flushed'[c]] = Volume[c][added[c]]
      BY <1>5, SMTT(60)
    <3> QED
      BY <1>3, <1>9, <2>3, <3>1, <3>2, SMTT(60)
  <2>6. flushed'[c] <= added'[c] /\ added'[c] <= Rows[c] /\ flushed'[c] < added'[c]
    BY <1>1, <1>5, <2>1, SMTT(60)
  <2> QED
    BY <2>1, <2>2, <2>4, <2>5, <2>6, Zenon DEF SinkOK
<1> QED
  BY <1>10, <1>11, ZenonT(60) DEF Flush, AppendRow, b, fresh

\* The last flush, in Finish, keeps the sink sound.
LEMMA SinkFinish ==
  ASSUME TypeOK, NEW c \in Conns, SinkOK(c), FinishFlush(c)
  PROVE  SinkOK(c)'
<1>1. /\ Rows[c] \in Nat /\ added[c] = Rows[c]
      /\ tracker[c].rowsTotal = added[c]
      /\ tracker[c].bytesTotal = Volume[c][added[c]]
  BY ReadAssumption, Zenon DEF FinishFlush, SinkOK
<1>2. /\ conn'[c] = "notify" /\ added'[c] = added[c] /\ flushed'[c] = added[c]
      /\ tracker'[c] = refreshCounters(tracker[c])
  BY DEF TypeOK, FinishFlush, Goto
<1>3. tracker[c] \in Tracker
  BY DEF TypeOK
<1>4. /\ tracker'[c].rowsCurr = 0 /\ tracker'[c].bytesCurr = 0
      /\ tracker'[c].rowsTotal = added[c]
      /\ tracker'[c].bytesTotal = Volume[c][added[c]]
  BY <1>1, <1>2, <1>3, SMTT(60) DEF refreshCounters, Tracker
<1>5. Volume[c][added[c]] \in Nat
  BY <1>1, VolumeType, SMTT(60)
<1>6. WithinPageLimits(0, 0)
  BY PagingAssumption, SMTT(60) DEF WithinPageLimits
<1>7. tracker'[c].rowsCurr = added'[c] - flushed'[c]
  <2>1. \A n \in Nat : n - n = 0
    OBVIOUS
  <2> QED
    BY <2>1, <1>1, <1>2, <1>4, Zenon
<1>8. tracker'[c].bytesCurr = Volume[c][added'[c]] - Volume[c][flushed'[c]]
  BY <1>2, <1>4, <1>5
<1> QED
  BY <1>1, <1>2, <1>4, <1>6, <1>7, <1>8, Zenon DEF SinkOK

\* Every step keeps the sinks sound.
LEMMA SinkStep == TypeOK /\ SinkInv /\ CountInv /\ [Next]_vars => SinkInv'
<1> SUFFICES ASSUME TypeOK, SinkInv, CountInv, [Next]_vars, NEW d \in Conns
             PROVE  SinkOK(d)'
  BY DEF SinkInv
<1>0. SinkOK(d)
  BY DEF SinkInv
<1>1. CASE UNCHANGED <<conn, sinkVars>>
  BY <1>0, <1>1, SinkFrame DEF sinkVars
<1>2. CASE MakeSinks
  <2>1. CASE conn' = [c \in Conns |-> "query"]
    <3>1. /\ conn[d] = "idle" /\ conn'[d] = "query"
          /\ UNCHANGED <<added, flushed, tracker>>
      BY <1>2, <2>1 DEF MakeSinks, sinkVars, CountInv
    <3> QED
      BY <3>1, <1>0, Zenon DEF SinkOK
  <2>2. CASE UNCHANGED conn
    BY <1>1, <1>2, <2>2, SMTT(60) DEF MakeSinks, sinkVars
  <2> QED
    BY <1>2, <2>1, <2>2, SMTT(60) DEF MakeSinks
<1>3. ASSUME NEW c \in Conns, Connection(c), d # c PROVE SinkOK(d)'
  <2>1. /\ conn'[d] = conn[d] /\ added'[d] = added[d]
        /\ flushed'[d] = flushed[d] /\ tracker'[d] = tracker[d]
    BY <1>3, Zenon DEF TypeOK, Connection, Query, AddRow, ReadFails, Flush, EndOfRows,
       FinishFlush, NotifyFactory, AppendRow, Goto, sinkVars
  <2> QED
    BY <1>0, <2>1, SinkFrame, SMTT(60)
<1>4. CASE Connection(d)
  <2>1. CASE AddRow(d)
    BY <2>1, <1>0, SinkAddRow
  <2>2. CASE Flush(d)
    BY <2>2, <1>0, SinkFlush, SMTT(60)
  <2>3. CASE FinishFlush(d)
    BY <2>3, <1>0, SinkFinish
  <2>4. CASE Query(d) \/ ReadFails(d)
    <3>1. /\ conn[d] \in {"query", "next"} /\ conn'[d] \in {"next", "failed"}
          /\ UNCHANGED <<added, flushed, tracker>>
      BY <2>4, SMTT(60) DEF TypeOK, Query, ReadFails, Goto, sinkVars
    <3> QED
      BY <3>1, <1>0, Zenon DEF SinkOK
  <2>5. CASE EndOfRows(d)
    <3>1. /\ conn[d] = "next" /\ added[d] = Rows[d]
          /\ conn'[d] = IF added[d] - flushed[d] = 0 THEN "notify" ELSE "finish"
          /\ UNCHANGED <<added, flushed, tracker>>
      BY <2>5, SMTT(60) DEF TypeOK, EndOfRows, TotalRows, Goto, sinkVars
    <3>2. Rows[d] \in Nat /\ flushed[d] \in Nat
      BY ReadAssumption, SMTT(60) DEF TypeOK
    <3>3. SinkOK(d)
      BY <1>0
    <3>4. CASE conn'[d] = "notify"
      <4>1. flushed[d] = added[d]
        <5>1. added[d] - flushed[d] = 0
          BY <3>1, <3>4
        <5> QED
          BY <5>1, <3>1, <3>2
      <4> QED
        BY <4>1, <3>1, <3>3, <3>4, Zenon DEF SinkOK
    <3>5. CASE conn'[d] = "finish"
      <4>1. flushed[d] < added[d]
        <5>1. added[d] - flushed[d] # 0
          BY <3>1, <3>5
        <5>2. flushed[d] <= added[d]
          BY <3>3, Zenon DEF SinkOK
        <5> QED
          BY <5>1, <5>2, <3>1, <3>2
      <4> QED
        BY <4>1, <3>1, <3>3, <3>5, Zenon DEF SinkOK
    <3> QED
      BY <3>1, <3>4, <3>5, Zenon
  <2>6. CASE NotifyFactory(d)
    <3>1. /\ conn[d] = "notify" /\ conn'[d] \in {"done", "dropped"}
          /\ UNCHANGED <<added, flushed, tracker>>
      BY <2>6 DEF TypeOK, NotifyFactory, Goto, sinkVars
    <3> QED
      BY <3>1, <1>0, Zenon DEF SinkOK
  <2> QED
    BY <1>4, <2>1, <2>2, <2>3, <2>4, <2>5, <2>6, SMTT(60) DEF Connection
<1>5. CASE Cancel \/ MakeConnection \/ GroupWait \/ ReportError \/ ReaderGivesUp
  BY <1>1, <1>5, Zenon DEF Cancel, MakeConnection, GroupWait, ReportError,
     ReaderGivesUp
<1>6. CASE Handler \/ Consumer \/ UNCHANGED vars
  BY <1>1, <1>6, Zenon DEF Handler, SinkTerminated, HandlerCanceled, Consumer,
     ReceivePage, ReceiveClosed, ConsumerCanceled, SendPage, EncodeFails,
     SendFails, HandlerReturns, vars
<1> QED
  BY <1>2, <1>3, <1>4, <1>5, <1>6, SMTT(60) DEF Next, Reader
-----------------------------------------------------------------------------
(* The pages in flight *)

\* What is in flight are pages.
LEMMA PageAtType ==
  ASSUME TypeOK, NEW i \in InFlight
  PROVE  i \in Nat /\ PageAt(i) \in Page /\ PageAt(i).conn \in Conns
<1>1. queue \in Seq(Page) /\ cur \in Page /\ i \in 0 .. Len(queue)
  BY DEF TypeOK, InFlight
<1>2. i \in Nat /\ PageAt(i) \in Page
  BY <1>1 DEF PageAt
<1> QED
  BY <1>2 DEF Page

\* A page stays correct while rows leave the sinks and it is not sent.
LEMMA PageOKFrame ==
  ASSUME NEW p \in Page, PageOK(p), TypeOK,
         sent'[p.conn] < p.lo, flushed'[p.conn] \in Nat,
         flushed[p.conn] <= flushed'[p.conn]
  PROVE  PageOK(p)'
<1>1. p.conn \in Conns /\ p.hi \in Nat
  BY DEF Page
<1>2. flushed[p.conn] \in Nat
  BY <1>1 DEF TypeOK
<1>3. p.hi <= flushed'[p.conn]
  BY <1>1, <1>2 DEF PageOK
<1> QED
  BY <1>3, Zenon DEF PageOK

\* Steps that leave the pages alone keep those in flight sound.
LEMMA FlightFrame ==
  ASSUME TypeOK, FlightInv, UNCHANGED <<queue, cur, sent, flushed>>,
         InFlight' \subseteq InFlight
  PROVE  FlightInv'
<1>1. \A i \in InFlight' : PageAt(i)' = PageAt(i) /\ i \in InFlight
  BY DEF PageAt
<1>2. \A p : PageOK(p)' = PageOK(p)
  BY Zenon DEF PageOK
<1> QED
  BY <1>1, <1>2, Zenon DEF FlightInv

\* The page that flush puts into the queue.
LEMMA NewPageOK ==
  ASSUME TypeOK, ClientInv, NEW c \in Conns, NEW t \in BOOLEAN, SinkOK(c),
         conn[c] # "failed", flushed[c] < added[c], t => added[c] = Rows[c],
         sent' = sent, flushed' = [flushed EXCEPT ![c] = added[c]],
         NEW p \in Page, p = PageOf(c, t)
  PROVE  PageOK(p)'
<1>1. /\ p.conn = c /\ p.lo = flushed[c] + 1 /\ p.hi = added[c]
      /\ p.rows = tracker[c].rowsCurr /\ p.bytes = tracker[c].bytesCurr
      /\ p.terminal = t
  BY DEF PageOf
<1>2. added[c] \in Nat /\ flushed[c] \in Nat /\ sent[c] \in Nat
  BY DEF TypeOK
<1>3. sent[c] <= flushed[c]
  BY DEF ClientInv
<1>4. flushed'[c] = added[c] /\ sent'[c] = sent[c]
  BY DEF TypeOK
<1>5. /\ sent'[c] < p.lo /\ p.lo <= p.hi /\ p.hi <= flushed'[c]
      /\ p.lo - 1 = flushed[c]
  BY <1>1, <1>2, <1>3, <1>4, SMTT(60)
<1>6. p.rows = p.hi - p.lo + 1
  <2>1. p.rows = added[c] - flushed[c]
    BY <1>1, Zenon DEF SinkOK
  <2> QED
    BY <2>1, <1>1, <1>2
<1>7. p.bytes = Volume[c][p.hi] - Volume[c][p.lo - 1]
  BY <1>1, <1>5, Zenon DEF SinkOK
<1>8. WithinPageLimits(p.rows, p.bytes)
  BY <1>1 DEF SinkOK
<1>9. p.terminal => p.hi = Rows[c]
  BY <1>1
<1> QED
  BY <1>1, <1>5, <1>6, <1>7, <1>8, <1>9, SMTT(60) DEF PageOK

\* A page that enters the queue keeps those in flight sound.
LEMMA FlightRespond ==
  ASSUME TypeOK, FlightInv, ClientInv, NEW c \in Conns, NEW t \in BOOLEAN,
         SinkOK(c), conn[c] # "failed", flushed[c] < added[c],
         t => added[c] = Rows[c],
         sent' = sent, flushed' = [flushed EXCEPT ![c] = added[c]],
         NEW p \in Page, p = PageOf(c, t), respondWith(p)
  PROVE  FlightInv'
<1>1. PageOK(p)'
  BY NewPageOK, Zenon
<1>2. /\ added[c] \in Nat /\ flushed[c] \in Nat /\ flushed \in [Conns -> Nat]
      /\ queue \in Seq(Page) /\ QueueCap \in Nat /\ Len(queue) \in Nat
  BY ReadAssumption DEF TypeOK
<1>3. \A d \in Conns : flushed'[d] \in Nat /\ flushed[d] <= flushed'[d]
  BY <1>2
<1>4. ASSUME NEW i \in InFlight
      PROVE  /\ PageOK(PageAt(i))
             /\ PageAt(i).conn = c => PageAt(i).hi < p.lo
             /\ \A q \in Page : q = PageAt(i) => PageOK(q)'
  <2>1. PageAt(i) \in Page /\ PageAt(i).conn \in Conns /\ PageOK(PageAt(i))
    BY PageAtType DEF FlightInv
  <2>2. PageAt(i).conn = c => PageAt(i).hi <= flushed[c]
    BY <2>1 DEF PageOK
  <2>3. PageAt(i).hi \in Nat /\ p.lo = flushed[c] + 1
    BY <2>1, Zenon DEF Page, PageOf
  <2>4. ASSUME NEW q \in Page, q = PageAt(i) PROVE PageOK(q)'
    <3>1. sent'[q.conn] < q.lo
      BY <2>1, <2>4, Zenon DEF PageOK
    <3> QED
      BY <3>1, <2>1, <2>4, <1>3, PageOKFrame, Zenon
  <2> QED
    BY <2>1, <2>2, <2>3, <2>4, <1>2, SMTT(60)
<1>5. CASE /\ Len(queue) < QueueCap /\ queue' = Append(queue, p)
           /\ UNCHANGED <<consumer, cur>>
  <2>0. PICK n \in Nat : n = Len(queue) + 1
    BY <1>2
  <2>1. Len(queue') = n /\ n \in Nat
    BY <1>2, <1>5, <2>0
  <2>2. InFlight' = InFlight \cup {n}
    BY <1>2, <1>5, <2>0, <2>1, SMTT(60) DEF InFlight
  <2>3. \A i \in InFlight : i < n /\ i # n /\ PageAt(i)' = PageAt(i)
    BY <1>2, <1>5, <2>0 DEF InFlight, PageAt
  <2>4. PageAt(n)' = p
    BY <1>2, <1>5, <2>0 DEF PageAt
  <2>5. Len(queue') <= QueueCap
    BY <1>2, <1>5, <2>0, <2>1, SMTT(60)
  <2>6. ASSUME NEW i \in InFlight' PROVE PageOK(PageAt(i))'
    <3>1. CASE i = n
      BY <3>1, <2>4, <1>1, Zenon DEF PageOK
    <3>2. CASE i \in InFlight
      BY <3>2, <2>3, <1>4, PageAtType, Zenon DEF PageOK
    <3> QED
      BY <2>2, <2>6, <3>1, <3>2, SMTT(60)
  <2>7. ASSUME NEW i \in InFlight', NEW j \in InFlight', i < j,
               PageAt(i)'.conn = PageAt(j)'.conn
        PROVE  PageAt(i)'.hi < PageAt(j)'.lo
    <3>1. CASE j = n
      <4>1. i < n
        BY <2>7, <3>1
      <4>2. i # n
        BY <2>1, <4>1
      <4>3. i \in InFlight
        BY <2>2, <4>2
      <4>4. PageAt(i)' = PageAt(i) /\ PageAt(j)' = p
        BY <2>3, <2>4, <3>1, <4>3, SMTT(60)
      <4>5. p.conn = c
        BY DEF PageOf
      <4>6. PageAt(i).conn = c
        BY <2>7, <4>4, <4>5, SMTT(60)
      <4>7. PageAt(i).hi < p.lo
        BY <1>4, <4>3, <4>6, SMTT(60)
      <4> QED
        BY <4>4, <4>7
    <3>2. CASE i \in InFlight /\ j \in InFlight
      BY <3>2, <2>3, <2>7, SMTT(60) DEF FlightInv
    <3>3. CASE i = n /\ j \in InFlight
      BY <3>3, <2>1, <2>3, <2>7, PageAtType, SMTT(60)
    <3> QED
      BY <2>2, <2>7, <3>1, <3>2, <3>3, SMTT(60)
  <2> QED
    BY <2>5, <2>6, <2>7 DEF FlightInv
<1>6. CASE /\ QueueCap = 0 /\ consumer' = "send" /\ cur' = p /\ UNCHANGED queue
  <2>1. Len(queue) = 0
    BY <1>2, <1>6 DEF FlightInv
  <2>2. InFlight' = {0} /\ PageAt(0)' = p
    BY <1>6, <2>1 DEF InFlight, PageAt
  <2>3. \A i \in InFlight' : PageOK(PageAt(i))'
    BY <2>2, <1>1
  <2>4. \A i, j \in InFlight' : ~(i < j)
    BY <2>2, SMTT(60)
  <2> QED
    BY <1>6, <2>3, <2>4, Zenon DEF FlightInv
<1>7. CASE UNCHANGED <<queue, consumer, cur>>
  <2>1. InFlight' = InFlight /\ \A i \in InFlight : PageAt(i)' = PageAt(i)
    BY <1>7, SMTT(60) DEF InFlight, PageAt
  <2>2. \A i \in InFlight : PageOK(PageAt(i))'
    BY <2>1, <1>4, PageAtType, Zenon DEF PageOK
  <2> QED
    BY <1>7, <2>1, <2>2, SMTT(60) DEF FlightInv
<1> QED
  BY <1>5, <1>6, <1>7 DEF respondWith

\* A page taken out of the queue moves those behind it by one place.
LEMMA FlightReceive ==
  ASSUME TypeOK, FlightInv, ReceivePage
  PROVE  /\ FlightInv'
         /\ \A i \in InFlight' : i + 1 \in InFlight /\ PageAt(i)' = PageAt(i + 1)
         /\ \A i \in InFlight : i - 1 \in InFlight' /\ PageAt(i - 1)' = PageAt(i)
<1>1. /\ queue \in Seq(Page) /\ queue # <<>> /\ consumer = "select"
      /\ cur' = Head(queue) /\ queue' = Tail(queue) /\ consumer' = "send"
      /\ UNCHANGED <<sent, flushed>> /\ QueueCap \in Nat
  BY ReadAssumption, Zenon DEF TypeOK, ReceivePage, sinkVars, clientVars
<1>2. /\ Len(queue) \in Nat /\ Len(queue) > 0 /\ Len(queue') = Len(queue) - 1
      /\ queue' \in Seq(Page)
  BY <1>1
<1>3. \A i \in 1 .. Len(queue') : queue'[i] = queue[i + 1]
  BY <1>1
<1>4. cur' = queue[1]
  BY <1>1
<1>5. InFlight = 1 .. Len(queue)
  BY <1>1, <1>2 DEF InFlight
<1>6. InFlight' = 0 .. Len(queue) - 1
  BY <1>1, <1>2 DEF InFlight
<1>7. ASSUME NEW i \in InFlight'
      PROVE  i + 1 \in InFlight /\ PageAt(i)' = PageAt(i + 1)
  <2>1. i \in Nat /\ i + 1 \in InFlight /\ (i # 0 => i \in 1 .. Len(queue'))
    BY <1>2, <1>5, <1>6
  <2>2. CASE i = 0
    BY <2>2, <1>4, <2>1 DEF PageAt
  <2>3. CASE i # 0
    BY <2>3, <1>3, <2>1 DEF PageAt
  <2> QED
    BY <2>1, <2>2, <2>3
<1>8. ASSUME NEW i \in InFlight
      PROVE  i - 1 \in InFlight' /\ PageAt(i - 1)' = PageAt(i)
  <2>1. i \in Nat /\ i - 1 \in InFlight' /\ (i - 1) + 1 = i
    BY <1>2, <1>5, <1>6
  <2> QED
    BY <2>1, <1>7
<1>9. \A p : PageOK(p)' = PageOK(p)
  BY <1>1, Zenon DEF PageOK
<1>10. \A i \in InFlight' : PageOK(PageAt(i))'
  BY <1>7, <1>9 DEF FlightInv
<1>11. ASSUME NEW i \in InFlight', NEW j \in InFlight', i < j,
              PageAt(i)'.conn = PageAt(j)'.conn
       PROVE  PageAt(i)'.hi < PageAt(j)'.lo
  <2>1. i + 1 < j + 1
    BY <1>11, <1>6, <1>2
  <2> QED
    BY <2>1, <1>7, <1>11 DEF FlightInv
<1>12. Len(queue') <= QueueCap
  BY <1>1, <1>2 DEF FlightInv
<1> QED
  BY <1>7, <1>8, <1>10, <1>11, <1>12, SMTT(60) DEF FlightInv

\* What is in flight when the page that is being sent arrives.
LEMMA FlightAfterSend ==
  ASSUME TypeOK, SendPage
  PROVE  /\ 0 \in InFlight /\ PageAt(0) = cur
         /\ InFlight' = InFlight \ {0}
         /\ \A i \in InFlight' : i > 0 /\ i \in InFlight /\ PageAt(i)' = PageAt(i)
<1>1. /\ queue \in Seq(Page) /\ consumer = "send" /\ consumer' = "select"
      /\ UNCHANGED <<queue, cur>>
  BY DEF TypeOK, SendPage, chanVars
<1>2. Len(queue) \in Nat
  BY <1>1
<1> QED
  BY <1>1, <1>2 DEF InFlight, PageAt

\* A page sent to the client leaves the flight.
LEMMA FlightSend ==
  ASSUME TypeOK, FlightInv, SendPage
  PROVE  FlightInv'
<1>1. /\ cur \in Page /\ cur.conn \in Conns /\ cur.hi \in Nat
      /\ flushed \in [Conns -> Nat] /\ sent \in [Conns -> Nat]
  BY DEF TypeOK, Page
<1>2. UNCHANGED <<queue, flushed>>
  BY DEF SendPage, chanVars, sinkVars
<1>3. sent' = sent \/ sent' = [sent EXCEPT ![cur.conn] = cur.hi]
  BY Zenon DEF SendPage, Deliver
<1>4. ASSUME NEW i \in InFlight', NEW q \in Page, q = PageAt(i)
      PROVE  PageOK(q)'
  <2>1. /\ i > 0 /\ i \in InFlight /\ 0 \in InFlight /\ PageAt(0) = cur
        /\ i \in Nat
    BY FlightAfterSend, PageAtType
  <2>2. PageOK(q) /\ q.conn \in Conns
    BY <1>4, <2>1, PageAtType DEF FlightInv
  <2>3. q.conn = cur.conn => cur.hi < q.lo
    BY <1>4, <2>1, SMTT(60) DEF FlightInv
  <2>4. sent'[q.conn] < q.lo
    BY <1>1, <1>3, <2>2, <2>3, SMTT(60) DEF PageOK
  <2>5. flushed'[q.conn] \in Nat /\ flushed[q.conn] <= flushed'[q.conn]
    BY <1>1, <1>2, <2>2, SMTT(60)
  <2> QED
    BY <2>2, <2>4, <2>5, PageOKFrame, SMTT(60)
<1>5. \A i \in InFlight' : PageOK(PageAt(i))'
  BY <1>4, FlightAfterSend, PageAtType DEF PageOK
<1>6. \A i, j \in InFlight' :
        i < j /\ PageAt(i)'.conn = PageAt(j)'.conn => PageAt(i)'.hi < PageAt(j)'.lo
  BY FlightAfterSend, SMTT(60) DEF FlightInv
<1> QED
  BY <1>2, <1>5, <1>6, SMTT(60) DEF FlightInv

\* No more rows leave a sink than its connection yields.
LEMMA FlushedBound ==
  ASSUME TypeOK, SinkInv, NEW c \in Conns
  PROVE  /\ flushed[c] \in Nat /\ sent[c] \in Nat /\ Rows[c] \in Nat
         /\ flushed[c] <= Rows[c]
<1>1. flushed[c] \in Nat /\ added[c] \in Nat /\ sent[c] \in Nat
  BY DEF TypeOK
<1>2. Rows[c] \in Nat
  BY ReadAssumption
<1>3. SinkOK(c)
  BY SMTT(60) DEF SinkInv
<1>4. flushed[c] <= added[c] /\ added[c] <= Rows[c]
  BY <1>3 DEF SinkOK
<1> QED
  BY <1>1, <1>2, <1>4, SMTT(60)

\* A page leaves a sink.
Leaves(c, t) ==
  /\ conn[c] = (IF t THEN "finish" ELSE "flush")
  /\ respondWith(PageOf(c, t))
  /\ flushed' = [flushed EXCEPT ![c] = added[c]]
  /\ UNCHANGED <<streamDone, result, sent, terminalSent, gap>>
  /\ \E place \in (IF t THEN {"notify"} ELSE {"next", "failed"}) : Goto(c, place)

\* The other steps leave the queue and the client alone.
Quiet ==
  /\ UNCHANGED <<queue, cur, flushed, sent, terminalSent, gap>>
  /\ consumer' = consumer \/ consumer' = "returned"
  /\ streamDone => streamDone'

\* A step receives a page, sends one, makes one, or leaves the pages alone.
LEMMA StepKinds ==
  ASSUME [Next]_vars
  PROVE  \/ ReceivePage \/ SendPage \/ Quiet
         \/ \E c \in Conns : \E t \in BOOLEAN : Leaves(c, t)
<1> USE DEF sinkVars, chanVars, clientVars
<1>1. CASE Cancel \/ UNCHANGED vars
  BY <1>1, Zenon DEF Cancel, vars, Quiet
<1>2. CASE Reader
  BY <1>2, Zenon DEF Reader, MakeConnection, MakeSinks, GroupWait,
     ReportError, ReaderGivesUp, Quiet
<1>3. CASE Handler
  BY <1>3, Zenon DEF Handler, SinkTerminated, HandlerCanceled, Quiet
<1>4. CASE ReceiveClosed \/ ConsumerCanceled \/ EncodeFails \/ SendFails
           \/ HandlerReturns
  BY <1>4, Zenon DEF ReceiveClosed, ConsumerCanceled, EncodeFails, SendFails,
     HandlerReturns, Return, Quiet
<1>5. ASSUME NEW c \in Conns, Connection(c)
      PROVE  Quiet \/ \E t \in BOOLEAN : Leaves(c, t)
  <2>1. CASE Query(c) \/ AddRow(c) \/ ReadFails(c) \/ EndOfRows(c) \/ NotifyFactory(c)
    BY <2>1, Zenon DEF Query, AddRow, ReadFails, EndOfRows, NotifyFactory, Quiet
  <2>2. CASE Flush(c)
    <3>1. Leaves(c, FALSE)
      BY <2>2, Zenon DEF Flush, AppendRow, Leaves
    <3> QED
      BY <3>1, Zenon
  <2>3. CASE FinishFlush(c)
    <3>1. Leaves(c, TRUE)
      BY <2>3, Zenon DEF FinishFlush, Leaves
    <3> QED
      BY <3>1, Zenon
  <2> QED
    BY <1>5, <2>1, <2>2, <2>3, SMTT(60) DEF Connection
<1> QED
  BY <1>1, <1>2, <1>3, <1>4, <1>5, SMTT(60) DEF Next, Consumer

\* A page leaves a sink that is sound, did not fail and holds rows.
LEMMA LeavesFacts ==
  ASSUME TypeOK, SinkInv, NEW c \in Conns, NEW t \in BOOLEAN, Leaves(c, t)
  PROVE  /\ SinkOK(c) /\ conn[c] # "failed"
         /\ flushed[c] < added[c] /\ (t => added[c] = Rows[c])
         /\ PageOf(c, t) \in Page
<1>1. SinkOK(c) /\ PageOf(c, t) \in Page
  BY PageOfType, SMTT(60) DEF SinkInv
<1>2. CASE t
  BY <1>1, <1>2, ZenonT(60) DEF Leaves, SinkOK
<1>3. CASE ~t
  BY <1>1, <1>3, Zenon DEF Leaves, SinkOK
<1> QED
  BY <1>1, <1>2, <1>3

\* Every step keeps the pages in flight sound.
LEMMA FlightStep ==
  TypeOK /\ SinkInv /\ FlightInv /\ ClientInv /\ [Next]_vars => FlightInv'
<1> SUFFICES ASSUME TypeOK, SinkInv, FlightInv, ClientInv, [Next]_vars
             PROVE  FlightInv'
  OBVIOUS
<1>1. CASE ReceivePage
  BY <1>1, FlightReceive
<1>2. CASE SendPage
  BY <1>2, FlightSend
<1>3. CASE Quiet
  <2>1. InFlight' \subseteq InFlight
    BY <1>3, SMTT(60) DEF Quiet, InFlight
  <2> QED
    BY <1>3, <2>1, FlightFrame, SMTT(60) DEF Quiet
<1>4. ASSUME NEW c \in Conns, NEW t \in BOOLEAN, Leaves(c, t) PROVE FlightInv'
  <2>1. PICK p \in Page : p = PageOf(c, t)
    BY <1>4, LeavesFacts, Zenon
  <2> QED
    BY <1>4, <2>1, LeavesFacts, FlightRespond, ZenonT(60) DEF Leaves
<1> QED
  BY <1>1, <1>2, <1>3, <1>4, StepKinds, SMTT(60)

\* Every step keeps what the client has within what was flushed.
LEMMA ClientStep ==
  TypeOK /\ SinkInv /\ FlightInv /\ ClientInv /\ [Next]_vars => ClientInv'
<1> SUFFICES ASSUME TypeOK, SinkInv, FlightInv, ClientInv, [Next]_vars
             PROVE  ClientInv'
  BY SMTT(60)
<1>1. CASE ReceivePage \/ Quiet
  BY <1>1 DEF ReceivePage, Quiet, ClientInv, sinkVars, clientVars
<1>2. ASSUME NEW c \in Conns, NEW t \in BOOLEAN, Leaves(c, t) PROVE ClientInv'
  <2>1. flushed[c] < added[c]
    BY <1>2, LeavesFacts, SMTT(60)
  <2>2. /\ flushed \in [Conns -> Nat] /\ added[c] \in Nat /\ sent \in [Conns -> Nat]
        /\ flushed' = [flushed EXCEPT ![c] = added[c]]
        /\ UNCHANGED <<sent, terminalSent>>
    BY <1>2 DEF TypeOK, Leaves
  <2> QED
    BY <2>1, <2>2, SMTT(60) DEF ClientInv
<1>3. CASE SendPage
  <2>1. /\ cur \in Page /\ cur.conn \in Conns /\ cur.hi \in Nat /\ cur.lo \in Nat
        /\ flushed \in [Conns -> Nat] /\ sent \in [Conns -> Nat]
        /\ flushed' = flushed
    BY <1>3 DEF TypeOK, Page, SendPage, sinkVars
  <2>2. PageOK(cur)
    BY <1>3, FlightAfterSend DEF FlightInv
  <2>3. \A c \in Conns : flushed[c] <= Rows[c] /\ Rows[c] \in Nat
    BY FlushedBound
  <2>4. CASE UNCHANGED <<sent, terminalSent>>
    BY <2>1, <2>4, SMTT(60) DEF ClientInv
  <2>5. CASE /\ sent' = [sent EXCEPT ![cur.conn] = cur.hi]
             /\ terminalSent' = IF cur.terminal THEN terminalSent \cup {cur.conn}
                                                ELSE terminalSent
    <3>1. cur.conn \notin terminalSent
      <4>1. /\ sent[cur.conn] < cur.lo /\ cur.lo <= cur.hi
            /\ cur.hi <= flushed[cur.conn]
        BY <2>2, SMTT(60) DEF PageOK
      <4>2. flushed[cur.conn] <= Rows[cur.conn] /\ Rows[cur.conn] \in Nat
        BY <2>1, <2>3
      <4>3. sent[cur.conn] \in Nat /\ flushed[cur.conn] \in Nat
        BY <2>1
      <4>4. sent[cur.conn] # Rows[cur.conn]
        BY <2>1, <4>1, <4>2, <4>3, SMTT(60)
      <4> QED
        BY <2>1, <4>4, SMTT(60) DEF ClientInv
    <3>2. ASSUME NEW c \in Conns PROVE sent'[c] <= flushed'[c]
      BY <2>1, <2>2, <2>5, SMTT(60) DEF ClientInv, PageOK
    <3>3. ASSUME NEW c \in Conns, c \in terminalSent' PROVE sent'[c] = Rows[c]
      BY <2>1, <2>2, <2>5, <3>1, <3>3 DEF ClientInv, PageOK
    <3> QED
      BY <3>2, <3>3, SMTT(60) DEF ClientInv
  <2> QED
    BY <1>3, <2>4, <2>5, SMTT(60) DEF SendPage, Deliver
<1> QED
  BY <1>1, <1>2, <1>3, StepKinds, SMTT(60)
-----------------------------------------------------------------------------
(* What the client gets *)

\* No goroutine enters "done" but through NotifyFactory, and none leaves it.
LEMMA CountFrame ==
  ASSUME CountInv, UNCHANGED <<termChan, terminated, closed, handler>>,
         DoneConns' = DoneConns,
         reader' \in {"connect", "sinks"} =>
           /\ reader \in {"connect", "sinks"} /\ conn' = conn
  PROVE  CountInv'
BY Zenon DEF CountInv

\* While the stream lives, the page that is being sent is the next one of its
\* connection.
LEMMA NextPage ==
  ASSUME IInv, SendPage, ~streamDone
  PROVE  cur.lo = sent[cur.conn] + 1
<1> DEFINE c == cur.conn
           r == sent[c] + 1
<1>1. /\ cur \in Page /\ c \in Conns /\ cur.lo \in Nat /\ cur.hi \in Nat
      /\ sent[c] \in Nat /\ flushed[c] \in Nat /\ consumer = "send"
  BY DEF IInv, TypeOK, Page, SendPage
<1>2. PageOK(cur) /\ 0 \in InFlight /\ PageAt(0) = cur
  BY FlightAfterSend DEF IInv, FlightInv
<1>3. r \in 1 .. flushed[c] /\ sent[c] < r
  BY <1>1, <1>2 DEF PageOK
<1>4. InFlightRow(c, r)
  BY <1>1, <1>3 DEF IInv, CoverInv
<1>5. PICK i \in InFlight : PageAt(i).conn = c /\ PageAt(i).lo <= r
  BY <1>4 DEF InFlightRow
<1>6. i \in Nat /\ PageAt(i) \in Page
  BY PageAtType DEF IInv
<1>7. i = 0
  <2> SUFFICES ASSUME 0 < i PROVE FALSE
    BY <1>6
  <2>1. cur.hi < PageAt(i).lo
    BY <1>2, <1>5 DEF IInv, FlightInv
  <2>2. PageAt(i).lo \in Nat
    BY <1>6 DEF Page
  <2> QED
    BY <1>1, <1>2, <1>5, <2>1, <2>2 DEF PageOK
<1> QED
  BY <1>1, <1>2, <1>5, <1>7 DEF PageOK

\* Pages that stay in flight cover the same rows.
LEMMA CoverFrame ==
  ASSUME InFlight \subseteq InFlight',
         \A i \in InFlight : PageAt(i)' = PageAt(i)
  PROVE  \A c \in Conns : /\ \A r : InFlightRow(c, r) => InFlightRow(c, r)'
                          /\ InFlightEnd(c) => InFlightEnd(c)'
BY DEF InFlightRow, InFlightEnd

\* Steps that leave the pages alone keep the flushed rows covered.
LEMMA CoverQuiet ==
  ASSUME IInv, [Next]_vars, Quiet, ~streamDone', consumer' # "returned",
         NEW c \in Conns
  PROVE  /\ \A r \in 1 .. flushed'[c] : sent'[c] < r => InFlightRow(c, r)'
         /\ conn'[c] \in {"notify", "done"} /\ Rows[c] # 0 =>
              c \in terminalSent' \/ InFlightEnd(c)'
<1>1. /\ ~streamDone /\ consumer # "returned" /\ consumer' = consumer
      /\ UNCHANGED <<queue, cur, flushed, sent, terminalSent>>
  BY DEF Quiet, IInv, TypeOK
<1>2. InFlight' = InFlight /\ \A i \in InFlight : PageAt(i)' = PageAt(i)
  BY <1>1 DEF InFlight, PageAt
<1>3. \A r \in 1 .. flushed'[c] : sent'[c] < r => InFlightRow(c, r)'
  BY <1>1, <1>2, CoverFrame DEF IInv, CoverInv
<1>4. conn[c] \in {"notify", "done"} /\ Rows[c] # 0 =>
        c \in terminalSent' \/ InFlightEnd(c)'
  BY <1>1, <1>2, CoverFrame DEF IInv, CoverInv
<1>5. conn'[c] \in {"notify", "done"} /\ Rows[c] # 0 => conn[c] \in {"notify", "done"}
  <2> SUFFICES ASSUME conn'[c] \in {"notify", "done"}, Rows[c] # 0,
                      conn[c] \notin {"notify", "done"}
               PROVE  FALSE
    OBVIOUS
  <2>1. conn'[c] # conn[c] /\ conn \in [Conns -> {"idle", "query", "next",
          "flush", "finish", "notify", "done", "dropped", "failed"}]
    BY DEF IInv, TypeOK
  <2>2. \/ conn' = conn \/ conn' = [d \in Conns |-> "query"]
        \/ \E d \in Conns : Connection(d)
    BY Zenon DEF Next, vars, Cancel, Reader, MakeConnection, MakeSinks,
       GroupWait, ReportError, ReaderGivesUp, Handler, SinkTerminated,
       HandlerCanceled, Consumer, ReceivePage, ReceiveClosed, ConsumerCanceled,
       SendPage, EncodeFails, SendFails, HandlerReturns
  <2>3. PICK d \in Conns : Connection(d)
    BY <2>1, <2>2
  <2>4. PICK place : Goto(d, place)
    BY <2>3, Zenon DEF Connection, Query, AddRow, ReadFails, Flush, EndOfRows,
       FinishFlush, NotifyFactory, AppendRow
  <2>5. d = c
    BY <2>1, <2>4, SMTT(60) DEF Goto
  <2>6. CASE EndOfRows(c)
    <3>1. conn[c] = "next" /\ added[c] = Rows[c] /\ TotalRows(c) = 0
      BY <2>1, <2>6, SMTT(60) DEF EndOfRows, Goto
    <3>2. added[c] \in Nat /\ flushed[c] \in Nat /\ SinkOK(c)
      BY Zenon DEF IInv, TypeOK, SinkInv
    <3>3. added[c] = 0 \/ flushed[c] < added[c]
      BY <3>1, <3>2, Zenon DEF SinkOK
    <3> QED
      BY <3>1, <3>2, <3>3 DEF TotalRows
  <2>7. CASE FinishFlush(c)
    <3>1. SinkOK(c) /\ flushed \in [Conns -> Nat] /\ added[c] \in Nat
      BY Zenon DEF IInv, TypeOK, SinkInv
    <3>2. conn[c] = "finish" /\ flushed' = [flushed EXCEPT ![c] = added[c]]
      BY <2>7, Zenon DEF FinishFlush
    <3>3. flushed[c] < added[c]
      BY <3>1, <3>2, Zenon DEF SinkOK
    <3>4. flushed'[c] = added[c] /\ flushed[c] \in Nat
      BY <3>1, <3>2
    <3> QED
      BY <1>1, <3>1, <3>3, <3>4, SMTT(60)
  <2>8. CASE Query(c) \/ AddRow(c) \/ ReadFails(c) \/ Flush(c)
    <3>1. Goto(c, "next") \/ Goto(c, "failed") \/ Goto(c, "flush")
      BY <2>8, Zenon DEF Query, AddRow, ReadFails, Flush, AppendRow
    <3> QED
      BY <2>1, <3>1 DEF Goto
  <2>9. CASE NotifyFactory(c)
    BY <2>9 DEF NotifyFactory
  <2> QED
    BY <2>3, <2>5, <2>6, <2>7, <2>8, <2>9, Zenon DEF Connection
<1> QED
  BY <1>3, <1>4, <1>5

\* A new page covers the rows it was flushed with.
LEMMA CoverLeaves ==
  ASSUME IInv, NEW c \in Conns, NEW t \in BOOLEAN, Leaves(c, t),
         ~streamDone', consumer' # "returned", NEW d \in Conns
  PROVE  /\ \A r \in 1 .. flushed'[d] : sent'[d] < r => InFlightRow(d, r)'
         /\ conn'[d] \in {"notify", "done"} /\ Rows[d] # 0 =>
              d \in terminalSent' \/ InFlightEnd(d)'
<1>1. PICK p \in Page : p = PageOf(c, t)
  BY LeavesFacts DEF IInv
<1>2. /\ p.conn = c /\ p.lo = flushed[c] + 1 /\ p.hi = added[c] /\ p.terminal = t
  BY <1>1 DEF PageOf
<1>3. /\ ~streamDone /\ UNCHANGED <<sent, terminalSent>> /\ respondWith(p)
      /\ flushed' = [flushed EXCEPT ![c] = added[c]]
  BY <1>1, Zenon DEF Leaves
<1>4. /\ flushed \in [Conns -> Nat] /\ added[c] \in Nat /\ sent[d] \in Nat
      /\ flushed[d] \in Nat /\ queue \in Seq(Page) /\ Len(queue) \in Nat
      /\ QueueCap \in Nat
  BY ReadAssumption, SMTT(60) DEF IInv, TypeOK
<1>5. /\ consumer # "returned" /\ InFlight \subseteq InFlight'
      /\ \A i \in InFlight : PageAt(i)' = PageAt(i)
      /\ \E k \in InFlight' : PageAt(k)' = p
  <2>1. CASE /\ Len(queue) < QueueCap /\ queue' = Append(queue, p)
             /\ UNCHANGED <<consumer, cur>>
    <3>1. PICK n \in Nat : n = Len(queue) + 1
      BY <1>4
    <3>2. Len(queue') = n
      BY <1>4, <2>1, <3>1
    <3>3. InFlight \subseteq InFlight' /\ n \in InFlight'
      BY <1>4, <2>1, <3>1, <3>2, SMTT(60) DEF InFlight
    <3>4. (\A i \in InFlight : PageAt(i)' = PageAt(i)) /\ PageAt(n)' = p
      BY <1>4, <2>1, <3>1, <3>2, SMTT(60) DEF InFlight, PageAt
    <3> QED
      BY <2>1, <3>3, <3>4, SMTT(60)
  <2>2. CASE /\ QueueCap = 0 /\ consumer = "select" /\ consumer' = "send"
             /\ cur' = p /\ UNCHANGED queue
    <3>1. Len(queue) = 0
      BY <1>4, <2>2 DEF IInv, FlightInv
    <3>2. InFlight = {} /\ InFlight' = {0} /\ PageAt(0)' = p
      BY <2>2, <3>1 DEF InFlight, PageAt
    <3> QED
      BY <2>2, <3>2, SMTT(60)
  <2> QED
    BY <1>3, <2>1, <2>2 DEF respondWith
<1>6. ASSUME NEW r \in 1 .. flushed'[d], sent'[d] < r PROVE InFlightRow(d, r)'
  <2>1. CASE r <= flushed[d]
    <3>1. r \in 1 .. flushed[d] /\ sent[d] < r
      BY <1>3, <1>4, <1>6, <2>1, SMTT(60)
    <3>2. InFlightRow(d, r)
      BY <1>3, <1>5, <3>1, SMTT(60) DEF IInv, CoverInv
    <3> QED
      BY <1>5, <3>2, CoverFrame, SMTT(60)
  <2>2. CASE ~(r <= flushed[d])
    <3>1. d = c /\ p.lo <= r /\ r <= p.hi
      BY <1>2, <1>3, <1>4, <1>6, <2>2, SMTT(60)
    <3> QED
      BY <1>2, <1>5, <3>1, SMTT(60) DEF InFlightRow
  <2> QED
    BY <2>1, <2>2
<1>7. ASSUME conn'[d] \in {"notify", "done"}, Rows[d] # 0
      PROVE  d \in terminalSent' \/ InFlightEnd(d)'
  <2>1. conn \in [Conns -> {"idle", "query", "next", "flush", "finish",
                            "notify", "done", "dropped", "failed"}]
    BY DEF IInv, TypeOK
  <2>2. CASE d = c
    <3>1. t
      BY <1>7, <2>1, <2>2, SMTT(60) DEF Leaves, Goto
    <3> QED
      BY <1>2, <1>5, <2>2, <3>1, Zenon DEF InFlightEnd
  <2>3. CASE d # c
    <3>1. conn'[d] = conn[d]
      BY <2>1, <2>3, SMTT(60) DEF Leaves, Goto
    <3>2. d \in terminalSent \/ InFlightEnd(d)
      BY <1>3, <1>5, <1>7, <3>1, SMTT(60) DEF IInv, CoverInv
    <3> QED
      BY <1>3, <1>5, <3>2, CoverFrame, SMTT(60)
  <2> QED
    BY <2>2, <2>3, SMTT(60)
<1> QED
  BY <1>6, <1>7

\* Receiving a page keeps the flushed rows covered.
LEMMA CoverReceive ==
  ASSUME IInv, ReceivePage, ~streamDone', NEW c \in Conns
  PROVE  /\ \A r \in 1 .. flushed'[c] : sent'[c] < r => InFlightRow(c, r)'
         /\ conn'[c] \in {"notify", "done"} /\ Rows[c] # 0 =>
              c \in terminalSent' \/ InFlightEnd(c)'
<1>1. /\ ~streamDone /\ consumer # "returned"
      /\ UNCHANGED <<conn, flushed, sent, terminalSent>>
  BY DEF ReceivePage, sinkVars, clientVars
<1>2. \A i \in InFlight : i - 1 \in InFlight' /\ PageAt(i - 1)' = PageAt(i)
  BY FlightReceive DEF IInv
<1>3. \A r : InFlightRow(c, r) => InFlightRow(c, r)'
  BY <1>2 DEF InFlightRow
<1>4. InFlightEnd(c) => InFlightEnd(c)'
  BY <1>2 DEF InFlightEnd
<1>5. /\ \A r \in 1 .. flushed[c] : sent[c] < r => InFlightRow(c, r)
      /\ conn[c] \in {"notify", "done"} /\ Rows[c] # 0 => c \in terminalSent \/ InFlightEnd(c)
  BY <1>1, Zenon DEF IInv, CoverInv
<1> QED
  BY <1>1, <1>3, <1>4, <1>5, Zenon

\* Sending a page keeps the other flushed rows covered.
LEMMA CoverSend ==
  ASSUME IInv, SendPage, ~streamDone', NEW c \in Conns
  PROVE  /\ \A r \in 1 .. flushed'[c] : sent'[c] < r => InFlightRow(c, r)'
         /\ conn'[c] \in {"notify", "done"} /\ Rows[c] # 0 =>
              c \in terminalSent' \/ InFlightEnd(c)'
<1>1. /\ ~streamDone /\ consumer # "returned" /\ UNCHANGED <<conn, flushed>>
  BY DEF SendPage, sinkVars
<1>2. /\ sent' = [sent EXCEPT ![cur.conn] = cur.hi]
      /\ terminalSent' = IF cur.terminal THEN terminalSent \cup {cur.conn}
                                         ELSE terminalSent
  BY <1>1, NextPage, Zenon DEF SendPage, Deliver
<1>3. /\ cur \in Page /\ cur.conn \in Conns /\ cur.hi \in Nat /\ cur.lo \in Nat
      /\ sent \in [Conns -> Nat] /\ flushed[c] \in Nat
  BY DEF IInv, TypeOK, Page
<1>4. /\ PageAt(0) = cur /\ PageOK(cur)
      /\ \A i \in InFlight : i # 0 => i \in InFlight' /\ PageAt(i)' = PageAt(i)
  BY FlightAfterSend DEF IInv, FlightInv
<1>5. ASSUME NEW r \in 1 .. flushed'[c], sent'[c] < r PROVE InFlightRow(c, r)'
  <2>1. r \in 1 .. flushed[c] /\ sent[c] < r /\ (c = cur.conn => cur.hi < r)
    BY <1>1, <1>2, <1>3, <1>4, <1>5, SMTT(60) DEF PageOK
  <2>2. PICK i \in InFlight : /\ PageAt(i).conn = c
                              /\ PageAt(i).lo <= r /\ r <= PageAt(i).hi
    BY <1>1, <2>1, SMTT(60) DEF IInv, CoverInv, InFlightRow
  <2>3. i # 0
    BY <1>3, <1>4, <2>1, <2>2, SMTT(60)
  <2> QED
    BY <1>4, <2>2, <2>3, SMTT(60) DEF InFlightRow
<1>6. ASSUME conn'[c] \in {"notify", "done"}, Rows[c] # 0, c \notin terminalSent'
      PROVE  InFlightEnd(c)'
  <2>1. c \notin terminalSent
    BY <1>2, <1>6, SMTT(60)
  <2>2. PICK i \in InFlight : PageAt(i).conn = c /\ PageAt(i).terminal
    BY <1>1, <1>6, <2>1, SMTT(60) DEF IInv, CoverInv, InFlightEnd
  <2>3. i # 0
    BY <1>2, <1>4, <1>6, <2>2, SMTT(60)
  <2> QED
    BY <1>4, <2>2, <2>3, Zenon DEF InFlightEnd
<1> QED
  BY <1>5, <1>6

\* Every step keeps the flushed rows sent or in flight.
LEMMA CoverStep == IInv /\ [Next]_vars => CoverInv'
<1> SUFFICES ASSUME IInv, [Next]_vars, ~streamDone', consumer' # "returned",
                    NEW c \in Conns
             PROVE  /\ \A r \in 1 .. flushed'[c] : sent'[c] < r => InFlightRow(c, r)'
                    /\ conn'[c] \in {"notify", "done"} /\ Rows[c] # 0 =>
                         c \in terminalSent' \/ InFlightEnd(c)'
  BY DEF CoverInv
<1> QED
  BY CoverQuiet, CoverLeaves, CoverReceive, CoverSend, StepKinds, Zenon

\* Every step keeps the outcome in agreement with what was sent.
LEMMA OutcomeStep == IInv /\ [Next]_vars => OutcomeInv'
<1> SUFFICES ASSUME IInv, [Next]_vars PROVE OutcomeInv'
  BY SMTT(60)
<1>1. consumer' # "returned" => result' = result /\ consumer # "returned"
  BY Zenon DEF Next, vars, Cancel, Reader, MakeConnection, MakeSinks,
     GroupWait, ReportError, ReaderGivesUp, Handler, SinkTerminated,
     HandlerCanceled, Consumer, ReceivePage, ReceiveClosed, ConsumerCanceled,
     SendPage, EncodeFails, SendFails, HandlerReturns, Return, Connection,
     Query, AddRow, ReadFails, Flush, EndOfRows, FinishFlush, NotifyFactory,
     respondWith
<1>2. gap' => gap \/ streamDone
  <2>1. CASE ReceivePage \/ Quiet \/ \E c \in Conns : \E t \in BOOLEAN : Leaves(c, t)
    BY <2>1, Zenon DEF ReceivePage, Quiet, Leaves, clientVars
  <2>2. CASE SendPage
    BY <2>2, NextPage, Zenon DEF SendPage, Deliver
  <2> QED
    BY <2>1, <2>2, StepKinds
<1>3. streamDone => streamDone'
  BY StepKinds, Zenon DEF ReceivePage, SendPage, Quiet, Leaves
<1> QED
  BY <1>1, <1>2, <1>3, Zenon DEF OutcomeInv, IInv

\* The status of the promise, from the state of the streamer.
LEMMA StatusOf ==
  /\ consumer # "returned" => Status = "running"
  /\ consumer = "returned" /\ result = "ok" => Status = "ok"
  /\ consumer = "returned" /\ result # "ok" => Status = "failed"
BY DEF Status

\* The same after a step.
LEMMA StatusOfNext ==
  /\ consumer' # "returned" => Status' = "running"
  /\ consumer' = "returned" /\ result' = "ok" => Status' = "ok"
  /\ consumer' = "returned" /\ result' # "ok" => Status' = "failed"
BY DEF Status

\* How the consumer returns.
LEMMA ReturnFacts ==
  ASSUME TypeOK, [Next]_vars
  PROVE  /\ consumer = "returned" => consumer' = "returned" /\ result' = result
         /\ consumer # "returned" /\ consumer' = "returned" =>
              sent' = sent /\ (result' = "ok" => streamDone' = streamDone)
         /\ streamDone' = streamDone \/ (sent' = sent /\ streamDone' = TRUE)
<1> USE DEF sinkVars, chanVars, clientVars
<1>1. CASE Cancel \/ UNCHANGED vars
  BY <1>1, Zenon DEF Cancel, vars
<1>2. CASE Reader
  BY <1>2, Zenon DEF Reader, MakeConnection, MakeSinks, GroupWait, ReportError,
     ReaderGivesUp
<1>3. CASE Handler
  BY <1>3, Zenon DEF Handler, SinkTerminated, HandlerCanceled
<1>4. CASE Consumer
  <2>1. CASE ReceivePage \/ SendPage
    BY <2>1 DEF ReceivePage, SendPage
  <2>2. CASE ReceiveClosed \/ ConsumerCanceled \/ EncodeFails
    BY <2>2, SMTT(60) DEF ReceiveClosed, ConsumerCanceled, EncodeFails, Return
  <2>3. CASE SendFails \/ HandlerReturns
    BY <2>3 DEF SendFails, HandlerReturns, Return
  <2> QED
    BY <1>4, <2>1, <2>2, <2>3, Zenon DEF Consumer
<1>5. ASSUME NEW c \in Conns, Connection(c)
      PROVE  /\ UNCHANGED <<result, sent, streamDone>>
             /\ consumer' = consumer \/ (consumer = "select" /\ consumer' = "send")
  BY <1>5, Zenon DEF Connection, Query, AddRow, ReadFails, Flush, EndOfRows,
     FinishFlush, NotifyFactory, respondWith
<1> QED
  BY <1>1, <1>2, <1>3, <1>4, <1>5, ZenonT(60) DEF Next

\* Every step is one of the promise, or none.
LEMMA PromiseStep == IInv /\ IInv' /\ [Next]_vars => [Promise!Next]_(Promise!vars)
<1> SUFFICES ASSUME IInv, IInv', [Next]_vars, ~UNCHANGED <<sent, Status, streamDone>>
             PROVE  Promise!Next
  BY SMTT(60) DEF Promise!vars
<1>1. TypeOK /\ TypeOK' /\ sent' \in [Conns -> Nat]
  BY Zenon DEF IInv, TypeOK
<1>2. CASE SendPage
  <2>1. /\ consumer = "send" /\ consumer' = "select" /\ UNCHANGED <<streamDone, result>>
    BY <1>2 DEF SendPage
  <2>2. Status = "running" /\ Status' = "running"
    BY <2>1, StatusOf, StatusOfNext, SMTT(60)
  <2>3. sent' = [sent EXCEPT ![cur.conn] = cur.hi]
    BY <1>2, <2>1, <2>2, SMTT(60) DEF SendPage, Deliver
  <2>4. PageOK(cur) /\ cur \in Page
    BY <1>1, <1>2, FlightAfterSend, Zenon DEF IInv, FlightInv, TypeOK
  <2>5. /\ cur.conn \in Conns /\ cur.hi \in Nat /\ cur.lo \in Nat
        /\ sent[cur.conn] \in Nat /\ flushed[cur.conn] \in Nat
        /\ Rows[cur.conn] \in Nat /\ flushed[cur.conn] <= Rows[cur.conn]
    <3>1. cur.conn \in Conns /\ cur.hi \in Nat /\ cur.lo \in Nat
      BY <2>4, SMTT(60) DEF Page
    <3> QED
      BY <3>1, FlushedBound, Zenon DEF IInv
  <2>6. cur.hi \in (sent[cur.conn] + 1) .. Rows[cur.conn]
    <3>1. /\ sent[cur.conn] < cur.lo /\ cur.lo <= cur.hi
          /\ cur.hi <= flushed[cur.conn]
      BY <2>4, SMTT(60) DEF PageOK
    <3> QED
      BY <2>5, <3>1, SMTT(60)
  <2>7. Promise!Deliver
    BY <2>1, <2>2, <2>3, <2>5, <2>6, Zenon DEF Promise!Deliver
  <2> QED
    BY <2>7 DEF Promise!Next
<1>3. CASE ~SendPage
  <2>1. sent' = sent
    BY <1>3, StepKinds, Zenon DEF ReceivePage, Quiet, Leaves, clientVars
  <2>2. CASE consumer # "returned" /\ consumer' = "returned"
    <3>1. Status = "running"
      BY <2>2, StatusOf
    <3>2. CASE result' = "ok"
      <4>1. Status' = "ok" /\ streamDone' = streamDone
        BY <1>1, <2>2, <3>2, StatusOfNext, ReturnFacts, Zenon
      <4>2. streamDone \/ sent = Rows
        <5>1. ASSUME ~streamDone' PROVE sent' = Rows
          <6>1. \A c \in Conns : sent'[c] = Rows[c]
            BY <3>2, <5>1 DEF IInv, NothingLost
          <6> QED
            BY <6>1, <1>1, ReadAssumption, SMTT(60)
        <5> QED
          BY <5>1, <4>1, <2>1, SMTT(60)
      <4> QED
        BY <2>1, <3>1, <4>1, <4>2, SMTT(60) DEF Promise!Succeed, Promise!Next
    <3>3. CASE result' # "ok"
      <4>1. Status' = "failed"
        BY <2>2, <3>3, StatusOfNext, SMTT(60)
      <4>2. streamDone' \in BOOLEAN /\ (streamDone => streamDone')
        BY <1>1, ReturnFacts, Zenon DEF TypeOK
      <4> QED
        BY <2>1, <3>1, <4>1, <4>2, Zenon DEF Promise!Fail, Promise!Next
    <3> QED
      BY <3>2, <3>3
  <2>3. CASE ~(consumer # "returned" /\ consumer' = "returned")
    <3>1. Status' = Status
      <4>1. CASE consumer = "returned"
        <5>1. consumer' = "returned" /\ result' = result
          BY <1>1, <4>1, ReturnFacts, Zenon
        <5> QED
          BY <4>1, <5>1, StatusOf, StatusOfNext, SMTT(60)
      <4>2. CASE consumer # "returned" /\ consumer' # "returned"
        BY <4>2, StatusOf, StatusOfNext, SMTT(60)
      <4> QED
        BY <2>3, <4>1, <4>2, SMTT(60)
    <3>2. streamDone' = TRUE
      BY <1>1, <2>1, <3>1, ReturnFacts, Zenon
    <3> QED
      BY <2>1, <3>1, <3>2, ZenonT(60) DEF Promise!Cancel, Promise!Next
  <2> QED
    BY <2>2, <2>3
<1> QED
  BY <1>2, <1>3
-----------------------------------------------------------------------------
(* The counting of terminated sinks *)

\* How many members a finite set has.  The theorems that say so are used at the end of
\* the module only (SizesHold), which keeps them out of the steps before.
Sizes ==
  /\ IsFiniteSet({}) /\ Cardinality({}) = 0
  /\ \A S : IsFiniteSet(S) => Cardinality(S) \in Nat
  /\ \A S : IsFiniteSet(S) => \A T \in SUBSET S :
       /\ IsFiniteSet(T) /\ Cardinality(T) <= Cardinality(S)
       /\ Cardinality(T) = Cardinality(S) => S = T
  /\ \A S, c : IsFiniteSet(S) /\ c \notin S =>
       IsFiniteSet(S \cup {c}) /\ Cardinality(S \cup {c}) = Cardinality(S) + 1

\* The connections that are done are finitely many.
LEMMA DoneIsFinite ==
  ASSUME Sizes
  PROVE  /\ IsFiniteSet(DoneConns) /\ Cardinality(DoneConns) \in Nat
         /\ Cardinality(Conns) \in Nat
         /\ Cardinality(DoneConns) = Cardinality(Conns) => DoneConns = Conns
<1>1. DoneConns \in SUBSET Conns /\ IsFiniteSet(Conns)
  BY ReadAssumption DEF DoneConns
<1> QED
  BY <1>1, Zenon DEF Sizes

\* The queue is closed when all sinks are done.
LEMMA CountImpliesSafe ==
  ASSUME Sizes PROVE TypeOK /\ CountInv => NoSendOnClosed
<1> SUFFICES ASSUME TypeOK, CountInv, closed
             PROVE  \A c \in Conns : conn[c] = "done"
  BY DEF NoSendOnClosed
<1>1. terminated \in Nat /\ termChan \in Nat
  BY DEF TypeOK
<1>2. /\ terminated + termChan = Cardinality(DoneConns)
      /\ terminated = Cardinality(Conns)
  BY DEF CountInv
<1>3. Cardinality(DoneConns) <= Cardinality(Conns)
  <2>1. DoneConns \in SUBSET Conns /\ IsFiniteSet(Conns)
    BY ReadAssumption DEF DoneConns
  <2> QED
    BY <2>1, Zenon DEF Sizes
<1>4. Cardinality(DoneConns) = Cardinality(Conns)
  BY <1>1, <1>2, <1>3, DoneIsFinite
<1>5. DoneConns = Conns
  BY <1>4, DoneIsFinite
<1> QED
  BY <1>5 DEF DoneConns

\* Every step keeps the count of finished sinks exact.
LEMMA CountStep ==
  ASSUME Sizes PROVE TypeOK /\ CountInv /\ [Next]_vars => CountInv'
<1> SUFFICES ASSUME TypeOK, CountInv, [Next]_vars PROVE CountInv'
  OBVIOUS
<1>1. CASE Cancel \/ MakeConnection \/ GroupWait \/ ReportError \/ ReaderGivesUp
           \/ Consumer \/ HandlerCanceled \/ UNCHANGED vars
  <2>1. /\ UNCHANGED <<conn, termChan, terminated, closed>>
        /\ handler' = handler \/ (reader' = reader /\ handler = "loop" /\ handler' = "exit")
    BY <1>1, ZenonT(60) DEF Cancel, MakeConnection, GroupWait, ReportError,
       ReaderGivesUp, HandlerCanceled, Consumer, ReceivePage, ReceiveClosed,
       ConsumerCanceled, SendPage, EncodeFails, SendFails, HandlerReturns,
       vars, chanVars
  <2>2. reader' \in {"connect", "sinks"} => reader \in {"connect", "sinks"}
    BY <1>1, Zenon DEF Cancel, MakeConnection, GroupWait, ReportError,
       ReaderGivesUp, HandlerCanceled, Consumer, ReceivePage, ReceiveClosed,
       ConsumerCanceled, SendPage, EncodeFails, SendFails, HandlerReturns,
       vars
  <2>3. DoneConns' = DoneConns
    BY <2>1 DEF DoneConns
  <2>4. closed /\ handler = "loop" => FALSE
    BY DEF CountInv
  <2>5. reader \in {"connect", "sinks"} => handler # "loop"
    BY DEF CountInv
  <2> QED
    BY <2>1, <2>2, <2>3, <2>4, <2>5, SMTT(60) DEF CountInv
<1>2. CASE MakeSinks
  <2>1. \A c \in Conns : conn[c] = "idle"
    BY <1>2 DEF MakeSinks, CountInv
  <2>2. DoneConns' = {} /\ DoneConns = {}
    BY <1>2, <2>1 DEF MakeSinks, DoneConns
  <2>3. ~closed
    BY <1>2 DEF MakeSinks, CountInv
  <2> QED
    BY <1>2, <2>2, <2>3 DEF MakeSinks, CountInv
<1>3. CASE SinkTerminated
  <2>1. DoneConns' = DoneConns
    BY <1>3 DEF SinkTerminated, DoneConns
  <2>2. reader' = reader /\ reader \notin {"connect", "sinks"} /\ ~closed
    BY <1>3, SMTT(60) DEF SinkTerminated, CountInv
  <2>3. terminated' + termChan' = terminated + termChan
    BY <1>3 DEF SinkTerminated, TypeOK
  <2>4. closed' => terminated' = Cardinality(Conns) /\ handler' = "exit"
    BY <1>3, <2>2, Zenon DEF SinkTerminated, LastSink
  <2> QED
    BY <2>1, <2>2, <2>3, <2>4, SMTT(60) DEF CountInv
<1>4. ASSUME NEW c \in Conns, Connection(c) PROVE CountInv'
  <2>0. /\ UNCHANGED <<reader, terminated, closed, handler>>
        /\ \/ NotifyFactory(c) /\ Goto(c, "done") /\ termChan' = termChan + 1
           \/ /\ termChan' = termChan
              /\ conn[c] \notin {"idle", "done"}
              /\ \E p \in {"next", "flush", "finish", "notify", "dropped", "failed"} :
                    Goto(c, p)
    BY <1>4, Zenon DEF Connection, Query, AddRow, ReadFails, Flush, EndOfRows,
       FinishFlush, NotifyFactory, AppendRow, chanVars
  <2>1. conn \in [Conns -> {"idle", "query", "next", "flush", "finish",
                            "notify", "done", "dropped", "failed"}]
    BY DEF TypeOK
  <2>2. reader \notin {"connect", "sinks"}
    BY <2>0, SMTT(60) DEF CountInv, NotifyFactory
  <2>3. CASE NotifyFactory(c) /\ Goto(c, "done") /\ termChan' = termChan + 1
    <3>1. conn[c] = "notify"
      BY <2>3 DEF NotifyFactory
    <3>2. DoneConns' = DoneConns \cup {c} /\ c \notin DoneConns
      BY <2>1, <2>3, <3>1 DEF Goto, DoneConns
    <3>3. Cardinality(DoneConns') = Cardinality(DoneConns) + 1
      BY <3>2, DoneIsFinite, Zenon DEF Sizes
    <3> QED
      BY <2>0, <2>2, <2>3, <3>3, SMTT(60) DEF CountInv, TypeOK
  <2>4. CASE /\ termChan' = termChan
             /\ conn[c] \notin {"idle", "done"}
             /\ \E p \in {"next", "flush", "finish", "notify", "dropped", "failed"} :
                   Goto(c, p)
    <3>1. DoneConns' = DoneConns
      BY <2>1, <2>4 DEF Goto, DoneConns
    <3> QED
      BY <2>0, <2>2, <2>4, <3>1, CountFrame, SMTT(60)
  <2> QED
    BY <2>0, <2>3, <2>4
<1> QED
  BY <1>1, <1>2, <1>3, <1>4 DEF Next, Reader, Handler
-----------------------------------------------------------------------------
(* Nothing is lost *)

\* Every step keeps a successful read complete.
LEMMA NothingLostStep ==
  ASSUME Sizes PROVE IInv /\ [Next]_vars => NothingLost'
<1> SUFFICES ASSUME IInv, [Next]_vars, result' = "ok", ~streamDone', NEW c \in Conns
             PROVE  /\ conn'[c] = "done" /\ sent'[c] = Rows[c]
                    /\ Rows[c] # 0 => c \in terminalSent'
  BY DEF NothingLost
<1>1. ~streamDone
  BY StepKinds, Zenon DEF ReceivePage, SendPage, Quiet, Leaves
<1>2. CASE result = "ok"
  <2>1. consumer = "returned" /\ \A d \in Conns : conn[d] = "done"
    BY <1>1, <1>2, SMTT(60) DEF IInv, OutcomeInv, NothingLost
  <2>2. ~MakeSinks
    BY <2>1, ReadAssumption, SMTT(60) DEF MakeSinks, IInv, CountInv
  <2>3. \A d \in Conns : ~Connection(d)
    BY <2>1, Zenon DEF Connection, Query, AddRow, ReadFails, Flush, EndOfRows,
       FinishFlush, NotifyFactory
  <2>4. ~SendPage
    BY <2>1, SMTT(60) DEF SendPage
  <2>5. UNCHANGED <<conn, sent, terminalSent>>
    BY <2>2, <2>3, <2>4, ZenonT(60) DEF Next, vars, clientVars, Cancel, Reader,
       MakeConnection, GroupWait, ReportError, ReaderGivesUp, Handler,
       SinkTerminated, HandlerCanceled, Consumer, ReceivePage, ReceiveClosed,
       ConsumerCanceled, EncodeFails, SendFails, HandlerReturns
  <2> QED
    BY <1>1, <1>2, <2>5, SMTT(60) DEF IInv, NothingLost
<1>3. CASE result # "ok"
  <2>1. ReceiveClosed
    BY <1>3, ZenonT(60) DEF Next, vars, Cancel, Reader, MakeConnection, MakeSinks,
       GroupWait, ReportError, ReaderGivesUp, Handler, SinkTerminated,
       HandlerCanceled, Consumer, ReceivePage, ConsumerCanceled,
       SendPage, EncodeFails, SendFails, HandlerReturns, Return, Connection,
       Query, AddRow, ReadFails, Flush, EndOfRows, FinishFlush, NotifyFactory
  <2>2. /\ closed /\ queue = <<>> /\ consumer = "select"
        /\ UNCHANGED <<conn, sent, terminalSent>>
    BY <2>1 DEF ReceiveClosed, clientVars
  <2>3. conn[c] = "done"
    BY <2>2, CountImpliesSafe DEF IInv, NoSendOnClosed
  <2>4. InFlight = {}
    BY <2>2, SMTT(60) DEF InFlight
  <2>5. /\ flushed[c] = Rows[c] /\ sent[c] <= flushed[c]
        /\ sent[c] \in Nat /\ flushed[c] \in Nat
    <3>1. SinkOK(c) /\ sent[c] \in Nat /\ flushed[c] \in Nat /\ sent[c] <= flushed[c]
      BY Zenon DEF IInv, SinkInv, ClientInv, TypeOK
    <3>2. flushed[c] = added[c] /\ added[c] = Rows[c]
      BY <2>3, <3>1 DEF SinkOK
    <3> QED
      BY <3>1, <3>2, Zenon
  <2>6. sent[c] = flushed[c]
    <3> SUFFICES ASSUME sent[c] < flushed[c] PROVE FALSE
      BY <2>5
    <3>1. sent[c] + 1 \in 1 .. flushed[c] /\ sent[c] < sent[c] + 1
      BY <2>5, SMTT(60)
    <3>2. InFlightRow(c, sent[c] + 1)
      BY <1>1, <2>2, <3>1, Zenon DEF IInv, CoverInv
    <3> QED
      BY <3>2, <2>4, Zenon DEF InFlightRow
  <2>7. Rows[c] # 0 => c \in terminalSent
    <3>1. ~InFlightEnd(c)
      BY <2>4, Zenon DEF InFlightEnd
    <3>2. consumer # "returned"
      BY <2>2
    <3>3. conn[c] \in {"notify", "done"}
      BY <2>3, Zenon
    <3> QED
      BY <1>1, <3>1, <3>2, <3>3, Zenon DEF IInv, CoverInv
  <2> QED
    BY <2>2, <2>3, <2>5, <2>6, <2>7, Zenon
<1> QED
  BY <1>2, <1>3, Zenon
-----------------------------------------------------------------------------
(* The theorems *)

\* The invariant holds before the first row.
LEMMA InitInv ==
  ASSUME Sizes PROVE Init => IInv
<1> SUFFICES ASSUME Init PROVE IInv
  OBVIOUS
<1>1. newTrafficTracker \in Tracker /\ WithinPageLimits(0, 0)
  BY PagingAssumption, SMTT(60) DEF newTrafficTracker, Tracker, WithinPageLimits
<1>2. TypeOK
  <2>1. tracker \in [Conns -> Tracker] /\ cur \in Page /\ queue \in Seq(Page)
    BY <1>1, NoPageType DEF Init
  <2>2. conn \in [Conns -> {"idle", "query", "next", "flush", "finish",
                            "notify", "done", "dropped", "failed"}]
    BY SMTT(60) DEF Init
  <2> QED
    BY <2>1, <2>2, Zenon DEF Init, TypeOK
<1>3. SinkInv
  <2> SUFFICES ASSUME NEW c \in Conns PROVE SinkOK(c)
    BY DEF SinkInv
  <2>1. /\ conn[c] = "idle" /\ added[c] = 0 /\ flushed[c] = 0
        /\ tracker[c] = newTrafficTracker
    BY DEF Init
  <2>2. Rows[c] \in Nat /\ Volume[c][0] = 0
    BY ReadAssumption, SMTT(60)
  <2>3. /\ tracker[c].rowsCurr = 0 /\ tracker[c].bytesCurr = 0
        /\ tracker[c].rowsTotal = 0 /\ tracker[c].bytesTotal = 0
    <3>1. /\ newTrafficTracker.rowsCurr = 0 /\ newTrafficTracker.bytesCurr = 0
          /\ newTrafficTracker.rowsTotal = 0 /\ newTrafficTracker.bytesTotal = 0
      BY SMT DEF newTrafficTracker
    <3> QED
      BY <2>1, <3>1, SMTT(60)
  <2>4. /\ flushed[c] <= added[c] /\ added[c] <= Rows[c]
        /\ tracker[c].rowsCurr = added[c] - flushed[c]
    BY <2>1, <2>2, <2>3, SMTT(60)
  <2>5. /\ tracker[c].bytesCurr = Volume[c][added[c]] - Volume[c][flushed[c]]
        /\ tracker[c].rowsTotal = added[c]
        /\ tracker[c].bytesTotal = Volume[c][added[c]]
    BY <2>1, <2>2, <2>3, SMTT(60)
  <2>6. WithinPageLimits(tracker[c].rowsCurr, tracker[c].bytesCurr)
    BY <1>1, <2>3, SMTT(60)
  <2> QED
    BY <2>1, <2>4, <2>5, <2>6, Zenon DEF SinkOK
<1>4. CountInv
  <2>1. DoneConns = {}
    BY DEF Init, DoneConns
  <2>2. Cardinality({}) = 0
    BY Zenon DEF Sizes
  <2> QED
    BY <2>1, <2>2, SMTT(60) DEF Init, CountInv
<1>5. InFlight = {}
  BY DEF Init, InFlight
<1>6. FlightInv
  <2>1. Len(queue) = 0 /\ QueueCap \in Nat
    BY ReadAssumption DEF Init
  <2>2. Len(queue) <= QueueCap
    BY <2>1
  <2> QED
    BY <1>5, <2>2, SMTT(60) DEF FlightInv
<1>8. ClientInv
  BY DEF Init, ClientInv
<1>9. CoverInv
  <2>1. \A c \in Conns : conn[c] = "idle" /\ flushed[c] = 0
    BY DEF Init
  <2>2. \A c \in Conns : 1 .. flushed[c] = {}
    BY <2>1
  <2> QED
    BY <2>1, <2>2 DEF CoverInv
<1>7. OutcomeInv /\ NothingLost
  BY DEF Init, OutcomeInv, NothingLost
<1> QED
  BY <1>2, <1>3, <1>4, <1>6, <1>7, <1>8, <1>9, Zenon DEF IInv

\* Every step keeps the invariant.
LEMMA StepInv ==
  ASSUME Sizes PROVE IInv /\ [Next]_vars => IInv'
BY TypeStep, SinkStep, CountStep, FlightStep, ClientStep, CoverStep,
   OutcomeStep, NothingLostStep, Zenon DEF IInv

\* What the invariant says of the queue.
LEMMA ClosesSafely == ASSUME Sizes PROVE IInv => NoSendOnClosed
BY CountImpliesSafe, Zenon DEF IInv

\* What it says of the order of the pages.
LEMMA GapsAbsent == IInv => NoGap
BY ZenonT(60) DEF IInv, OutcomeInv, NoGap

\* What it says of the pages.
LEMMA StatsOfPages == IInv => PageStatsExact
BY Zenon DEF IInv, FlightInv, PageOK, PageStatsExact

\* What it says of the final statistics.
LEMMA StatsAtEnd == IInv => FinalStatsExact
<1> SUFFICES ASSUME IInv, result = "ok", ~streamDone, NEW c \in Conns
             PROVE  /\ tracker[c].rowsTotal = sent[c]
                    /\ tracker[c].bytesTotal = Volume[c][sent[c]]
  BY DEF FinalStatsExact
<1>1. conn[c] = "done" /\ sent[c] = Rows[c]
  BY Zenon DEF IInv, NothingLost
<1>2. SinkOK(c)
  BY Zenon DEF IInv, SinkInv
<1>3. /\ added[c] = Rows[c] /\ tracker[c].rowsTotal = added[c]
      /\ tracker[c].bytesTotal = Volume[c][added[c]]
  <2>1. conn[c] # "failed" /\ conn[c] \in {"notify", "done", "dropped"}
    BY <1>1
  <2> QED
    BY <1>2, <2>1, Zenon DEF SinkOK
<1> QED
  BY <1>1, <1>3, Zenon

\* What it says of the terminal pages.
LEMMA TerminalsLast == IInv => TerminalIsLast
<1> SUFFICES ASSUME IInv, NEW i \in InFlight
             PROVE  /\ PageAt(i).conn \notin terminalSent
                    /\ PageAt(i).terminal =>
                         /\ PageAt(i).hi = Rows[PageAt(i).conn]
                         /\ \A j \in InFlight : j > i => PageAt(j).conn # PageAt(i).conn
  BY DEF TerminalIsLast
<1>1. \A k \in InFlight :
        /\ PageOK(PageAt(k)) /\ PageAt(k) \in Page /\ PageAt(k).conn \in Conns
        /\ k \in Nat
  BY PageAtType, SMTT(60) DEF IInv, FlightInv
<1>2. \A c \in Conns : /\ flushed[c] <= Rows[c] /\ flushed[c] \in Nat
                       /\ Rows[c] \in Nat /\ sent[c] \in Nat
  BY FlushedBound, SMTT(60) DEF IInv
<1>3. ASSUME NEW k \in InFlight
      PROVE  /\ PageAt(k).lo \in Nat /\ PageAt(k).hi \in Nat
             /\ PageAt(k).lo <= Rows[PageAt(k).conn]
             /\ sent[PageAt(k).conn] < PageAt(k).lo
  <2>1. PageAt(k).lo \in Nat /\ PageAt(k).hi \in Nat /\ PageAt(k).conn \in Conns
    BY <1>1, SMTT(60) DEF Page
  <2>2. /\ sent[PageAt(k).conn] < PageAt(k).lo /\ PageAt(k).lo <= PageAt(k).hi
        /\ PageAt(k).hi <= flushed[PageAt(k).conn]
    BY <1>1, Zenon DEF PageOK
  <2>3. /\ flushed[PageAt(k).conn] <= Rows[PageAt(k).conn]
        /\ flushed[PageAt(k).conn] \in Nat /\ Rows[PageAt(k).conn] \in Nat
    BY <1>2, <2>1, Zenon
  <2> DEFINE c == PageAt(k).conn
  <2>4. PageAt(k).lo <= Rows[c]
    <3>1. ASSUME NEW a \in Nat, NEW b \in Nat, NEW e \in Nat, NEW n \in Nat, a <= b, b <= e, e <= n
          PROVE  a <= n
      BY <3>1
    <3> QED
      BY <2>1, <2>2, <2>3, <3>1, Zenon
  <2> QED
    BY <2>1, <2>2, <2>4, Zenon
<1>4. PageAt(i).conn \notin terminalSent
  <2>1. PageAt(i).conn \in Conns
    BY <1>1
  <2>2. sent[PageAt(i).conn] \in Nat /\ Rows[PageAt(i).conn] \in Nat
    BY <1>2, <2>1, Zenon
  <2>3. sent[PageAt(i).conn] # Rows[PageAt(i).conn]
    BY <1>3, <2>2, SMTT(60)
  <2> QED
    BY <2>1, <2>3 DEF IInv, ClientInv
<1>5. ASSUME PageAt(i).terminal PROVE PageAt(i).hi = Rows[PageAt(i).conn]
  BY <1>1, <1>5, Zenon DEF PageOK
<1>6. ASSUME PageAt(i).terminal, NEW j \in InFlight, j > i,
             PageAt(j).conn = PageAt(i).conn
      PROVE  FALSE
  <2>1. PageAt(i).hi < PageAt(j).lo
    BY <1>1, <1>6 DEF IInv, FlightInv
  <2> QED
    <3>1. PageAt(i).hi = Rows[PageAt(i).conn] /\ PageAt(j).lo <= Rows[PageAt(i).conn]
      BY <1>3, <1>5, <1>6
    <3>2. PageAt(i).hi \in Nat /\ PageAt(j).lo \in Nat
      BY <1>3
    <3> QED
      BY <2>1, <3>1, <3>2
<1> QED
  BY <1>4, <1>5, <1>6, Zenon

\* The promise starts.
LEMMA PromiseStarts == Init => Promise!Init
<1> SUFFICES ASSUME Init PROVE Promise!Init
  OBVIOUS
<1>1. Status = "running"
  BY StatusOf DEF Init
<1> QED
  BY <1>1, SMTT(60) DEF Init, Promise!Init

INSTANCE FiniteSetTheorems

\* The facts about the sizes of finite sets, from the library.
LEMMA SizesHold == Sizes
BY FS_EmptySet, FS_CardinalityType, FS_AddElement, FS_Subset DEF Sizes

\* The invariant holds of every read.
LEMMA InductiveInv == Spec => []IInv
<1>1. Init => IInv
  BY SizesHold, InitInv
<1>2. IInv /\ [Next]_vars => IInv'
  BY SizesHold, StepInv
<1> QED
  BY <1>1, <1>2, PTL DEF Spec

\* Every variable of the pipeline keeps its type.
THEOREM TypeCorrect == Spec => []TypeOK
<1>1. IInv => TypeOK
  BY DEF IInv
<1> QED
  BY <1>1, InductiveInv, PTL

\* sinkTerminationHandler never closes the result queue while a sink can
\* still send.
THEOREM SafeClose == Spec => []NoSendOnClosed
<1>1. IInv => NoSendOnClosed
  BY SizesHold, ClosesSafely
<1> QED
  BY <1>1, InductiveInv, PTL

\* A split that writeDataToStream reports as read, to a client that is still
\* there, was delivered completely.
THEOREM Complete == Spec => []NothingLost
<1>1. IInv => NothingLost
  BY DEF IInv
<1> QED
  BY <1>1, InductiveInv, PTL

\* Pages reach the client in order and without a gap until it cancels.
THEOREM InOrder == Spec => []NoGap
<1>1. IInv => NoGap
  BY GapsAbsent
<1> QED
  BY <1>1, InductiveInv, PTL

\* The Stats of every page are those of its rows, and the page respects the
\* limits of the configuration.
THEOREM PagesExact == Spec => []PageStatsExact
<1>1. IInv => PageStatsExact
  BY StatsOfPages
<1> QED
  BY <1>1, InductiveInv, PTL

\* FinalStats of a split that was read is what the client got.
THEOREM StatsExact == Spec => []FinalStatsExact
<1>1. IInv => FinalStatsExact
  BY StatsAtEnd
<1> QED
  BY <1>1, InductiveInv, PTL

\* The terminal page of a connection is its last page.
THEOREM TerminalLast == Spec => []TerminalIsLast
<1>1. IInv => TerminalIsLast
  BY TerminalsLast
<1> QED
  BY <1>1, InductiveInv, PTL
-----------------------------------------------------------------------------
(* The pipeline implements the promise of SplitRead *)

\* The pipeline of goroutines, channels and contexts implements the contract
\* that doReadSplit relies on (its liveness part is left to model checking).
THEOREM Refinement == Spec => Promise!Spec
<1>1. Init => Promise!Init
  BY PromiseStarts
<1> QED
  BY <1>1, PromiseStep, InductiveInv, PTL DEF Spec, Promise!Spec
=============================================================================
