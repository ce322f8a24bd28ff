----------------------------- MODULE ReadRequest ----------------------------
(***************************************************************************)
(* A whole ReadSplits call: serviceConnector.ReadSplits and doReadSplits,  *)
(* which read the splits of the request one by one; DataSourceCollection.  *)
(* ReadSplit and doReadSplit, which register every split as an incoming    *)
(* query; and the outgoing queries that dataSourceImpl.ReadSplit registers *)
(* for its connections, in the observation storage.                        *)
(*                                                                         *)
(* The reading of one split is not repeated here: it is the contract       *)
(* SplitRead, which module ReadSplits is shown to implement.               *)
(***************************************************************************)
EXTENDS Naturals, Sequences, Functions

CONSTANTS
  Conns,            \* connections a split is read through
  Splits,           \* Splits[i]: [size, source], the i-th split of the request; its
                    \* kind and columns are left open between those with a data
                    \* source, "served", and those without one, "unsupported"
  StorageMayFail    \* the observation storage can refuse an operation

ASSUME RequestAssumption ==
  /\ StorageMayFail \in BOOLEAN
  /\ Splits \in Seq([size : [Conns -> Nat],
                     source : (SUBSET {"served", "unsupported"}) \ {{}}])

N == Len(Splits)
QueryStates == {"none", "running", "finished", "canceled"}

VARIABLES
  pc,         \* where the handler is
  idx,        \* the split it reads
  sent,       \* sent[c]: rows of the split that the client has
  status,     \* how the reading of the split stands, see SplitRead
  canceled,   \* the client has gone
  conn,       \* conn[c]: what the goroutine of connection c does
  got,        \* got[i]: rows of split i that the client has
  msgs,       \* messages of the response stream
  incoming,   \* incoming[i]: state of the incoming query of split i
  inRows,     \* inRows[i]: the rows recorded with it
  outgoing,   \* outgoing[i][c]: state of the outgoing query
  outRows,    \* outRows[i][c]: the rows recorded with it
  refused     \* splits whose end the storage refused to record

vars == <<pc, idx, sent, status, canceled, conn, got, msgs, incoming, inRows,
          outgoing, outRows, refused>>
readVars == <<sent, status>>
clientVars == <<got, msgs>>
storageVars == <<incoming, inRows, outgoing, outRows, refused>>

Size == Splits[idx].size
Read(i) == INSTANCE SplitRead WITH Size <- Splits[i].size

Message(kind) == [kind |-> kind, split |-> idx]

Init ==
  /\ pc = "validate" /\ idx = 1
  /\ sent = [c \in Conns |-> 0] /\ status = "running" /\ canceled = FALSE
  /\ conn = [c \in Conns |-> "idle"]
  /\ got = [i \in 1 .. N |-> [c \in Conns |-> 0]]
  /\ msgs = <<>>
  /\ incoming = [i \in 1 .. N |-> "none"]
  /\ inRows = [i \in 1 .. N |-> 0]
  /\ outgoing = [i \in 1 .. N |-> [c \in Conns |-> "none"]]
  /\ outRows = [i \in 1 .. N |-> [c \in Conns |-> 0]]
  /\ refused = {}

Cancel ==
  /\ pc # "done"
  /\ ~canceled
  /\ canceled' = TRUE
  /\ UNCHANGED <<pc, idx, readVars, conn, clientVars, storageVars>>

\* ValidateReadSplitsRequest: a request without splits is refused, and so is
\* one with a split that lacks something.
Validate ==
  /\ pc = "validate"
  /\ \/ N > 0 /\ pc' = "create"
     \/ pc' = "reply"
  /\ UNCHANGED <<idx, readVars, canceled, conn, clientVars, storageVars>>

CreateIncoming ==
  /\ pc = "create"
  /\ \/ /\ incoming' = [incoming EXCEPT ![idx] = "running"]
        /\ pc' = "make"
     \/ /\ StorageMayFail
        /\ pc' = "reply" /\ UNCHANGED incoming
  /\ UNCHANGED <<idx, readVars, canceled, conn, clientVars, inRows, outgoing, outRows, refused>>

\* The data source and the columnar buffer factory are made.  Neither early
\* return touches the incoming query.
MakeSource ==
  /\ pc = "make"
  /\ \E s \in Splits[idx].source : pc' = IF s = "served" THEN "stream" ELSE "reply"
  /\ sent' = [c \in Conns |-> 0]
  /\ status' = "running"
  /\ conn' = [c \in Conns |-> "idle"]
  /\ UNCHANGED <<idx, canceled, clientVars, storageVars>>

-----------------------------------------------------------------------------
(* One split: streamer.Run.                                                *)

\* No connection, or no sinks: the goroutines of the connections never start.
ConnectFails ==
  /\ pc = "stream"
  /\ \A c \in Conns : conn[c] = "idle"
  /\ conn' = [c \in Conns |-> "off"]
  /\ UNCHANGED <<pc, idx, readVars, canceled, clientVars, storageVars>>

\* The query is made and registered, even if the read has failed by now.
CreateOutgoing(c) ==
  /\ pc = "stream"
  /\ conn[c] = "idle"
  /\ \/ /\ outgoing' = [outgoing EXCEPT ![idx][c] = "running"]
        /\ conn' = [conn EXCEPT ![c] = "reading"]
     \/ /\ StorageMayFail
        /\ conn' = [conn EXCEPT ![c] = "off"] /\ UNCHANGED outgoing
  /\ UNCHANGED <<pc, idx, readVars, canceled, clientVars, incoming, inRows, outRows, refused>>

\* The storage refuses an update; the error is logged or returned.
Refuse == StorageMayFail /\ refused' = refused \cup {idx}

\* All the rows of the connection went into its sink.
FinishOutgoing(c) ==
  /\ pc = "stream"
  /\ conn[c] = "reading"
  /\ conn' = [conn EXCEPT ![c] = "done"]
  /\ \/ /\ outgoing' = [outgoing EXCEPT ![idx][c] = "finished"]
        /\ outRows' = [outRows EXCEPT ![idx][c] = Size[c]]
        /\ UNCHANGED refused
     \/ Refuse /\ UNCHANGED <<outgoing, outRows>>
  /\ UNCHANGED <<pc, idx, readVars, canceled, clientVars, incoming, inRows>>

\* The connection fails, the read limit included; its last page leaves the
\* sink only when nothing can fail any more.
CancelOutgoing(c) ==
  /\ pc = "stream"
  /\ conn[c] = "reading"
  /\ Size[c] > 0 => sent[c] < Size[c]
  /\ conn' = [conn EXCEPT ![c] = "failed"]
  /\ \/ outgoing' = [outgoing EXCEPT ![idx][c] = "canceled"] /\ UNCHANGED refused
     \/ Refuse /\ UNCHANGED outgoing
  /\ UNCHANGED <<pc, idx, readVars, canceled, clientVars, incoming, inRows, outRows>>

\* A page is sent; the one that ends with the last row of its connection is
\* terminal and carries a success.
Deliver ==
  /\ pc = "stream"
  /\ \E i \in 1 .. N : i = idx /\ Read(i)!Deliver
  /\ \A c \in Conns : sent'[c] # sent[c] =>
       /\ conn[c] \in {"reading", "done", "failed"}
       /\ conn[c] = "failed" => sent'[c] < Size[c]
  /\ got' = [got EXCEPT ![idx] = sent']
  /\ msgs' = Append(msgs, Message(
       IF \E c \in Conns : sent'[c] # sent[c] /\ sent'[c] = Size[c] THEN "terminal" ELSE "data"))
  /\ UNCHANGED <<pc, idx, conn, storageVars>>

\* The queue is closed: every sink was finished.
Succeed ==
  /\ pc = "stream"
  /\ \E i \in 1 .. N : i = idx /\ Read(i)!Succeed
  /\ canceled \/ \A c \in Conns : conn[c] \in {"reading", "done"}
  /\ UNCHANGED <<pc, idx, conn, clientVars, storageVars>>

\* A connection whose rows the client does not have.
Pending(c) == conn[c] \in {"reading", "done", "failed"} /\ sent[c] < Size[c]

\* The stream is over, the reader reports the error of a connection after all of them
\* have ended, or a page cannot be encoded.
Fail ==
  /\ pc = "stream"
  /\ \E i \in 1 .. N : i = idx /\ Read(i)!Fail
  /\ \/ canceled'
     \/ /\ \A c \in Conns : conn[c] \in {"off", "done", "failed"}
        /\ \E c \in Conns : conn[c] \in {"off", "failed"}
     \/ \E c \in Conns : Pending(c)
  /\ UNCHANGED <<pc, idx, conn, clientVars, storageVars>>

\* Nobody takes the pages any more, the queue is full, and the context of the stream is
\* not done; respondWith waits until it is.
Blocks(c) ==
  /\ pc = "stream"
  /\ status = "failed" /\ ~canceled
  /\ conn[c] = "reading" /\ Pending(c)
  /\ conn' = [conn EXCEPT ![c] = "blocked"]
  /\ UNCHANGED <<pc, idx, readVars, canceled, clientVars, storageVars>>

Unblocks(c) ==
  /\ pc = "stream"
  /\ conn[c] = "blocked" /\ canceled
  /\ conn' = [conn EXCEPT ![c] = "reading"]
  /\ UNCHANGED <<pc, idx, readVars, canceled, clientVars, storageVars>>

\* The deferred wg.Wait left out: the goroutines of the split live on.
RunReturned_NoWait == status # "running"

RunReturned == status # "running" /\ \A c \in Conns : conn[c] \in {"off", "done", "failed"}

RunReturns ==
  /\ pc = "stream"
  /\ RunReturned
  /\ pc' = "record"
  /\ UNCHANGED <<idx, readVars, canceled, conn, clientVars, storageVars>>

-----------------------------------------------------------------------------
(* After the split: doReadSplit, doReadSplits, ReadSplits.                 *)

\* What FinalStats may have counted: the rows that went into each of the sinks, which
\* are at least those that were sent.
Taken ==
  {rows \in [Conns -> UNION {0 .. Size[c] : c \in Conns}] :
     \A c \in Conns : sent[c] <= rows[c] /\ rows[c] <= Size[c]}

\* The error of the streamer is registered and then forgotten.
RecordFailure_Forget ==
  /\ pc = "record"
  /\ status = "failed"
  /\ incoming' = [incoming EXCEPT ![idx] = "canceled"]
  /\ inRows' = [inRows EXCEPT ![idx] = SumFunction(sent)]
  /\ pc' = "next"
  /\ UNCHANGED <<idx, readVars, canceled, conn, clientVars, outgoing, outRows, refused>>

RecordFailure ==
  /\ pc = "record"
  /\ status = "failed"
  /\ \/ /\ incoming' = [incoming EXCEPT ![idx] = "canceled"]
        /\ \E rows \in Taken : inRows' = [inRows EXCEPT ![idx] = SumFunction(rows)]
        /\ UNCHANGED refused
     \/ Refuse /\ UNCHANGED <<incoming, inRows>>
  /\ pc' = "reply"
  /\ UNCHANGED <<idx, readVars, canceled, conn, clientVars, outgoing, outRows>>

\* FinalStats counts the rows that went into the sinks, which are the rows
\* sent unless the client has gone.  A storage that fails turns the success
\* into an error.
RecordSuccess ==
  /\ pc = "record"
  /\ status = "ok"
  /\ \/ /\ incoming' = [incoming EXCEPT ![idx] = "finished"]
        /\ \E rows \in Taken : inRows' = [inRows EXCEPT ![idx] = SumFunction(rows)]
        /\ pc' = "next" /\ UNCHANGED refused
     \/ /\ Refuse
        /\ pc' = "reply" /\ UNCHANGED <<incoming, inRows>>
  /\ UNCHANGED <<idx, readVars, canceled, conn, clientVars, outgoing, outRows>>

NextSplit ==
  /\ pc = "next"
  /\ IF idx < N THEN pc' = "create" /\ idx' = idx + 1 ELSE pc' = "done" /\ idx' = idx
  /\ UNCHANGED <<readVars, canceled, conn, clientVars, storageVars>>

\* A handler that reports the failed split and goes on with the next one.
Reply_Continue ==
  /\ pc = "reply"
  /\ msgs' = Append(msgs, Message("error"))
  /\ pc' = IF idx < N THEN "next" ELSE "done"
  /\ UNCHANGED <<idx, readVars, canceled, conn, got, storageVars>>

\* A handler that tries the failed split again instead of answering.
Reply_Retry ==
  /\ pc = "reply"
  /\ pc' = "create"
  /\ UNCHANGED <<idx, readVars, canceled, conn, clientVars, storageVars>>

\* The error goes out as the last message; a broken transport may lose it.
Reply ==
  /\ pc = "reply"
  /\ \/ msgs' = Append(msgs, Message("error"))
     \/ canceled /\ UNCHANGED msgs
  /\ pc' = "done"
  /\ UNCHANGED <<idx, readVars, canceled, conn, got, storageVars>>

Finished == pc = "done" /\ UNCHANGED vars

Handler ==
  \/ Validate \/ CreateIncoming \/ MakeSource \/ RunReturns \/ RecordFailure
  \/ RecordSuccess \/ NextSplit \/ Reply

Connection(c) ==
  CreateOutgoing(c) \/ FinishOutgoing(c) \/ CancelOutgoing(c) \/ Blocks(c) \/ Unblocks(c)

Next ==
  \/ Cancel \/ Handler \/ ConnectFails \/ Deliver \/ Succeed \/ Fail \/ Finished
  \/ \E c \in Conns : Connection(c)

Spec == Init /\ [][Next]_vars

\* The handler and the goroutines run.  That the loop over the pages of a split ends is
\* what SplitRead promises, also when a page cannot be encoded; a connection may be
\* blocked all the same.
FairSpec ==
  /\ Spec
  /\ WF_vars(Handler)
  /\ WF_vars(Succeed \/ Fail)
  /\ \A c \in Conns : WF_vars(Connection(c))

-----------------------------------------------------------------------------
(* Properties.                                                             *)

TypeOK ==
  /\ pc \in {"validate", "create", "make", "stream", "record", "next", "reply", "done"}
  /\ idx \in Nat \ {0} /\ (idx <= N \/ idx = 1)
  /\ sent \in [Conns -> Nat]
  /\ status \in {"running", "ok", "failed"}
  /\ canceled \in BOOLEAN
  /\ conn \in [Conns -> {"idle", "off", "reading", "blocked", "done", "failed"}]
  /\ got \in [1 .. N -> [Conns -> Nat]]
  /\ msgs \in Seq([kind : {"data", "terminal", "error"}, split : Nat])
  /\ incoming \in [1 .. N -> QueryStates]
  /\ inRows \in [1 .. N -> Nat]
  /\ outgoing \in [1 .. N -> [Conns -> QueryStates]]
  /\ outRows \in [1 .. N -> [Conns -> Nat]]
  /\ refused \subseteq 1 .. N

ErrorSent == \E k \in DOMAIN msgs : msgs[k].kind = "error"

\* A response that ends without an error, for a client that is still there,
\* holds every row of every split (ReadSplits, service_connector.go: any error
\* on the way is sent).
SuccessIsComplete ==
  pc = "done" /\ ~ErrorSent /\ ~canceled => \A i \in 1 .. N : got[i] = Splits[i].size

\* "Connector will read splits in a single thread one by one.  The data will
\* be returned in the order corresponding to the order of requested splits"
\* (TReadSplitsRequest_ORDERED, connector.pb.go): nothing of a split is sent
\* before all of the split ahead of it.
OneByOne ==
  /\ \A k, l \in DOMAIN msgs : k < l => msgs[k].split <= msgs[l].split
  /\ \A i, j \in 1 .. N : i < j /\ (\E c \in Conns : got[j][c] > 0) =>
        canceled \/ got[i] = Splits[i].size

\* An error is the last message, and the handler returns after it.
ErrorIsLast ==
  \A k \in DOMAIN msgs : msgs[k].kind = "error" => k = Len(msgs) /\ pc = "done"

\* "List all currently running incoming queries" (observation/service.go): a
\* query that is stored as running belongs to the split being read, and no
\* outgoing query outlives its incoming one, unless the storage was told and
\* refused.  A split whose data source cannot be made is left out: ReadSplit
\* returns without a word to the storage, and its query is running for ever.
RunningIsReal ==
  \A i \in (1 .. N) \ refused :
    /\ incoming[i] = "running" /\ Splits[i].source = {"served"} =>
         pc # "done" /\ i = idx
    /\ \A c \in Conns : outgoing[i][c] = "running" => incoming[i] = "running"

\* The rows recorded with a finished incoming query are the rows recorded with
\* its outgoing queries (FinalStats of the sinks against the counter of
\* doReadSplitSingleConn).
StatsAgree ==
  \A i \in 1 .. N :
    incoming[i] = "finished" /\ ~canceled /\ (\A c \in Conns : outgoing[i][c] = "finished")
      => inRows[i] = SumFunction(outRows[i])

\* What the storage tells of queries is true: of those that run, and of the rows of
\* those that are finished.
RecordsAreReal == RunningIsReal /\ StatsAgree

\* The read of a split has failed, and Run waits for a connection that waits for a client
\* who waits for the answer.
LeftOnEncoding == status = "failed" /\ ~canceled /\ \E c \in Conns : conn[c] = "blocked"

\* The handler returns, whatever fails, except where a page could not be encoded: then
\* it may be left waiting for as long as the client does.
Terminates == <>[](pc = "done" \/ LeftOnEncoding)
=============================================================================
