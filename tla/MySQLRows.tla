----------------------------- MODULE MySQLRows ------------------------------
(***************************************************************************)
(* The rows of a MySQL query: connection.Query starts a goroutine, the     *)
(* fetcher, that runs the streaming select of the driver and passes every  *)
(* row through rowChan; the reader is doReadSplitSingleConn, which first   *)
(* waits for the column types in rows.MakeTransformer and then drains the  *)
(* channel with Next and Scan.                                             *)
(*                                                                         *)
(* A row is its number.  The driver is external: it calls the handler once *)
(* for every row, in order, and may fail before any of them.               *)
(***************************************************************************)
EXTENDS Naturals, Sequences

CONSTANTS
  NRows,          \* rows of the result set
  ChanCap,        \* TMySQLConfig.result_chan_capacity
  FetchMayFail    \* the driver can fail

ASSUME RowsAssumption ==
  /\ NRows \in Nat
  /\ ChanCap \in Nat
  /\ FetchMayFail \in BOOLEAN

VARIABLES
  ctxDone,     \* params.Ctx is done
  fetcher,     \* where the goroutine of Query is
  fetched,     \* rows the driver has handed to the handler
  types,       \* transformerInitChan: empty, filled, taken or closed without a value
  rowChan,     \* buffered rows
  rowClosed,   \* rowChan is closed
  fetchErrChan, \* errChan of Query: the buffered result of the fetcher
  fetchErr,    \* the streaming select failed
  reader,      \* where doReadSplitSingleConn is
  acceptors,   \* what MakeTransformer prepared: none, typed, or empty
  taken,       \* rows that went through Scan, without a gap
  outcome      \* how doReadSplitSingleConn ended

vars == <<ctxDone, fetcher, fetched, types, rowChan, rowClosed, fetchErrChan, fetchErr,
          reader, acceptors, taken, outcome>>
fetchVars == <<fetcher, fetched, types, rowChan, rowClosed, fetchErrChan, fetchErr>>
readVars == <<reader, acceptors, taken, outcome>>

Init ==
  /\ ctxDone = FALSE
  /\ fetcher = "fetch" /\ fetched = 0 /\ types = "empty"
  /\ rowChan = <<>> /\ rowClosed = FALSE
  /\ fetchErrChan = <<>> /\ fetchErr = FALSE
  /\ reader = "transform" /\ acceptors = "none"
  /\ taken = 0 /\ outcome = "none"

\* The client leaves, or the streamer has returned and cancels its context.
Cancel ==
  /\ ~ctxDone
  /\ ctxDone' = TRUE
  /\ UNCHANGED <<fetchVars, readVars>>

-----------------------------------------------------------------------------
(* The fetcher.                                                            *)

\* The driver calls the handler with the next row, which is copied.
FetchRow ==
  /\ fetcher = "fetch"
  /\ fetched < NRows
  /\ fetched' = fetched + 1
  /\ fetcher' = IF types = "empty" THEN "init" ELSE "send"
  /\ UNCHANGED <<ctxDone, types, rowChan, rowClosed, fetchErrChan, fetchErr, readVars>>

\* maybeInitializeTransformer, on the first row: the channel has room for the
\* types, but a context that is done can win the select; then it is closed.
InitTypes ==
  /\ fetcher = "init"
  /\ \/ types' = "filled"
     \/ ctxDone /\ types' = "closed"
  /\ fetcher' = "send"
  /\ UNCHANGED <<ctxDone, fetched, rowChan, rowClosed, fetchErrChan, fetchErr, readVars>>

FetchReturns(failed) ==
  /\ fetchErrChan' = <<IF failed THEN "error" ELSE "nil">>
  /\ fetchErr' = failed
  /\ fetcher' = "close"

\* Without a buffer the row is handed to a reader that waits in Next.
HasRoom == IF ChanCap = 0 THEN reader = "next" /\ rowChan = <<>> ELSE Len(rowChan) < ChanCap

SendRow ==
  /\ fetcher = "send"
  /\ HasRoom
  /\ rowChan' = Append(rowChan, fetched)
  /\ fetcher' = "fetch"
  /\ UNCHANGED <<ctxDone, fetched, types, rowClosed, fetchErrChan, fetchErr, readVars>>

\* A handler that blocks on the channel only.
SendCanceled_Never == FALSE /\ UNCHANGED vars

\* The handler returns the error of the context, and the driver returns it.
SendCanceled ==
  /\ fetcher = "send"
  /\ ctxDone
  /\ FetchReturns(TRUE)
  /\ UNCHANGED <<ctxDone, fetched, types, rowChan, rowClosed, readVars>>

FetchEnds ==
  /\ fetcher = "fetch"
  /\ \/ fetched = NRows /\ FetchReturns(FALSE)
     \/ FetchMayFail /\ FetchReturns(TRUE)
  /\ UNCHANGED <<ctxDone, fetched, types, rowChan, rowClosed, readVars>>

\* The deferred closes: fetchErrChan first, whose error stays readable, then rowChan.
CloseChannels ==
  /\ fetcher = "close"
  /\ rowClosed' = TRUE
  /\ fetcher' = "gone"
  /\ UNCHANGED <<ctxDone, fetched, types, rowChan, fetchErrChan, fetchErr, readVars>>

-----------------------------------------------------------------------------
(* The reader.                                                             *)

Finish(how) == reader' = "done" /\ outcome' = how

\* MakeTransformer: a select among the types, the error and the context.
TakeTypes ==
  /\ reader = "transform"
  /\ \/ /\ types = "filled"
        /\ types' = "taken"
        /\ acceptors' = "typed"
        /\ reader' = "next" /\ UNCHANGED outcome
     \/ /\ types = "closed"
        /\ Finish("error")
        /\ UNCHANGED <<types, acceptors>>
  /\ UNCHANGED <<ctxDone, fetcher, fetched, rowChan, rowClosed, fetchErrChan, fetchErr, taken>>

TakeFetchErr ==
  /\ reader = "transform"
  /\ fetchErrChan # <<>>
  /\ fetchErrChan' = <<>>
  /\ IF Head(fetchErrChan) = "error"
     THEN Finish("error") /\ UNCHANGED acceptors
     ELSE acceptors' = "empty" /\ reader' = "next" /\ UNCHANGED outcome
  /\ UNCHANGED <<ctxDone, fetcher, fetched, types, rowChan, rowClosed, fetchErr, taken>>

TransformCanceled ==
  /\ reader = "transform"
  /\ ctxDone
  /\ Finish("error")
  /\ UNCHANGED <<ctxDone, fetchVars, acceptors, taken>>

\* Next and Scan: a row is stored into as many acceptors as it has columns.
ScanRow ==
  /\ reader = "next"
  /\ rowChan # <<>>
  /\ rowChan' = Tail(rowChan)
  /\ \/ /\ acceptors = "typed"
        /\ taken' = IF Head(rowChan) = taken + 1 THEN taken + 1 ELSE taken
        /\ UNCHANGED <<reader, outcome>>
     \/ /\ acceptors = "typed"
        /\ Finish("error") /\ UNCHANGED taken
     \/ /\ acceptors = "empty"
        /\ Finish("panic") /\ UNCHANGED taken
  /\ UNCHANGED <<ctxDone, fetcher, fetched, types, rowClosed, fetchErrChan, fetchErr, acceptors>>

\* A reader that takes the close for the end without draining the channel.
EndOfRows_NoDrain ==
  /\ reader = "next"
  /\ rowClosed
  /\ Finish("ok")
  /\ UNCHANGED <<ctxDone, fetchVars, acceptors, taken>>

\* rows.Err() is always nil.
EndOfRows ==
  /\ reader = "next"
  /\ rowClosed
  /\ rowChan = <<>>
  /\ Finish("ok")
  /\ UNCHANGED <<ctxDone, fetchVars, acceptors, taken>>

Fetcher == FetchRow \/ InitTypes \/ SendRow \/ SendCanceled \/ FetchEnds \/ CloseChannels
Reader == TakeTypes \/ TakeFetchErr \/ TransformCanceled \/ ScanRow \/ EndOfRows

Next == Cancel \/ Fetcher \/ Reader

Spec == Init /\ [][Next]_vars

\* The driver answers or fails; the streamer cancels its context when the
\* reading has ended, see ReadSplits.
RowsFairness ==
  /\ WF_vars(Fetcher)
  /\ WF_vars(Reader)
  /\ WF_vars(reader = "done" /\ Cancel)

FairSpec == Spec /\ RowsFairness

-----------------------------------------------------------------------------
(* Properties.                                                             *)

TypeOK ==
  /\ ctxDone \in BOOLEAN
  /\ fetcher \in {"fetch", "init", "send", "close", "gone"}
  /\ fetched \in 0 .. NRows
  /\ types \in {"empty", "filled", "taken", "closed"}
  /\ rowChan \in Seq(1 .. NRows) /\ Len(rowChan) <= (IF ChanCap = 0 THEN 1 ELSE ChanCap)
  /\ rowClosed \in BOOLEAN
  /\ fetchErrChan \in {<<>>, <<"nil">>, <<"error">>}
  /\ fetchErr \in BOOLEAN
  /\ reader \in {"transform", "next", "done"}
  /\ acceptors \in {"none", "typed", "empty"}
  /\ taken \in 0 .. NRows
  /\ outcome \in {"none", "ok", "error", "panic"}

\* A read that ends well, of a select that did not fail, has taken every row of
\* the result set in order (Next drains rowChan after it is closed, rows.go).
NothingSkipped == outcome = "ok" /\ ~fetchErr => taken = NRows

\* No goroutine is left behind: the fetcher leaves even if the reader stopped
\* in the middle of the rows (the select on params.Ctx, connection.go).
FetcherLeaves == <>(fetcher = "gone")

\* The reader ends, whatever the fetcher does.
ReaderEnds == <>(reader = "done")

\* Neither side waits for the other for ever.
BothEnd == FetcherLeaves /\ ReaderEnds

\* "nil error means that asynchronous reading was successfully finished before
\* the first line was received - the case of empty table" (rows.go:293).
EmptyMeansEmpty == acceptors = "empty" => fetched = 0
=============================================================================
