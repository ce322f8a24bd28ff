----------------------------- MODULE ListSplits -----------------------------
(***************************************************************************)
(* The ListSplits call: the handler of service_connector.go, which lists   *)
(* the selects of a request one after another; the streamer of             *)
(* streaming/list_splits_streamer.go; and the split providers, which run   *)
(* in goroutines of their own and hand the splits over a bounded channel.  *)
(*                                                                         *)
(* A select is read through one source (default and YDB providers) or      *)
(* through several at once (the logging provider, one YDB database per     *)
(* data center).  A source of the default provider yields one split and    *)
(* asks nobody; any other connects and queries the tablets of the table.   *)
(***************************************************************************)
EXTENDS Naturals, Sequences, Functions

CONSTANTS
  Sources,              \* sources a select may be read through
  Selects,              \* Selects[i]: [kind, shards], shards[s] the tablets of s
  ChanCap,              \* capacity of resultChan, 32 in the code
  MaxRetries,           \* attempts the YDB SDK repeats inside Query().Do
  SourceMayFail,        \* a source can refuse a connection or a query
  DescriptionMayFail    \* protojson can refuse the description of a split

ASSUME ListAssumption ==
  /\ ChanCap \in Nat \ {0}
  /\ MaxRetries \in Nat
  /\ Len(Selects) \in Nat \ {0}
  /\ \A i \in 1 .. Len(Selects) :
       /\ DOMAIN Selects[i].shards \subseteq Sources
       /\ \A s \in DOMAIN Selects[i].shards : Selects[i].shards[s] \in Seq(Nat)

VARIABLES
  handler,   \* running, done
  sel,       \* the select being listed
  streamer,  \* select: in the select loop; send: holds cur; ok, err: returned
  cur,       \* the split in the hands of the streamer
  counter,   \* splitCounter
  chan,      \* resultChan
  closed,    \* resultChan is closed
  errs,      \* errChan, of capacity 1
  prov,      \* the goroutine that runs DataSource.ListSplits
  pc,        \* pc[s]: what the goroutine of source s does
  ids,       \* ids[s]: tablets gathered and not yet handed over
  pos,       \* pos[s]: rows of the tablet query read in this attempt
  retries,   \* retries[s]: attempts of the query already repeated
  erred,     \* selects whose provider failed
  sent,      \* messages the client has
  canceled   \* the context of the stream is done

vars == <<handler, sel, streamer, cur, counter, chan, closed, errs, prov, pc, ids,
          pos, retries, erred, sent, canceled>>

provVars == <<prov, pc, ids, pos, retries, erred>>
streamVars == <<handler, sel, streamer, cur, counter, sent>>

NoSplit == [src |-> "none", tablet |-> 0]
Splits == [src : Sources, tablet : Nat]
SplitMessage(id, split) == [kind |-> "split", sel |-> sel, id |-> id, split |-> split]
ErrorMessage == [kind |-> "error", sel |-> sel, id |-> 0, split |-> NoSplit]

SourcesOf(i) == DOMAIN Selects[i].shards
Asks(i) == Selects[i].kind # "default"

\* A kind without a data source is refused before a streamer is made.
Supported(i) == Selects[i].kind # "unsupported"
FirstStep(i) == IF Supported(i) THEN "select" ELSE "err"
FirstProvider(i) == IF Supported(i) THEN "resolve" ELSE "gone"

Init ==
  /\ handler = "running" /\ sel = 1 /\ streamer = FirstStep(1) /\ cur = NoSplit
  /\ counter = 0 /\ chan = <<>> /\ closed = FALSE /\ errs = <<>>
  /\ prov = FirstProvider(1)
  /\ pc = [s \in Sources |-> "idle"]
  /\ ids = [s \in Sources |-> <<>>]
  /\ pos = [s \in Sources |-> 0]
  /\ retries = [s \in Sources |-> 0]
  /\ erred = {} /\ sent = <<>> /\ canceled = FALSE

Cancel ==
  /\ ~canceled
  /\ handler # "done"
  /\ canceled' = TRUE
  /\ UNCHANGED <<streamVars, provVars, chan, closed, errs>>

-----------------------------------------------------------------------------
(* The providers.                                                          *)

\* The logging provider turns the log group into YDB databases and starts a
\* goroutine for each; the other providers work in the calling goroutine.
Resolve ==
  /\ prov = "resolve"
  /\ prov' = "group"
  /\ pc' = [s \in Sources |-> IF s \notin SourcesOf(sel) THEN "end"
                              ELSE IF Asks(sel) THEN "connect" ELSE "emit"]
  /\ ids' = [s \in Sources |-> IF s \in SourcesOf(sel) /\ ~Asks(sel)
                               THEN Selects[sel].shards[s] ELSE <<>>]
  /\ pos' = [s \in Sources |-> 0]
  /\ retries' = [s \in Sources |-> 0]
  /\ UNCHANGED <<streamVars, chan, closed, errs, erred, canceled>>

ResolveFails ==
  /\ prov = "resolve"
  /\ Selects[sel].kind = "logging"
  /\ SourceMayFail \/ canceled
  /\ prov' = "report"
  /\ erred' = erred \cup {sel}
  /\ UNCHANGED <<streamVars, chan, closed, errs, pc, ids, pos, retries, canceled>>

Connect(s) ==
  /\ pc[s] = "connect"
  /\ pc' = [pc EXCEPT ![s] = "query"]
  /\ UNCHANGED <<streamVars, chan, closed, errs, prov, ids, pos, retries, erred, canceled>>

\* A connection, the description of the table or the query is refused; a
\* connection that was made is released on the way out.
SourceFails(s) ==
  /\ pc[s] \in {"connect", "query"}
  /\ SourceMayFail \/ canceled
  /\ pc' = [pc EXCEPT ![s] = "end"]
  /\ erred' = erred \cup {sel}
  /\ UNCHANGED <<streamVars, chan, closed, errs, prov, ids, pos, retries, canceled>>

\* GetColumnShardTabletIDs: one more row of the result.
NextTablet(s) ==
  LET rows == Selects[sel].shards[s] IN
  /\ pc[s] = "query"
  /\ pos[s] < Len(rows)
  /\ ids' = [ids EXCEPT ![s] = Append(@, rows[pos[s] + 1])]
  /\ pos' = [pos EXCEPT ![s] = @ + 1]
  /\ UNCHANGED <<streamVars, chan, closed, errs, prov, pc, retries, erred, canceled>>

\* The SDK runs the function of Query().Do once more after a retriable error.
\* tabletIDs lives outside of that function and keeps what it has.
RetryQuery(s) ==
  /\ pc[s] = "query"
  /\ retries[s] < MaxRetries
  /\ pos' = [pos EXCEPT ![s] = 0]
  /\ retries' = [retries EXCEPT ![s] = @ + 1]
  /\ UNCHANGED <<streamVars, chan, closed, errs, prov, pc, ids, erred, canceled>>

TabletsKnown(s) ==
  /\ pc[s] = "query"
  /\ pos[s] = Len(Selects[sel].shards[s])
  /\ pc' = [pc EXCEPT ![s] = "emit"]
  /\ UNCHANGED <<streamVars, chan, closed, errs, prov, ids, pos, retries, erred, canceled>>

HasRoom == Len(chan) < ChanCap

Emit(s) ==
  /\ pc[s] = "emit"
  /\ ids[s] # <<>>
  /\ HasRoom
  /\ chan' = Append(chan, [src |-> s, tablet |-> Head(ids[s])])
  /\ ids' = [ids EXCEPT ![s] = Tail(@)]
  /\ UNCHANGED <<streamVars, closed, errs, prov, pc, pos, retries, erred, canceled>>

SendGivesUp(s) ==
  /\ pc[s] = "emit"
  /\ ids[s] # <<>>
  /\ canceled
  /\ pc' = [pc EXCEPT ![s] = "end"]
  /\ erred' = erred \cup {sel}
  /\ UNCHANGED <<streamVars, chan, closed, errs, prov, ids, pos, retries, canceled>>

SourceDone(s) ==
  /\ pc[s] = "emit"
  /\ ids[s] = <<>>
  /\ pc' = [pc EXCEPT ![s] = "end"]
  /\ UNCHANGED <<streamVars, chan, closed, errs, prov, ids, pos, retries, erred, canceled>>

\* errGroup.Wait: the provider returns when all of its sources did.
GroupDone ==
  /\ prov = "group"
  /\ \A s \in Sources : pc[s] = "end"
  /\ prov' = "report"
  /\ UNCHANGED <<streamVars, chan, closed, errs, pc, ids, pos, retries, erred, canceled>>

Report ==
  /\ prov = "report"
  /\ errs' = Append(errs, IF sel \in erred THEN "error" ELSE "nil")
  /\ prov' = "close"
  /\ UNCHANGED <<streamVars, chan, closed, pc, ids, pos, retries, erred, canceled>>

CloseChan ==
  /\ prov = "close"
  /\ closed' = TRUE
  /\ prov' = "gone"
  /\ UNCHANGED <<streamVars, chan, errs, pc, ids, pos, retries, erred, canceled>>

-----------------------------------------------------------------------------
(* The streamer and the handler.                                           *)

Receive ==
  /\ streamer = "select"
  /\ chan # <<>>
  /\ cur' = Head(chan)
  /\ chan' = Tail(chan)
  /\ streamer' = "send"
  /\ UNCHANGED <<handler, sel, counter, closed, errs, provVars, sent, canceled>>

ChanExhausted ==
  /\ streamer = "select"
  /\ chan = <<>> /\ closed
  /\ streamer' = "ok"
  /\ UNCHANGED <<handler, sel, cur, counter, chan, closed, errs, provVars, sent, canceled>>

\* The result of the provider taken for the end of its splits.
ReceiveErr_NilEnds ==
  /\ streamer = "select"
  /\ errs # <<>>
  /\ errs' = <<>>
  /\ streamer' = IF Head(errs) = "error" THEN "err" ELSE "ok"
  /\ UNCHANGED <<handler, sel, cur, counter, chan, closed, provVars, sent, canceled>>

ReceiveErr ==
  /\ streamer = "select"
  /\ errs # <<>>
  /\ errs' = <<>>
  /\ streamer' = IF Head(errs) = "error" THEN "err" ELSE "select"
  /\ UNCHANGED <<handler, sel, cur, counter, chan, closed, provVars, sent, canceled>>

ContextDone ==
  /\ streamer = "select"
  /\ canceled
  /\ streamer' = "err"
  /\ UNCHANGED <<handler, sel, cur, counter, chan, closed, errs, provVars, sent, canceled>>

SendSplit ==
  /\ streamer = "send"
  /\ sent' = Append(sent, SplitMessage(counter, cur))
  /\ counter' = counter + 1
  /\ streamer' = "select" /\ cur' = NoSplit
  /\ UNCHANGED <<handler, sel, chan, closed, errs, provVars, canceled>>

\* The description is refused, or the transport is gone and the context with it.
SendFails ==
  /\ streamer = "send"
  /\ \/ DescriptionMayFail /\ Asks(sel) /\ canceled' = canceled
     \/ canceled' = TRUE
  /\ streamer' = "err"
  /\ UNCHANGED <<handler, sel, cur, counter, chan, closed, errs, provVars, sent>>

\* The deferred wg.Wait left out.
StreamerReturned_NoWait == streamer \in {"ok", "err"}

\* Run has returned: its deferred wg.Wait saw the goroutine of the provider end.
StreamerReturned == streamer \in {"ok", "err"} /\ prov = "gone"

NextSelect ==
  /\ handler = "running"
  /\ StreamerReturned
  /\ streamer = "ok"
  /\ sel < Len(Selects)
  /\ sel' = sel + 1
  /\ streamer' = FirstStep(sel + 1) /\ cur' = NoSplit /\ counter' = 0
  /\ chan' = <<>> /\ closed' = FALSE /\ errs' = <<>>
  /\ prov' = FirstProvider(sel + 1) /\ pc' = [s \in Sources |-> "idle"]
  /\ UNCHANGED <<handler, ids, pos, retries, erred, sent, canceled>>

AllListed ==
  /\ handler = "running"
  /\ StreamerReturned
  /\ streamer = "ok"
  /\ sel = Len(Selects)
  /\ handler' = "done"
  /\ UNCHANGED <<sel, streamer, cur, counter, sent, provVars, chan, closed, errs, canceled>>

\* A handler that answers an error and goes on with the next select.
ReplyError_Continue ==
  /\ handler = "running"
  /\ StreamerReturned
  /\ streamer = "err"
  /\ sent' = Append(sent, ErrorMessage)
  /\ streamer' = "ok"
  /\ UNCHANGED <<handler, sel, cur, counter, provVars, chan, closed, errs, canceled>>

\* A reply that cannot be sent starts the streamer again.
ReplyError_Retry ==
  /\ handler = "running"
  /\ StreamerReturned
  /\ streamer = "err"
  /\ \/ sent' = Append(sent, ErrorMessage) /\ handler' = "done" /\ streamer' = streamer
     \/ canceled /\ sent' = sent /\ handler' = handler /\ streamer' = "select"
  /\ UNCHANGED <<sel, cur, counter, provVars, chan, closed, errs, canceled>>

\* doListSplitsResponse: the last message, which a broken transport may lose.
ReplyError ==
  /\ handler = "running"
  /\ StreamerReturned
  /\ streamer = "err"
  /\ \/ sent' = Append(sent, ErrorMessage)
     \/ canceled /\ sent' = sent
  /\ handler' = "done"
  /\ UNCHANGED <<sel, streamer, cur, counter, provVars, chan, closed, errs, canceled>>

Finished == handler = "done" /\ UNCHANGED vars

Source(s) ==
  \/ Connect(s) \/ SourceFails(s) \/ NextTablet(s) \/ RetryQuery(s) \/ TabletsKnown(s)
  \/ Emit(s) \/ SendGivesUp(s) \/ SourceDone(s)

Provider == Resolve \/ ResolveFails \/ GroupDone \/ Report \/ CloseChan

Streamer ==
  \/ Receive \/ ChanExhausted \/ ReceiveErr \/ ContextDone \/ SendSplit \/ SendFails
  \/ NextSelect \/ AllListed \/ ReplyError

Next == Cancel \/ Provider \/ Streamer \/ Finished \/ \E s \in Sources : Source(s)

\* Every goroutine that can move does: nothing in the code waits for a lock,
\* and the calls to the sources carry the context or a timeout.
Fairness ==
  /\ WF_vars(Provider)
  /\ WF_vars(Streamer)
  /\ \A s \in Sources : WF_vars(Source(s))

Spec == Init /\ [][Next]_vars /\ Fairness

-----------------------------------------------------------------------------
(* Properties.                                                             *)

TypeOK ==
  /\ handler \in {"running", "done"}
  /\ sel \in 1 .. Len(Selects)
  /\ streamer \in {"select", "send", "ok", "err"}
  /\ cur \in Splits \cup {NoSplit}
  /\ counter \in Nat
  /\ chan \in Seq(Splits) /\ Len(chan) <= ChanCap
  /\ closed \in BOOLEAN /\ canceled \in BOOLEAN
  /\ errs \in {<<>>, <<"nil">>, <<"error">>}
  /\ prov \in {"resolve", "group", "report", "close", "gone"}
  /\ pc \in [Sources -> {"idle", "connect", "query", "emit", "end"}]
  /\ erred \subseteq 1 .. sel

SplitMessages(i) == SelectSeq(sent, LAMBDA m : m.kind = "split" /\ m.sel = i)
SplitsSent(i) == [k \in DOMAIN SplitMessages(i) |-> SplitMessages(i)[k].split]
ErrorSent == \E k \in DOMAIN sent : sent[k].kind = "error"

IsSplitOf(m, i, s) == m.kind = "split" /\ m.sel = i /\ m.split.src = s

\* The last splits the client has of source s are the tablets of the source, in
\* their order: at[k] is the message of the k-th.
SourceSent(i, s) ==
  \E at \in [DOMAIN Selects[i].shards[s] -> DOMAIN sent] :
    /\ \A k, l \in DOMAIN at : k < l => at[k] < at[l]
    /\ \A k \in DOMAIN at : /\ IsSplitOf(sent[at[k]], i, s)
                           /\ sent[at[k]].split.tablet = Selects[i].shards[s][k]
    /\ \A p \in DOMAIN sent :
         IsSplitOf(sent[p], i, s) /\ (\E k \in DOMAIN at : at[k] <= p) =>
           \E k \in DOMAIN at : at[k] = p

AllSent(i) == \A s \in SourcesOf(i) : SourceSent(i, s)

\* A call that ends without an error, for a client that is still there, has
\* sent every split of every select whose provider worked, in the order of its
\* source and after those of an attempt that was repeated; whatever the provider
\* reports while splits are still in the channel (Run, list_splits_streamer.go).
CompleteUnlessFailed ==
  handler = "done" /\ ~ErrorSent /\ ~canceled =>
    \A i \in 1 .. Len(Selects) : i \notin erred => AllSent(i)

\* Nothing follows an error: the handler does not go on with other selects.
ErrorIsLast ==
  \A k \in DOMAIN sent : sent[k].kind = "error" => k = Len(sent) /\ handler = "done"

\* When the handler returns no goroutine of the call is left and no connection
\* to a source is open, so that nobody sends to a channel nobody reads.
NoOrphans ==
  handler = "done" => prov = "gone" /\ \A s \in Sources : pc[s] \in {"idle", "end"}

\* A description was refused, which does not cancel the context, while the
\* provider waits for a place in the channel that nobody reads any more.
StuckOnRefusal == streamer = "err" /\ ~canceled /\ Len(chan) = ChanCap

\* The call ends, whether the client leaves, a source fails or the transport
\* breaks, and however many splits wait for a place in the channel; except for
\* a refused description with more splits to come than the channel holds.
Terminates == <>(handler = "done" \/ StuckOnRefusal)

\* "correct exit", "all splits responded": Run returns nil only when the
\* provider succeeded (list_splits_streamer.go:48).
ErrorReported ==
  handler = "done" /\ ~ErrorSent => canceled \/ erred = {}

\* "1 tablet id <-> 1 column shard <-> 1 split" (logging/split_provider.go:108).
OneSplitPerTablet ==
  \A i \in 1 .. sel : IsInjective(SplitsSent(i))
=============================================================================
