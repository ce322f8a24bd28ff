------------------------------- MODULE Clients -------------------------------
(***************************************************************************)
(* The programs that call the connector: the benchmark of app/bench, on    *)
(* ClientStreaming of common/client_streaming.go, and the commands         *)
(* read_table and list_splits of app/client/connector, on ClientBuffering. *)
(*                                                                         *)
(* The connector is what Answers says: a listing with one split in every   *)
(* message, a number of pages for every split, an error message that ends  *)
(* a stream, and streams that break at any moment.  It may also end a      *)
(* stream too early and without an error, as the errors that ListSplits    *)
(* and Connections show to be lost make it do.                             *)
(***************************************************************************)
EXTENDS Naturals, Sequences

CONSTANTS
  Listings,       \* the pages of every split of the table, as sequences
  TestCases,      \* number of test cases of the benchmark
  CaseNames,      \* the names that a local benchmark may give its test cases
  MaxScenarios    \* bound: scenarios of a load session

ASSUME ClientsAssumption ==
  Listings \subseteq Seq(Nat) /\ TestCases \in Nat \ {0} /\ CaseNames \subseteq [1..TestCases -> STRING]

VARIABLES
  tool,           \* bench, read_table or list_splits
  remote,         \* bench: the server is remote, not embedded
  serverParams,   \* bench: the test cases have ServerParams, with the paging
  caseNames,      \* bench: the names of the local test cases
  load,           \* bench: the test cases have ClientParams, for a load session
  listing,        \* the table
  testCase,       \* bench: number of the test case
  canceled,       \* bench: a signal has cancelled the context
  cutShort,       \* history: the connector has ended a stream early, without an error
  stream,         \* the streams of ListSplits and ReadSplits, see Stream
  registered,     \* pages in the counters of the report generator, or pages to show
  scenarios,      \* scenarios of this test case that ended without an error
  generator,      \* the goroutine reportGenerator.progress: none, running, over
  files,          \* the reports that were saved
  toolOutcome,
  toolPc

inputs == <<tool, remote, serverParams, caseNames, load, listing>>
clientVars == <<inputs, testCase, canceled, cutShort, stream, registered, scenarios, generator, files,
                toolOutcome, toolPc>>

\* pc: none, recv, send (with the answer in hand) or closed; ended: an error message
\* has ended it.
Stream(length, pc) == [pc |-> pc, next |-> 1, length |-> length, ended |-> FALSE, hand |-> "none"]

\* The pages of the first splits, and of all.
PagesUpTo(splits) ==
  LET upTo[n \in Nat] == IF n = 0 THEN 0 ELSE upTo[n - 1] + splits[n]
  IN upTo
Pages(splits) == PagesUpTo(splits)[Len(splits)]

ClientsOff ==
  /\ tool = "list_splits" /\ remote = TRUE /\ serverParams = FALSE /\ load = FALSE
  /\ caseNames = <<>> /\ listing = <<>> /\ testCase = 1 /\ canceled = FALSE /\ cutShort = FALSE
  /\ stream = [s \in {"list", "read"} |-> Stream(0, "none")]
  /\ registered = 0 /\ scenarios = 0 /\ generator = "none" /\ files = {}
  /\ toolOutcome = "none" /\ toolPc = "off"

ClientsInit ==
  /\ tool \in {"bench", "read_table", "list_splits"}
  /\ remote \in BOOLEAN /\ serverParams \in BOOLEAN /\ load \in BOOLEAN
  /\ tool # "bench" => remote /\ ~serverParams /\ ~load
  /\ IF remote THEN caseNames = <<>> ELSE caseNames \in CaseNames
  /\ listing \in Listings
  /\ testCase = 1 /\ canceled = FALSE /\ cutShort = FALSE
  /\ stream = [s \in {"list", "read"} |-> Stream(0, "none")]
  /\ registered = 0 /\ scenarios = 0 /\ generator = "none" /\ files = {}
  /\ toolOutcome = "none" /\ toolPc = "start"

Ends(outcome) == toolOutcome' = outcome /\ toolPc' = "over"
Continues(pc) == toolPc' = pc /\ UNCHANGED toolOutcome
-----------------------------------------------------------------------------
(* The streams *)

\* What Recv may return.
Answers(st) ==
  {"broken"}
  \cup IF st.ended THEN {"eof"}
       ELSE {"error", "eof"} \cup IF st.next > st.length THEN {} ELSE {"item"}

\* The stream has an end though there is more, and no error has said so.
TooEarly(st, answer) == answer = "eof" /\ ~st.ended /\ st.next <= st.length

Advanced(st, answer) ==
  [st EXCEPT !.next = IF answer = "item" THEN @ + 1 ELSE @, !.ended = @ \/ answer = "error",
             !.hand = answer]

\* streamToChannel: Recv, and close(out) at the end of the stream.
ReceiveAnswer(s) ==
  /\ tool = "bench" /\ toolPc # "over" /\ stream[s].pc = "recv"
  /\ \E answer \in Answers(stream[s]) :
       /\ stream' = [stream EXCEPT ![s] =
                       IF answer = "eof" THEN [@ EXCEPT !.pc = "closed"]
                       ELSE [Advanced(@, answer) EXCEPT !.pc = "send"]]
       /\ cutShort' = (cutShort \/ TooEarly(stream[s], answer))
  /\ UNCHANGED <<inputs, testCase, canceled, registered, scenarios, generator, files,
                 toolOutcome, toolPc>>

\* The select of streamToChannel takes the context, though somebody may be receiving.
SendAnswerCanceled(s) ==
  /\ tool = "bench" /\ toolPc # "over" /\ canceled /\ stream[s].pc = "send"
  /\ stream' = [stream EXCEPT ![s].pc = "closed"]
  /\ UNCHANGED <<inputs, testCase, canceled, cutShort, registered, scenarios, generator, files,
                 toolOutcome, toolPc>>

\* After out <- answer.
Sent(st) == [st EXCEPT !.pc = IF st.hand = "broken" THEN "closed" ELSE "recv"]

\* dumpStream: the next answer of Recv; a broken stream is the end of the command.
DumpStream(s, next) ==
  /\ tool # "bench" /\ toolPc = s
  /\ \E answer \in Answers(stream[s]) :
       /\ CASE answer = "broken" -> Ends("failed") /\ UNCHANGED stream
            [] answer = "eof" -> Continues(next) /\ UNCHANGED stream
            [] OTHER -> stream' = [stream EXCEPT ![s] = Advanced(@, answer)]
                        /\ Continues(toolPc)
       /\ cutShort' = (cutShort \/ TooEarly(stream[s], answer))
  /\ UNCHANGED <<inputs, testCase, canceled, registered, scenarios, generator, files>>
-----------------------------------------------------------------------------
(* read_table and list_splits *)

\* MakePreset and the clients; list_splits does not describe the table.
StartClient ==
  /\ tool # "bench" /\ toolPc = "start"
  /\ \/ Ends("failed") /\ UNCHANGED stream
     \/ tool = "read_table" /\ Continues("describe") /\ UNCHANGED stream
     \/ /\ tool = "list_splits" /\ Continues("list")
        /\ stream' = [stream EXCEPT !["list"] = Stream(Len(listing), "recv")]
  /\ UNCHANGED <<inputs, testCase, canceled, cutShort, registered, scenarios, generator, files>>

\* listSplits: the first response with an error is returned, else the splits are shown.
ShowSplits ==
  /\ tool = "list_splits" /\ toolPc = "listed"
  /\ IF stream["list"].ended
     THEN Ends("failed") /\ UNCHANGED registered
     ELSE Ends("ok") /\ registered' = stream["list"].next - 1
  /\ UNCHANGED <<inputs, testCase, canceled, cutShort, stream, scenarios, generator, files>>

\* ListSplitsResponsesToSplits, which passes over the errors, and the call of
\* ReadSplits with all splits.
RequestSplits ==
  /\ tool = "read_table" /\ toolPc = "listed"
  /\ \/ Ends("failed") /\ UNCHANGED stream
     \/ /\ Continues("read")
        /\ stream' = [stream EXCEPT !["read"] =
                        Stream(PagesUpTo(listing)[stream["list"].next - 1], "recv")]
  /\ UNCHANGED <<inputs, testCase, canceled, cutShort, registered, scenarios, generator, files>>

\* ExtractErrorFromReadResponses, ReadResponsesToArrowRecords and dumpReadResponses.
ShowPages ==
  /\ tool = "read_table" /\ toolPc = "shown"
  /\ \/ Ends("failed") /\ UNCHANGED registered
     \/ /\ ~stream["read"].ended
        /\ registered' = stream["read"].next - 1 /\ Ends("ok")
  /\ UNCHANGED <<inputs, testCase, canceled, cutShort, stream, scenarios, generator, files>>
-----------------------------------------------------------------------------
(* The benchmark *)

\* newTestCaseRunner, name and the beginning of run.  An embedded server is made of the
\* paging of the ServerParams, and so is the name, without asking whether there are any.
StartTestCase ==
  /\ tool = "bench" /\ toolPc = "start"
  /\ CASE serverParams = remote -> Ends(IF remote THEN "failed" ELSE "panic") /\ UNCHANGED generator
       [] OTHER -> \/ Ends("failed") /\ UNCHANGED generator
                   \/ /\ Continues(IF load THEN "limiter" ELSE "describe")
                      /\ generator' = "running"
  /\ UNCHANGED <<inputs, testCase, canceled, cutShort, stream, registered, scenarios, files>>

\* The select of runBenchmarks: a signal cancels the context of the requests.
Interrupt ==
  /\ tool = "bench" /\ toolPc \notin {"off", "over"} /\ ~canceled
  /\ canceled' = TRUE
  /\ UNCHANGED <<inputs, testCase, cutShort, stream, registered, scenarios, generator, files,
                 toolOutcome, toolPc>>

\* limiter.Wait: the next scenario, the deadline, or another error, as when the wait
\* would be longer than the session.
WaitLimiter ==
  /\ toolPc = "limiter"
  /\ \/ scenarios < MaxScenarios /\ Continues("describe")
     \/ Continues("finish")
     \/ Ends("failed")
  /\ UNCHANGED <<inputs, testCase, canceled, cutShort, stream, registered, scenarios, generator, files>>

\* DescribeTable, of executeScenario and of read_table, and the call of ListSplits.  A
\* context that is done fails both.
CallDescribeTable ==
  /\ toolPc = "describe"
  /\ \/ Ends("failed") /\ UNCHANGED stream
     \/ ~canceled /\ Continues(IF tool = "bench" THEN "range" ELSE "list")
        /\ stream' = [stream EXCEPT !["list"] = Stream(Len(listing), "recv")]
  /\ UNCHANGED <<inputs, testCase, canceled, cutShort, registered, scenarios, generator, files>>

\* The loop of listAndReadSplits receives a split, and ReadSplits is called; or an error.
\* A context that is done fails the call.
TakeSplit ==
  /\ toolPc = "range" /\ stream["list"].pc = "send"
  /\ LET list == stream["list"]
     IN \/ /\ list.hand = "item" /\ ~canceled
           /\ stream' = [list |-> Sent(list), read |-> Stream(listing[list.next - 1], "recv")]
           /\ Continues("read")
        \/ stream' = [stream EXCEPT !["list"] = Sent(list)] /\ Ends("failed")
  /\ UNCHANGED <<inputs, testCase, canceled, cutShort, registered, scenarios, generator, files>>

\* The channel of splits is closed: executeScenario returns.
ListingEnds ==
  /\ toolPc = "range" /\ stream["list"].pc = "closed"
  /\ scenarios' = scenarios + 1
  /\ Continues(IF load THEN "limiter" ELSE "finish")
  /\ UNCHANGED <<inputs, testCase, canceled, cutShort, stream, registered, generator, files>>

registerResponse == registered' = registered + 1

\* The loop of readSplits: registerResponse, or an error.
TakePage ==
  /\ toolPc = "read" /\ stream["read"].pc = "send" /\ tool = "bench"
  /\ stream' = [stream EXCEPT !["read"] = Sent(@)]
  /\ IF stream["read"].hand = "item"
     THEN registerResponse /\ Continues("read")
     ELSE Ends("failed") /\ UNCHANGED registered
  /\ UNCHANGED <<inputs, testCase, canceled, cutShort, scenarios, generator, files>>

PagesEnd ==
  /\ toolPc = "read" /\ stream["read"].pc = "closed" /\ tool = "bench"
  /\ Continues("range")
  /\ UNCHANGED <<inputs, testCase, canceled, cutShort, stream, registered, scenarios, generator, files>>

\* wg.Wait of ClientStreaming.Close: the goroutines of the streams are over.
StreamsOver == \A s \in DOMAIN stream : stream[s].pc \in {"none", "closed"}

\* finish: the server is stopped, a remote one by closing the clients; then
\* close(exitChan).
StopTestCase ==
  /\ toolPc = "finish"
  /\ remote => StreamsOver
  /\ Continues("stop")
  /\ UNCHANGED <<inputs, testCase, canceled, cutShort, stream, registered, scenarios, generator, files>>

\* progress sees that exitChan is closed.
ProgressEnds ==
  /\ toolPc = "stop" /\ generator = "running"
  /\ generator' = "over"
  /\ UNCHANGED <<inputs, testCase, canceled, cutShort, stream, registered, scenarios, files,
                 toolOutcome, toolPc>>

\* The file of a remote test case has always the same name; that of a local one has its
\* page size, its queue and the number of its columns, which other test cases may share.
FileName(t) == IF remote THEN "remote" ELSE caseNames[t]

\* The final report, which is saved, and the next test case with counters of its own.
SaveReport ==
  /\ toolPc = "stop" /\ generator = "over"
  /\ \/ /\ files' = {f \in files : f.name # FileName(testCase)}
                    \cup {[name |-> FileName(testCase), testCase |-> testCase, pages |-> registered,
                           scenarios |-> scenarios]}
        /\ IF testCase < TestCases
           THEN testCase' = testCase + 1 /\ Continues("start")
           ELSE Ends("ok") /\ UNCHANGED testCase
     \/ Ends("failed") /\ UNCHANGED <<files, testCase>>
  /\ registered' = 0 /\ scenarios' = 0 /\ generator' = "none"
  /\ stream' = [s \in DOMAIN stream |-> Stream(0, "none")]
  /\ UNCHANGED <<inputs, canceled, cutShort>>

ClientsNext ==
  \/ \E s \in DOMAIN stream : ReceiveAnswer(s) \/ SendAnswerCanceled(s)
  \/ DumpStream("list", "listed") \/ DumpStream("read", "shown")
  \/ StartClient \/ ShowSplits \/ RequestSplits \/ ShowPages
  \/ StartTestCase \/ Interrupt \/ WaitLimiter \/ CallDescribeTable \/ TakeSplit \/ ListingEnds
  \/ TakePage \/ PagesEnd \/ StopTestCase \/ ProgressEnds \/ SaveReport

ClientsSpec == ClientsInit /\ [][ClientsNext]_clientVars
-----------------------------------------------------------------------------
(* Properties *)

\* The test cases up to n whose report is not overwritten by a later one.
Kept(n) == {t \in 1..n : \A u \in (t + 1)..n : FileName(u) # FileName(t)}

\* Every stream was received to its end.
Undisturbed == ~canceled /\ ~cutShort

\* A program that ends without an error has seen all there is: list_splits every split,
\* read_table every page, and the benchmark has, for every test case, a report with
\* every page of every scenario once.  Five exceptions: a stream that the connector ends
\* early and without an error is taken for whole; read_table does not look at the errors
\* of a listing; a cancelled stream may look like one that has ended, so that an
\* interrupted benchmark may save a report that is short; and of remote test cases, as of
\* local ones with the same page size, queue and number of columns, only the last has a
\* report.  But no report ever has a page too many.
ClientIsWhole ==
  /\ tool = "bench" => \A f \in files : f.pages <= f.scenarios * Pages(listing)
  /\ toolOutcome = "ok" =>
       CASE tool = "list_splits" -> registered = Len(listing) \/ cutShort
         [] tool = "read_table" -> registered = Pages(listing) \/ stream["list"].ended \/ cutShort
         [] OTHER ->
              /\ {f.testCase : f \in files} = Kept(TestCases)
              /\ Undisturbed => \A f \in files : f.pages = f.scenarios * Pages(listing)
=============================================================================
