------------------------- MODULE ReadRequestProofs --------------------------
(***************************************************************************)
(* What the client of a ReadSplits call is told, proved for any number of  *)
(* splits and connections, any limit and any failure of the storage; and   *)
(* what becomes of one connection, for any number of attempts, result sets *)
(* and rows.                                                               *)
(***************************************************************************)
EXTENDS ReadRequest, Connections, TLAPS
-----------------------------------------------------------------------------
(* One connection *)

ReadingRows == {"query", "next", "next set", "err"}

ConnectionType ==
  /\ phase \in {"describe", "read"}
  /\ results \in Seq(Nat) /\ resultSet \in 1 .. Len(results)
  /\ handles \in Nat /\ abandoned \in Nat
  /\ connPc \in {"make", "schema", "close", "over"} \cup ReadingRows
  /\ cm.sets \in {"one", "channel"} => Len(results) = 1
  /\ cm.sets = "none" => phase = "describe"
  /\ connPc \in ReadingRows => phase = "read"
  /\ connPc = "schema" => phase = "describe"

\* While a call holds its connection there is one more open than were abandoned.
Held ==
  /\ handles = IF connPc \in {"make", "over"} THEN abandoned ELSE abandoned + 1
  /\ rows = "open" => connPc \in {"next", "next set", "err", "close"}

ReadUpTo(n) == \A i \in 1 .. n : results[i] = 0

\* What has been read when the loop over the rows is at each of its places, as long as
\* no error of the rows is forgotten.
ReadSoFar ==
  \/ ErrorForgotten
  \/ /\ connPc = "next" => ~rowsErr /\ ReadUpTo(resultSet - 1)
     /\ connPc = "next set" => (rowsErr /\ broken) \/ (~rowsErr /\ ReadUpTo(resultSet))
     /\ connPc = "err" => rowsErr \/ ReadUpTo(Len(results))
     /\ outcome = "ok" /\ phase = "read" => ReadUpTo(Len(results))

\* The inductive invariant.
ConnectionInv ==
  /\ ConnectionType /\ Held /\ ReadSoFar
  /\ connPc = "query" => ~rowsErr /\ ~broken /\ resultSet = 1
  /\ connPc \in {"make", "schema"} => rows = "none" /\ ~rowsErr /\ ~broken /\ resultSet = 1
  /\ outcome = "ok" => connPc \in {"close", "over"}

\* A call starts with no connection, at the first row of a result that has one set at
\* least.
LEMMA ConnectionsInitInv == ConnectionsInit => ConnectionInv
<1> SUFFICES ASSUME ConnectionsInit PROVE ConnectionInv
  OBVIOUS
<1>1. results \in Seq(Nat) /\ results # <<>>
  BY ConnectionAssumption DEF ConnectionAssumption, ConnectionsInit
<1>2. Len(results) \in Nat /\ Len(results) >= 1
  BY <1>1
<1>3. ConnectionType
  BY <1>1, <1>2 DEF ConnectionsInit, ConnectionType, ReadingRows
<1>4. Held /\ ReadSoFar
  BY DEF ConnectionsInit, Held, ReadSoFar
<1> QED
  BY <1>3, <1>4 DEF ConnectionsInit, ConnectionInv

\* A step that reads no row and leaves the place in the result sets alone.
LEMMA NotReading ==
  ASSUME ConnectionInv,
         UNCHANGED <<call, results, resultSet, rowsErr, broken>>,
         connPc' \in {"make", "schema", "close", "over", "query"},
         connPc' \in ReadingRows => phase = "read",
         connPc' = "schema" => phase = "describe",
         outcome' = "ok" => outcome = "ok" \/ connPc = "schema",
         outcome' = "ok" => connPc' \in {"close", "over"},
         connPc' \in {"make", "query"} => connPc \in {"make", "query"},
         connPc' \in {"make", "schema"} => connPc = "make" /\ rows' = "none",
         Held', handles' \in Nat, abandoned' \in Nat
  PROVE  ConnectionInv'
<1>1. cm' = cm
  BY DEF cm, call
<1>2. ConnectionType'
  BY <1>1 DEF ConnectionInv, ConnectionType, ReadingRows, call
<1>3. ReadSoFar'
  BY <1>1 DEF ConnectionInv, ConnectionType, ReadSoFar, ErrorForgotten, ReadUpTo, ReadingRows, call
<1> QED
  BY <1>2, <1>3 DEF ConnectionInv, call

\* Every step of the call keeps the invariant.
LEMMA ConnectionStep == ConnectionInv /\ [ConnectionsNext]_connectionVars => ConnectionInv'
<1> SUFFICES ASSUME ConnectionInv, [ConnectionsNext]_connectionVars PROVE ConnectionInv'
  OBVIOUS
<1>t. ConnectionType /\ Held
  BY DEF ConnectionInv
<1>1. CASE MakeRefuses
  BY <1>1, <1>t, NotReading DEF MakeRefuses, ConnectionInv, ConnectionType, Held, ReadingRows
<1>2. CASE NoLogGroup
  BY <1>2, <1>t, NotReading DEF NoLogGroup, ConnectionInv, ConnectionType, Held, ReadingRows
<1>3. CASE Make
  <2>1. /\ connPc = "make" /\ rows = "none" /\ outcome # "ok" /\ handles = abandoned
        /\ UNCHANGED <<call, rows, results, resultSet, rowsErr, broken>>
    BY <1>3 DEF Make, ConnectionInv, Held
  <2>2. CASE /\ \E retriable \in BOOLEAN : Retried(retriable, "make")
             /\ handles' = handles /\ abandoned' = abandoned
    BY <1>t, <2>1, <2>2, NotReading DEF Retried, ConnectionType, Held, ReadingRows
  <2>3. CASE /\ \E retriable \in BOOLEAN : Retried(retriable, "make")
             /\ handles' = handles + 1 /\ abandoned' = abandoned + 1
    <3>1. \/ connPc' = "make" /\ outcome' = outcome
          \/ connPc' = "over" /\ outcome' = "error"
      BY <2>3 DEF Retried
    <3>2. handles' \in Nat /\ abandoned' \in Nat /\ Held'
      BY <1>t, <2>1, <2>3, <3>1 DEF ConnectionType, Held
    <3> QED
      BY <2>1, <3>1, <3>2, NotReading DEF ReadingRows
  <2>4. CASE /\ connPc' = IF phase = "describe" THEN "schema" ELSE "query"
             /\ handles' = handles + 1 /\ UNCHANGED <<outcome, abandoned>>
    BY <1>t, <2>1, <2>4, NotReading DEF ConnectionType, Held, ReadingRows
  <2> QED
    BY <1>3, <2>2, <2>3, <2>4 DEF Make
<1>4. CASE GetTableSchema
  BY <1>4, <1>t, NotReading DEF GetTableSchema, ConnectionInv, ConnectionType, Held, ReadingRows
<1>5. CASE Release
  BY <1>5, <1>t, NotReading DEF Release, ConnectionInv, ConnectionType, Held, ReadingRows
<1>6. CASE QueryFails
  BY <1>6, <1>t, NotReading DEF QueryFails, Retried, ConnectionInv, ConnectionType, Held, ReadingRows
<1>7. CASE QueryLosesRows
  BY <1>7, <1>t, NotReading DEF QueryLosesRows, ConnectionInv, ConnectionType, Held, ReadingRows
<1>8. CASE Query
  <2>1. cm' = cm
    BY <1>8 DEF Query, cm, call
  <2> QED
    BY <1>8, <1>t, <2>1 DEF Query, ConnectionInv, ConnectionType, Held, ReadSoFar, ErrorForgotten, ReadUpTo, ReadingRows, call
<1>9. CASE ReadFails
  BY <1>9, <1>t, NotReading DEF ReadFails, ConnectionInv, ConnectionType, Held, ReadingRows
<1>10. CASE NextRow
  <2>1. cm' = cm
    BY <1>10 DEF NextRow, cm, call
  <2>2. /\ connPc = "next" /\ outcome # "ok"
        /\ UNCHANGED <<call, attempts, handles, abandoned, rows, resultSet, outcome>>
    BY <1>10 DEF NextRow, ConnectionInv
  <2>3. CASE /\ results[resultSet] > 0
             /\ results' = [results EXCEPT ![resultSet] = @ - 1]
             /\ UNCHANGED <<rowsErr, broken, connPc>>
    <3>1. /\ results' \in Seq(Nat) /\ Len(results') = Len(results)
          /\ \A i \in 1 .. resultSet - 1 : results'[i] = results[i]
      BY <1>t, <2>3 DEF ConnectionType
    <3>2. ConnectionType' /\ Held'
      BY <1>t, <2>1, <2>2, <2>3, <3>1 DEF ConnectionType, Held, ReadingRows, call
    <3>3. ReadSoFar'
      BY <1>t, <2>1, <2>2, <2>3, <3>1 DEF ConnectionInv, ConnectionType, ReadSoFar, ErrorForgotten, ReadUpTo
    <3> QED
      BY <2>2, <2>3, <3>2, <3>3 DEF ConnectionInv
  <2>4. CASE /\ results[resultSet] = 0 /\ connPc' = "next set"
             /\ UNCHANGED <<results, rowsErr, broken>>
    <3>1. ASSUME ReadUpTo(resultSet - 1) PROVE ReadUpTo(resultSet)
      <4>1. \A i \in 1 .. resultSet : i = resultSet \/ i \in 1 .. resultSet - 1
        BY <1>t DEF ConnectionType
      <4> QED
        BY <2>4, <3>1, <4>1 DEF ReadUpTo
    <3> QED
      BY <1>t, <2>1, <2>2, <2>4, <3>1
      DEF ConnectionInv, ConnectionType, Held, ReadSoFar, ErrorForgotten, ReadUpTo, ReadingRows, call
  <2>5. CASE /\ rowsErr' = (cm.sets # "channel") /\ broken' = TRUE /\ connPc' = "next set"
             /\ UNCHANGED results
    BY <1>t, <2>1, <2>2, <2>5
    DEF ConnectionInv, ConnectionType, Held, ReadSoFar, ErrorForgotten, ReadUpTo, ReadingRows, call
  <2> QED
    BY <1>10, <2>3, <2>4, <2>5 DEF NextRow
<1>11. CASE NextResultSet
  <2>1. cm' = cm
    BY <1>11 DEF NextResultSet, cm, call
  <2>2. /\ connPc = "next set" /\ outcome # "ok" /\ phase = "read"
        /\ UNCHANGED <<call, attempts, handles, abandoned, rows, results, broken, outcome>>
    BY <1>11, <1>t DEF NextResultSet, ConnectionInv, ConnectionType, ReadingRows
  <2>a. /\ connPc' \in {"next", "err"}
        /\ resultSet' \in 1 .. Len(results)
    <3>1. resultSet' = resultSet \/ (resultSet' = resultSet + 1 /\ resultSet < Len(results))
      BY <1>11 DEF NextResultSet, More
    <3>2. Len(results) \in Nat /\ resultSet \in 1 .. Len(results)
      BY <1>t DEF ConnectionType
    <3>3. resultSet' \in 1 .. Len(results)
      BY <3>1, <3>2
    <3> QED
      BY <1>11, <3>3 DEF NextResultSet
  <2>3. ConnectionType' /\ Held'
    BY <1>t, <2>1, <2>2, <2>a DEF ConnectionType, Held, ReadingRows, call
  <2>4. ReadSoFar'
    <3>1. CASE ErrorForgotten
      BY <2>1, <2>2, <3>1 DEF ReadSoFar, ErrorForgotten
    <3>2. CASE ~ErrorForgotten
      <4>1. (rowsErr /\ broken) \/ (~rowsErr /\ ReadUpTo(resultSet))
        BY <2>2, <3>2 DEF ConnectionInv, ReadSoFar
      <4>2. connPc' = "err" => rowsErr' \/ ReadUpTo(Len(results))
        <5>1. ASSUME connPc' = "err", ~rowsErr' PROVE ~More /\ ~rowsErr
          <6>2. ASSUME cm.sets \in {"one", "channel"} PROVE ~More
            <7>1. Len(results) = 1
              BY <1>t, <6>2 DEF ConnectionType
            <7>2. resultSet \in 1 .. 1
              BY <1>t, <7>1 DEF ConnectionType
            <7> QED
              BY <7>1, <7>2 DEF More
          <6>3. ~More
            <7>1. \/ cm.sets \in {"one", "channel"}
                  \/ cm.sets = "sql" /\ (rowsErr \/ ~More) /\ rowsErr' = rowsErr
                  \/ cm.sets = "stream" /\ (broken \/ ~More)
                  \/ rowsErr' = TRUE
              BY <1>11, <5>1 DEF NextResultSet
            <7> QED
              BY <3>2, <5>1, <6>2, <7>1 DEF ErrorForgotten
          <6>4. ~rowsErr
            BY <1>11, <3>2, <4>1, <5>1, <6>3 DEF NextResultSet, ErrorForgotten
          <6> QED
            BY <6>3, <6>4
        <5>2. ASSUME ~More PROVE resultSet = Len(results)
          BY <1>t, <5>2 DEF More, ConnectionType
        <5> QED
          BY <4>1, <5>1, <5>2
      <4>3. connPc' = "next" => ~rowsErr' /\ ReadUpTo(resultSet' - 1)
        <5>1. connPc' = "next" => ~rowsErr /\ ~rowsErr' /\ resultSet' = resultSet + 1
          BY <1>11, <3>2, <4>1 DEF NextResultSet, ErrorForgotten
        <5>2. (resultSet + 1) - 1 = resultSet
          BY <1>t DEF ConnectionType
        <5> QED
          BY <4>1, <5>1, <5>2
      <4> QED
        BY <2>2, <2>a, <4>2, <4>3 DEF ReadSoFar, ErrorForgotten, ReadUpTo
    <3> QED
      BY <3>1, <3>2
  <2> QED
    BY <2>2, <2>a, <2>3, <2>4 DEF ConnectionInv
<1>12. CASE FinishRows
  <2>1. cm' = cm
    BY <1>12 DEF FinishRows, cm, call
  <2> QED
    BY <1>12, <1>t, <2>1
    DEF FinishRows, ConnectionInv, ConnectionType, Held, ReadSoFar, ErrorForgotten, ReadUpTo, ReadingRows, call
<1>13. CASE UNCHANGED connectionVars
  <2>1. cm' = cm
    BY <1>13 DEF connectionVars, cm
  <2> QED
    BY <1>13, <2>1, Zenon DEF connectionVars, ConnectionInv, ConnectionType, Held, ReadSoFar, ErrorForgotten, ReadUpTo, ReadingRows
<1> QED
  BY <1>1, <1>2, <1>3, <1>4, <1>5, <1>6, <1>7, <1>8, <1>9, <1>10, <1>11, <1>12, <1>13 DEF ConnectionsNext

\* The invariant holds of every behaviour of a call.
LEMMA ConnectionInvariant == ConnectionsSpec => []ConnectionInv
  BY ConnectionsInitInv, ConnectionStep, PTL DEF ConnectionsSpec

\* doReadSplitSingleConn reports success only after every row of every result set, for
\* every driver, any number of result sets and failures at any step, the rows that
\* forget the error of their stream (MySQL, the native rows of YDB) aside.
THEOREM WholeRead == ConnectionsSpec => []ReadIsWhole
<1>1. ConnectionInv => ReadIsWhole
  <2> SUFFICES ASSUME ConnectionInv, phase = "read", outcome = "ok", ~ErrorForgotten
               PROVE  \A i \in DOMAIN results : results[i] = 0
    BY DEF ReadIsWhole
  <2>1. ReadUpTo(Len(results))
    BY DEF ConnectionInv, ReadSoFar
  <2>2. DOMAIN results = 1 .. Len(results)
    BY DEF ConnectionInv, ConnectionType
  <2> QED
    BY <2>1, <2>2 DEF ReadUpTo
<1> QED
  BY <1>1, ConnectionInvariant, PTL

\* However many attempts fail, and wherever the call fails after them, the connection
\* that Make returned and the rows that Query returned are closed.
THEOREM Released == ConnectionsSpec => []ConnectionsReleased
<1>1. ConnectionInv => ConnectionsReleased
  BY DEF ConnectionInv, ConnectionType, Held, ConnectionsReleased
<1> QED
  BY <1>1, ConnectionInvariant, PTL
-----------------------------------------------------------------------------
(* A request *)

Zero == [c \in Conns |-> 0]
Complete(i) == canceled \/ got[i] = Splits[i].size

\* The part of the types that the argument needs.
ClientTypeOK ==
  /\ N \in Nat
  /\ idx \in Nat \ {0}
  /\ canceled \in BOOLEAN
  /\ sent \in [Conns -> Nat]
  /\ got \in [1 .. N -> [Conns -> Nat]]
  /\ msgs \in Seq([kind : {"data", "terminal", "error"}, split : Nat])

\* What the client has of every split, by the place of the handler.
Progress ==
  /\ pc = "validate" => idx = 1
  /\ pc \in {"create", "make", "stream", "record", "next"} => idx <= N
  /\ pc \in {"stream", "record"} => got[idx] = sent
  /\ pc \in {"stream", "record"} /\ status = "ok" => canceled \/ sent = Size
  /\ pc \in {"validate", "create", "make"} /\ idx <= N => got[idx] = Zero
  /\ pc = "next" => Complete(idx)
  /\ \A j \in 1 .. N : j > idx => got[j] = Zero
  /\ \A i \in 1 .. N : i < idx => Complete(i)

\* What the messages are.
Stream ==
  /\ pc # "done" => ~ErrorSent
  /\ ErrorIsLast
  /\ \A k \in DOMAIN msgs : msgs[k].split <= idx
  /\ \A k, l \in DOMAIN msgs : k < l => msgs[k].split <= msgs[l].split

\* The inductive invariant.
ClientInv == ClientTypeOK /\ Progress /\ Stream /\ SuccessIsComplete

-----------------------------------------------------------------------------
\* The splits and their sizes are numbers.
LEMMA SizeType == N \in Nat /\ \A i \in 1 .. N : Splits[i].size \in [Conns -> Nat]
<1> DEFINE T == [size : [Conns -> Nat], source : (SUBSET {"served", "unsupported"}) \ {{}}]
<1>1. Splits \in Seq(T)
  BY RequestAssumption DEF RequestAssumption
<1>2. N \in Nat /\ \A i \in 1 .. N : Splits[i] \in T
  <2> HIDE DEF T
  <2> QED
    BY <1>1 DEF N
<1> QED
  BY <1>2

\* Steps that change neither the client's view nor the place in the request.
LEMMA Idle ==
  ASSUME ClientInv,
         UNCHANGED <<idx, sent, got, msgs>>,
         pc' = pc, status' = status, canceled' \in BOOLEAN, canceled => canceled'
  PROVE  ClientInv'
  BY DEF ClientInv, ClientTypeOK, Progress, Stream, SuccessIsComplete, ErrorIsLast,
         ErrorSent, Complete, Zero, Size, N

\* Steps of the handler that send nothing and stay at their split.
LEMMA Move ==
  ASSUME ClientInv,
         UNCHANGED <<idx, sent, status, canceled, got, msgs>>,
         \/ pc = "validate" /\ pc' = "create" /\ N > 0
         \/ pc = "create" /\ pc' = "make"
         \/ pc = "stream" /\ pc' = "record"
         \/ pc = "record" /\ pc' = "next" /\ status = "ok"
         \/ pc # "done" /\ pc' = "reply"
  PROVE  ClientInv'
<1>1. ClientTypeOK' /\ SuccessIsComplete' /\ Stream'
  BY DEF ClientInv, ClientTypeOK, SuccessIsComplete, Stream, ErrorIsLast, ErrorSent, N
<1>2. Progress'
  BY DEF ClientInv, ClientTypeOK, Progress, Complete, Zero, Size, N
<1> QED
  BY <1>1, <1>2 DEF ClientInv

\* Steps that send nothing leave the messages as they are.
LEMMA Silent ==
  ASSUME Stream, msgs' = msgs, idx' \in Nat, idx \in Nat, idx <= idx',
         \A k \in DOMAIN msgs : msgs[k].split \in Nat,
         pc # "done"
  PROVE  Stream'
  BY DEF Stream, ErrorIsLast, ErrorSent

\* One more message, of the split that is read.
LEMMA AppendMessage ==
  ASSUME ClientTypeOK, Stream, pc # "done", idx' = idx,
         NEW kind \in {"data", "terminal", "error"},
         msgs' = Append(msgs, Message(kind)),
         kind = "error" => pc' = "done"
  PROVE  /\ Stream'
         /\ msgs' \in Seq([kind : {"data", "terminal", "error"}, split : Nat])
         /\ kind = "error" => ErrorSent'
<1> DEFINE M == [kind : {"data", "terminal", "error"}, split : Nat]
<1>1. Message(kind) \in M
  BY DEF Message, ClientTypeOK
<1>2. msgs \in Seq(M)
  BY DEF ClientTypeOK
<1>3. /\ msgs' \in Seq(M)
      /\ Len(msgs') = Len(msgs) + 1
      /\ msgs'[Len(msgs) + 1] = Message(kind)
      /\ \A k \in 1 .. Len(msgs) : msgs'[k] = msgs[k]
      /\ DOMAIN msgs = 1 .. Len(msgs)
      /\ DOMAIN msgs' = 1 .. (Len(msgs) + 1)
      /\ Len(msgs) \in Nat
  BY <1>1, <1>2
<1>4. Message(kind).kind = kind /\ Message(kind).split = idx
  BY DEF Message
<1>5. \A k \in 1 .. Len(msgs) : msgs[k].kind # "error" /\ msgs[k].split <= idx
  BY <1>3 DEF Stream, ErrorSent
<1>6. \A k \in DOMAIN msgs' : k \in 1 .. Len(msgs) \/ k = Len(msgs) + 1
  BY <1>3
<1>7. (pc # "done" => ~ErrorSent)' /\ ErrorIsLast'
  BY <1>3, <1>4, <1>5, <1>6 DEF ErrorIsLast, ErrorSent
<1>8. (\A k \in DOMAIN msgs : msgs[k].split <= idx)'
  BY <1>3, <1>4, <1>5, <1>6 DEF ClientTypeOK
<1>9. (\A k, l \in DOMAIN msgs : k < l => msgs[k].split <= msgs[l].split)'
  BY <1>3, <1>4, <1>5, <1>6 DEF Stream
<1>10. kind = "error" => ErrorSent'
  BY <1>3, <1>4 DEF ErrorSent
<1> QED
  BY <1>3, <1>7, <1>8, <1>9, <1>10 DEF Stream

\* Choosing the data source keeps the invariant.
LEMMA MakeSourceStep == ClientInv /\ MakeSource => ClientInv'
  BY DEF MakeSource, clientVars, storageVars, ClientInv, ClientTypeOK, Progress, Stream,
         SuccessIsComplete, ErrorIsLast, ErrorSent, Complete, Zero, Size, N

\* Going on to the next split keeps the invariant.
LEMMA NextSplitStep == ClientInv /\ NextSplit => ClientInv'
<1> SUFFICES ASSUME ClientInv, NextSplit PROVE ClientInv'
  OBVIOUS
<1> USE DEF NextSplit, readVars, clientVars, storageVars
<1>1. ClientTypeOK'
  BY DEF ClientInv, ClientTypeOK, N
<1>2. idx <= idx' /\ idx' \in Nat /\ idx \in Nat
  BY DEF ClientInv, ClientTypeOK
<1>3. \A k \in DOMAIN msgs : msgs[k].split \in Nat
  <2> DEFINE M == [kind : {"data", "terminal", "error"}, split : Nat]
  <2>1. msgs \in Seq(M)
    BY DEF ClientInv, ClientTypeOK
  <2>2. DOMAIN msgs = 1 .. Len(msgs)
    BY <2>1
  <2>3. \A k \in 1 .. Len(msgs) : msgs[k] \in M
    <3> HIDE DEF M
    <3> QED
      BY <2>1
  <2> QED
    BY <2>2, <2>3
<1>4. Stream'
  BY <1>2, <1>3, Silent DEF ClientInv
<1>5. Progress'
  <2>1. CASE idx < N
    <3>1. idx' = idx + 1 /\ pc' = "create" /\ idx' \in 1 .. N /\ UNCHANGED <<canceled, got>>
      BY <2>1 DEF ClientInv, ClientTypeOK
    <3>2. \A i \in 1 .. N : i < idx' => Complete(i)'
      BY <3>1 DEF ClientInv, ClientTypeOK, Progress, Complete, N
    <3>3. got'[idx'] = Zero /\ \A j \in 1 .. N : j > idx' => got'[j] = Zero
      BY <3>1 DEF ClientInv, ClientTypeOK, Progress
    <3> QED
      BY <3>1, <3>2, <3>3 DEF Progress, Zero, N
  <2>2. CASE ~(idx < N)
    BY <2>2 DEF ClientInv, ClientTypeOK, Progress, Complete, Zero, N
  <2> QED
    BY <2>1, <2>2
<1>6. SuccessIsComplete'
  <2>1. ASSUME pc' = "done", ~canceled, NEW i \in 1 .. N
        PROVE  got[i] = Splits[i].size
    <3>1. ~(idx < N) /\ pc = "next"
      BY <2>1
    <3>2. i < idx \/ i = idx
      BY <3>1 DEF ClientInv, ClientTypeOK
    <3> QED
      BY <2>1, <3>1, <3>2 DEF ClientInv, Progress, Complete
  <2> QED
    BY <2>1 DEF SuccessIsComplete, N
<1> QED
  BY <1>1, <1>4, <1>5, <1>6 DEF ClientInv

\* The end of the last split keeps the invariant.
LEMMA SucceedStep == ClientInv /\ Succeed => ClientInv'
  BY DEF Succeed, Read!Succeed, clientVars, storageVars, ClientInv, ClientTypeOK, Progress,
         Stream, SuccessIsComplete, ErrorIsLast, ErrorSent, Complete, Zero, Size, N

\* An error of a split keeps the invariant.
LEMMA FailStep == ClientInv /\ Fail => ClientInv'
  BY DEF Fail, Read!Fail, clientVars, storageVars, ClientInv, ClientTypeOK, Progress,
         Stream, SuccessIsComplete, ErrorIsLast, ErrorSent, Complete, Zero, Size, N

\* The error message keeps the invariant.
LEMMA ReplyStep == ClientInv /\ Reply => ClientInv'
<1> SUFFICES ASSUME ClientInv, Reply PROVE ClientInv'
  OBVIOUS
<1> USE DEF Reply, readVars, storageVars
<1>1. Progress'
  BY DEF ClientInv, ClientTypeOK, Progress, Complete, Zero, Size, N
<1>2. CASE msgs' = Append(msgs, Message("error"))
  <2>1. Stream' /\ ErrorSent' /\ msgs' \in Seq([kind : {"data", "terminal", "error"}, split : Nat])
    BY <1>2, AppendMessage DEF ClientInv
  <2> QED
    BY <1>1, <2>1 DEF ClientInv, ClientTypeOK, SuccessIsComplete, N
<1>3. CASE canceled /\ UNCHANGED msgs
  BY <1>1, <1>3 DEF ClientInv, ClientTypeOK, Stream, ErrorIsLast, ErrorSent, SuccessIsComplete, N
<1> QED
  BY <1>2, <1>3

\* A page delivered to the client keeps the invariant.
LEMMA DeliverStep == ClientInv /\ Deliver => ClientInv'
<1> SUFFICES ASSUME ClientInv, Deliver PROVE ClientInv'
  OBVIOUS
<1>0. PICK i \in 1 .. N : i = idx /\ Read(i)!Deliver
  BY DEF Deliver
<1>1. PICK c \in Conns, n \in Nat :
        sent' = [sent EXCEPT ![c] = n] /\ status = "running" /\ UNCHANGED <<status, canceled>>
  <2>1. PICK c \in Conns : \E n \in (sent[c] + 1) .. Splits[i].size[c] : sent' = [sent EXCEPT ![c] = n]
    BY <1>0, Zenon DEF Read!Deliver
  <2>2. PICK n \in (sent[c] + 1) .. Splits[i].size[c] : sent' = [sent EXCEPT ![c] = n]
    BY <2>1, Zenon
  <2>3. sent[c] \in Nat /\ Splits[i].size[c] \in Nat
    BY SizeType DEF ClientInv, ClientTypeOK
  <2>4. n \in Nat
    BY <2>3
  <2> QED
    BY <1>0, <2>2, <2>4, Zenon DEF Read!Deliver
<1>2. UNCHANGED <<pc, idx>> /\ pc = "stream" /\ got' = [got EXCEPT ![idx] = sent']
  BY DEF Deliver
<1>3. PICK kind \in {"data", "terminal"} : msgs' = Append(msgs, Message(kind))
  BY DEF Deliver
<1>4. Stream' /\ msgs' \in Seq([kind : {"data", "terminal", "error"}, split : Nat])
  BY <1>2, <1>3, AppendMessage DEF ClientInv
<1>5. ClientTypeOK'
  BY <1>1, <1>2, <1>4, Zenon DEF ClientInv, ClientTypeOK, N
<1>6. Progress'
  BY <1>1, <1>2 DEF ClientInv, ClientTypeOK, Progress, Complete, Zero, Size, N
<1> QED
  BY <1>2, <1>4, <1>5, <1>6 DEF ClientInv, SuccessIsComplete

\* Nothing is sent when the request arrives.
LEMMA InitStep == Init => ClientInv
<1> SUFFICES ASSUME Init PROVE ClientInv
  OBVIOUS
<1>1. ClientTypeOK
  <2>1. N \in Nat
    BY SizeType
  <2>2. sent \in [Conns -> Nat] /\ got \in [1 .. N -> [Conns -> Nat]]
    BY DEF Init
  <2>3. msgs \in Seq([kind : {"data", "terminal", "error"}, split : Nat])
    BY DEF Init
  <2>4. idx \in Nat \ {0}
    BY DEF Init
  <2>5. canceled \in BOOLEAN
    BY Zenon DEF Init
  <2> QED
    BY <2>1, <2>2, <2>3, <2>4, <2>5 DEF ClientTypeOK
<1>2. Progress
  BY DEF Init, Progress, Zero
<1>3. Stream
  BY DEF Init, Stream, ErrorIsLast, ErrorSent
<1> QED
  BY <1>1, <1>2, <1>3 DEF Init, ClientInv, SuccessIsComplete

\* Every step of the request keeps what the client has seen in order.
LEMMA NextStep == ClientInv /\ [Next]_vars => ClientInv'
<1> SUFFICES ASSUME ClientInv, [Next]_vars PROVE ClientInv'
  OBVIOUS
<1> USE DEF readVars, clientVars, storageVars
<1>0. canceled \in BOOLEAN
  BY DEF ClientInv, ClientTypeOK
<1>1. CASE Cancel
  BY <1>0, <1>1, Idle DEF Cancel
<1>2. CASE Validate \/ CreateIncoming \/ RunReturns
  BY <1>2, Move DEF Validate, CreateIncoming, RunReturns
<1>3. CASE RecordFailure \/ RecordSuccess
  BY <1>3, Move DEF RecordFailure, RecordSuccess
<1>4. CASE ConnectFails
  BY <1>0, <1>4, Idle DEF ConnectFails
<1>5. ASSUME NEW c \in Conns, Connection(c) PROVE ClientInv'
  BY <1>0, <1>5, Idle DEF Connection, CreateOutgoing, FinishOutgoing, CancelOutgoing, Blocks, Unblocks
<1>6. CASE Finished \/ UNCHANGED vars
  BY <1>0, <1>6, Idle DEF Finished, vars
<1> QED
  BY <1>1, <1>2, <1>3, <1>4, <1>5, <1>6, MakeSourceStep, NextSplitStep, ReplyStep, DeliverStep,
     SucceedStep, FailStep DEF Next, Handler

\* The client's view of a call is what the handler has done so far
\* (serviceConnector.ReadSplits, doReadSplits, doReadSplit).
THEOREM ClientInvariant == Spec => []ClientInv
  BY InitStep, NextStep, PTL DEF Spec

\* A response without an error, to a client that is still there, holds every
\* row of every split: errors are sent, never forgotten (ReadSplits).
THEOREM SuccessComplete == Spec => []SuccessIsComplete
<1>1. ClientInv => SuccessIsComplete
  BY DEF ClientInv
<1> QED
  BY <1>1, ClientInvariant, PTL

\* The error is the last message of the stream (ReadSplits returns after it).
THEOREM ErrorLast == Spec => []ErrorIsLast
<1>1. ClientInv => ErrorIsLast
  BY DEF ClientInv, Stream
<1> QED
  BY <1>1, ClientInvariant, PTL

\* The splits are sent one by one in the order of the request (doReadSplits).
THEOREM SplitsOneByOne == Spec => []OneByOne
<1>1. ClientInv => OneByOne
  <2> SUFFICES ASSUME ClientInv PROVE OneByOne
    OBVIOUS
  <2>1. ASSUME NEW i \in 1 .. N, NEW j \in 1 .. N, i < j, NEW c \in Conns, got[j][c] > 0
        PROVE  canceled \/ got[i] = Splits[i].size
    <3>1. got[j] # Zero
      BY <2>1 DEF Zero
    <3>2. i < idx
      BY <2>1, <3>1 DEF ClientInv, ClientTypeOK, Progress
    <3> QED
      BY <3>2 DEF ClientInv, Progress, Complete
  <2> QED
    BY <2>1 DEF OneByOne, ClientInv, Stream
<1> QED
  BY <1>1, ClientInvariant, PTL
-----------------------------------------------------------------------------
(* What the observation storage tells of the splits. *)

RecordTypeOK ==
  /\ pc \in {"validate", "create", "make", "stream", "record", "next", "reply", "done"}
  /\ incoming \in [1 .. N -> QueryStates]
  /\ outgoing \in [1 .. N -> [Conns -> QueryStates]]
  /\ outRows \in [1 .. N -> [Conns -> Nat]]
  /\ DOMAIN inRows = 1 .. N
  /\ conn \in [Conns -> {"idle", "off", "reading", "blocked", "done", "failed"}]

\* Nobody has told the storage of a split.
NotBegun(i) == incoming[i] = "none" /\ \A c \in Conns : outgoing[i][c] = "none"

\* Nothing of a split runs any more, or the storage has refused to hear of it.
Settled(i) ==
  \/ i \in refused
  \/ /\ incoming[i] = "running" => Splits[i].source # {"served"}
     /\ \A c \in Conns : outgoing[i][c] = "running" => incoming[i] = "running"

\* What the storage has of the split that is being read, by the place of the handler.
AtWork ==
  /\ pc \in {"validate", "create"} => NotBegun(idx)
  /\ pc \in {"make", "stream", "record"} => incoming[idx] = "running"
  /\ pc = "make" => \A c \in Conns : outgoing[idx][c] = "none"
  /\ pc = "stream" => \A c \in Conns : outgoing[idx][c] = "running" =>
                        conn[c] \in {"reading", "blocked"} \/ idx \in refused
  /\ pc = "record" => \A c \in Conns : outgoing[idx][c] = "running" => idx \in refused
  /\ pc \in {"next", "reply", "done"} => Settled(idx)

\* The rows of finished queries are all the rows there are.
RowsRecorded ==
  \A i \in 1 .. N :
    /\ \A c \in Conns : outgoing[i][c] = "finished" => outRows[i][c] = Splits[i].size[c]
    /\ incoming[i] = "finished" /\ ~canceled => inRows[i] = SumFunction(Splits[i].size)

\* The inductive invariant, next to ClientInv.
RecordInv ==
  /\ RecordTypeOK
  /\ idx \in 1 .. N => AtWork
  /\ \A i \in 1 .. N : i < idx => Settled(i)
  /\ \A i \in 1 .. N : i > idx => NotBegun(i)
  /\ RowsRecorded

\* Nothing is recorded when a call begins.
LEMMA RecordInit == Init => RecordInv
<1> SUFFICES ASSUME Init PROVE RecordInv
  OBVIOUS
<1>1. N \in Nat /\ idx = 1 /\ pc = "validate"
  BY SizeType DEF Init
<1>2. \A i \in 1 .. N : incoming[i] = "none" /\ \A c \in Conns : outgoing[i][c] = "none"
  BY DEF Init
<1>3. RecordTypeOK
  BY DEF Init, RecordTypeOK, QueryStates
<1>4. RowsRecorded
  BY <1>2 DEF RowsRecorded
<1>5. \A i \in 1 .. N : ~(i < idx) /\ NotBegun(i)
  BY <1>1, <1>2 DEF NotBegun
<1>6. idx \in 1 .. N => AtWork
  BY <1>1, <1>2, <1>5 DEF AtWork
<1> QED
  BY <1>3, <1>4, <1>5, <1>6 DEF RecordInv

\* Steps that tell the storage nothing and stay at their split.
LEMMA Unrecorded ==
  ASSUME RecordInv, UNCHANGED <<idx, storageVars>>,
         pc' \in {"validate", "create", "make", "stream", "record", "next", "reply", "done"},
         canceled => canceled',
         conn' \in [Conns -> {"idle", "off", "reading", "blocked", "done", "failed"}],
         idx \in 1 .. N => AtWork'
  PROVE  RecordInv'
<1>1. RecordTypeOK' /\ RowsRecorded'
  BY DEF RecordInv, RecordTypeOK, RowsRecorded, storageVars, N
<1>2. \A i \in 1 .. N : (Settled(i) => Settled(i)') /\ (NotBegun(i) => NotBegun(i)')
  BY DEF Settled, NotBegun, storageVars
<1> QED
  BY <1>1, <1>2 DEF RecordInv, N

\* Steps at the split that is being read leave what is stored of the others.
LEMMA Recorded ==
  ASSUME RecordInv, ClientTypeOK, idx' = idx, idx \in 1 .. N, RecordTypeOK',
         \A i \in 1 .. N : i # idx =>
           /\ incoming'[i] = incoming[i] /\ outgoing'[i] = outgoing[i]
           /\ outRows'[i] = outRows[i] /\ inRows'[i] = inRows[i],
         refused \subseteq refused', canceled => canceled',
         AtWork',
         \A c \in Conns : outgoing'[idx][c] = "finished" => outRows'[idx][c] = Size[c],
         incoming'[idx] = "finished" /\ ~canceled' => inRows'[idx] = SumFunction(Size)
  PROVE  RecordInv'
<1>1. \A i \in 1 .. N : i # idx => (Settled(i) => Settled(i)') /\ (NotBegun(i) => NotBegun(i)')
  BY DEF Settled, NotBegun
<1>2. RowsRecorded'
  BY DEF RecordInv, RowsRecorded, Size, N
<1> QED
  BY <1>1, <1>2 DEF RecordInv, ClientTypeOK, N

\* The handler moves on without a word to the storage.
LEMMA RecordMove ==
  ASSUME RecordInv, Cancel \/ Validate \/ MakeSource \/ RunReturns \/ Reply \/ Finished
  PROVE  RecordInv'
<1> USE DEF readVars, clientVars, storageVars, RunReturned
<1>1. UNCHANGED <<idx, storageVars>> /\ (canceled => canceled')
  BY DEF Cancel, Validate, MakeSource, RunReturns, Reply, Finished, vars
<1>2. conn \in [Conns -> {"idle", "off", "reading", "blocked", "done", "failed"}]
  BY DEF RecordInv, RecordTypeOK
<1>3. conn' = conn \/ conn' = [c \in Conns |-> "idle"]
  BY DEF Cancel, Validate, MakeSource, RunReturns, Reply, Finished, vars
<1>4. conn' \in [Conns -> {"idle", "off", "reading", "blocked", "done", "failed"}]
  BY <1>2, <1>3
<1>6. pc' \in {"validate", "create", "make", "stream", "record", "next", "reply", "done"}
  BY DEF RecordInv, RecordTypeOK, Cancel, Validate, MakeSource, RunReturns, Reply, Finished, vars
<1>5. ASSUME idx \in 1 .. N PROVE AtWork'
  <2>1. AtWork
    BY <1>5 DEF RecordInv
  <2>2. NotBegun(idx) => Settled(idx)
    BY DEF NotBegun, Settled
  <2>3. (NotBegun(idx) => NotBegun(idx)') /\ (Settled(idx) => Settled(idx)')
    BY <1>1 DEF NotBegun, Settled
  <2>4. CASE Cancel \/ Finished
    BY <2>1, <2>3, <2>4, <1>1 DEF Cancel, Finished, vars, AtWork
  <2>5. CASE Validate
    BY <2>1, <2>2, <2>3, <2>5, <1>1 DEF Validate, AtWork
  <2>6. CASE MakeSource
    <3>1. CASE pc' = "stream"
      BY <2>1, <2>6, <3>1, <1>1 DEF MakeSource, AtWork
    <3>2. CASE pc' = "reply"
      <4>1. Splits[idx].source # {"served"}
        BY <2>6, <3>2 DEF MakeSource
      <4> QED
        BY <2>1, <2>6, <3>2, <4>1, <1>1 DEF MakeSource, AtWork, Settled
    <3> QED
      BY <2>6, <3>1, <3>2 DEF MakeSource
  <2>7. CASE RunReturns
    <3>1. \A c \in Conns : outgoing[idx][c] = "running" => idx \in refused
      BY <2>1, <2>7 DEF RunReturns, AtWork
    <3> QED
      BY <2>1, <2>7, <3>1, <1>1 DEF RunReturns, AtWork
  <2>8. CASE Reply
    BY <2>1, <2>3, <2>8, <1>1 DEF Reply, AtWork
  <2> QED
    BY <2>4, <2>5, <2>6, <2>7, <2>8
<1> QED
  BY <1>1, <1>4, <1>5, <1>6, Unrecorded

\* So does the reading of a split.
LEMMA RecordRead ==
  ASSUME RecordInv, ConnectFails \/ Deliver \/ Succeed \/ Fail
  PROVE  RecordInv'
<1> USE DEF readVars, clientVars, storageVars
<1>1. UNCHANGED <<pc, idx, storageVars>> /\ pc = "stream"
  BY DEF ConnectFails, Deliver, Succeed, Fail
<1>2. canceled => canceled'
  BY DEF ConnectFails, Deliver, Succeed, Fail, Read!Deliver, Read!Succeed, Read!Fail
<1>3. conn' = conn \/ (conn' = [c \in Conns |-> "off"] /\ \A c \in Conns : conn[c] = "idle")
  BY DEF ConnectFails, Deliver, Succeed, Fail
<1>4. conn' \in [Conns -> {"idle", "off", "reading", "blocked", "done", "failed"}]
  BY <1>3 DEF RecordInv, RecordTypeOK
<1>5. ASSUME idx \in 1 .. N PROVE AtWork'
  <2>1. AtWork
    BY <1>5 DEF RecordInv
  <2> QED
    BY <1>1, <1>3, <2>1 DEF AtWork
<1> QED
  BY <1>1, <1>2, <1>4, <1>5, Unrecorded

\* Creating the record of the incoming query keeps the records real.
LEMMA RecordCreate == ClientInv /\ RecordInv /\ CreateIncoming => RecordInv'
<1> SUFFICES ASSUME ClientInv, RecordInv, CreateIncoming PROVE RecordInv'
  OBVIOUS
<1> USE DEF CreateIncoming, readVars, clientVars, storageVars
<1>1. idx \in 1 .. N /\ ClientTypeOK
  BY DEF ClientInv, ClientTypeOK, Progress
<1>2. NotBegun(idx) /\ RecordTypeOK /\ AtWork
  BY <1>1 DEF RecordInv, AtWork
<1>3. CASE pc' = "make"
  <2>1. incoming' = [incoming EXCEPT ![idx] = "running"] /\ incoming'[idx] = "running"
    BY <1>1, <1>2, <1>3 DEF RecordTypeOK
  <2>2. RecordTypeOK'
    BY <1>2, <2>1 DEF RecordTypeOK, QueryStates, N
  <2>3. AtWork'
    BY <1>2, <1>3, <2>1 DEF AtWork, NotBegun
  <2> QED
    BY <1>1, <1>2, <2>1, <2>2, <2>3, Recorded DEF RecordTypeOK, NotBegun
<1>4. CASE pc' = "reply"
  <2>1. AtWork'
    BY <1>2, <1>4 DEF AtWork, NotBegun, Settled
  <2> QED
    BY <1>2, <1>4, <2>1, Unrecorded DEF RecordTypeOK
<1> QED
  BY <1>3, <1>4

\* What an update of one entry of a table of tables leaves.
LEMMA NestedUpdate ==
  ASSUME NEW I, NEW C, NEW V, NEW f \in [I -> [C -> V]], NEW i \in I, NEW c \in C, NEW v \in V,
         NEW g, g = [f EXCEPT ![i][c] = v]
  PROVE  /\ g \in [I -> [C -> V]]
         /\ g[i][c] = v
         /\ \A j \in I : j # i => g[j] = f[j]
         /\ \A d \in C : d # c => g[i][d] = f[i][d]
<1>1. g = [f EXCEPT ![i] = [f[i] EXCEPT ![c] = v]]
  OBVIOUS
<1>2. [f[i] EXCEPT ![c] = v] \in [C -> V]
  OBVIOUS
<1> QED
  BY <1>1, <1>2

\* The connections tell the storage of their queries.
LEMMA RecordConnection ==
  ASSUME ClientInv, RecordInv, NEW d \in Conns, Connection(d)
  PROVE  RecordInv'
<1> USE DEF readVars, clientVars, storageVars
<1>1. pc = "stream" /\ UNCHANGED <<pc, idx, canceled, incoming, inRows>>
  BY DEF Connection, CreateOutgoing, FinishOutgoing, CancelOutgoing, Blocks, Unblocks
<1>2. idx \in 1 .. N /\ ClientTypeOK
  BY <1>1 DEF ClientInv, ClientTypeOK, Progress
<1>3. RecordTypeOK /\ AtWork
  BY <1>2 DEF RecordInv
<1>4. Size \in [Conns -> Nat] /\ Size' = Size
  BY <1>1, <1>2, SizeType DEF Size
<1>5. PICK s \in {"off", "reading", "blocked", "done", "failed"} : conn' = [conn EXCEPT ![d] = s]
  BY DEF Connection, CreateOutgoing, FinishOutgoing, CancelOutgoing, Blocks, Unblocks
<1>6. \/ UNCHANGED <<outgoing, outRows>>
      \/ \E q \in {"running", "canceled"} :
           outgoing' = [outgoing EXCEPT ![idx][d] = q] /\ UNCHANGED outRows
      \/ /\ outgoing' = [outgoing EXCEPT ![idx][d] = "finished"]
         /\ outRows' = [outRows EXCEPT ![idx][d] = Size[d]]
  BY DEF Connection, CreateOutgoing, FinishOutgoing, CancelOutgoing, Blocks, Unblocks
<1>7. /\ outgoing' \in [1 .. N -> [Conns -> QueryStates]]
      /\ \A i \in 1 .. N : i # idx => outgoing'[i] = outgoing[i]
      /\ \A c \in Conns : c # d => outgoing'[idx][c] = outgoing[idx][c]
      /\ \A q \in QueryStates :
           outgoing' = [outgoing EXCEPT ![idx][d] = q] => outgoing'[idx][d] = q
  <2>1. outgoing \in [1 .. N -> [Conns -> QueryStates]]
    BY <1>3 DEF RecordTypeOK
  <2>2. ASSUME NEW q \in QueryStates, outgoing' = [outgoing EXCEPT ![idx][d] = q]
        PROVE  /\ outgoing' \in [1 .. N -> [Conns -> QueryStates]]
               /\ \A i \in 1 .. N : i # idx => outgoing'[i] = outgoing[i]
               /\ \A c \in Conns : c # d => outgoing'[idx][c] = outgoing[idx][c]
               /\ outgoing'[idx][d] = q
    BY <1>2, <2>1, <2>2, NestedUpdate
  <2>3. {"running", "canceled", "finished"} \subseteq QueryStates
    BY DEF QueryStates
  <2> QED
    BY <1>6, <2>1, <2>2, <2>3
<1>8. /\ outRows' \in [1 .. N -> [Conns -> Nat]]
      /\ \A i \in 1 .. N : i # idx => outRows'[i] = outRows[i]
      /\ \A c \in Conns : c # d => outRows'[idx][c] = outRows[idx][c]
      /\ outRows' = outRows \/ outRows'[idx][d] = Size[d]
  <2>1. outRows \in [1 .. N -> [Conns -> Nat]] /\ Size[d] \in Nat
    BY <1>3, <1>4 DEF RecordTypeOK
  <2>2. CASE outRows' = [outRows EXCEPT ![idx][d] = Size[d]]
    BY <1>2, <2>1, <2>2, NestedUpdate
  <2> QED
    BY <1>6, <2>1, <2>2
<1>9. RecordTypeOK'
  <2>1. conn' \in [Conns -> {"idle", "off", "reading", "blocked", "done", "failed"}]
    BY <1>3, <1>5 DEF RecordTypeOK
  <2> QED
    BY <1>1, <1>3, <1>7, <1>8, <2>1 DEF RecordTypeOK, N
<1>10. refused \subseteq refused'
  BY DEF Connection, CreateOutgoing, FinishOutgoing, CancelOutgoing, Blocks, Unblocks, Refuse
<1>11. AtWork'
  <2>1. \A c \in Conns : c # d => outgoing'[idx][c] = outgoing[idx][c] /\ conn'[c] = conn[c]
    BY <1>3, <1>5, <1>7 DEF RecordTypeOK
  <2>2. outgoing'[idx][d] = "running" => conn'[d] \in {"reading", "blocked"} \/ idx \in refused'
    <3>1. CASE CreateOutgoing(d)
      BY <1>1, <1>3, <3>1 DEF CreateOutgoing, RecordTypeOK, AtWork
    <3>2. CASE FinishOutgoing(d) \/ CancelOutgoing(d)
      <4>1. idx \in refused' \/ outgoing' = [outgoing EXCEPT ![idx][d] = "finished"]
                             \/ outgoing' = [outgoing EXCEPT ![idx][d] = "canceled"]
        BY <3>2 DEF FinishOutgoing, CancelOutgoing, Refuse
      <4> QED
        BY <4>1, <1>7 DEF QueryStates
    <3>3. CASE Blocks(d) \/ Unblocks(d)
      BY <1>3, <3>3 DEF Blocks, Unblocks, RecordTypeOK
    <3> QED
      BY <3>1, <3>2, <3>3 DEF Connection
  <2> QED
    BY <1>1, <1>3, <1>10, <2>1, <2>2 DEF AtWork
<1>12. \A c \in Conns : outgoing'[idx][c] = "finished" => outRows'[idx][c] = Size[c]
  <2>1. \A c \in Conns : outgoing[idx][c] = "finished" => outRows[idx][c] = Size[c]
    BY <1>2 DEF RecordInv, RowsRecorded, Size
  <2>2. outgoing'[idx][d] = "finished" => outRows'[idx][d] = Size[d]
    <3>1. CASE outRows' = outRows
      <4>1. outgoing' = outgoing
              \/ outgoing'[idx][d] \in {"running", "canceled"} \/ outRows'[idx][d] = Size[d]
        BY <1>6, <1>7, <1>2, <1>8 DEF QueryStates
      <4> QED
        BY <2>1, <3>1, <4>1
    <3> QED
      BY <1>8, <3>1
  <2> QED
    BY <1>7, <1>8, <2>1, <2>2
<1> QED
  BY <1>1, <1>2, <1>3, <1>7, <1>8, <1>9, <1>10, <1>11, <1>12, Recorded DEF AtWork

\* The rows that FinalStats may count are all the rows once they are all sent.
LEMMA TakenAll ==
  ASSUME Size \in [Conns -> Nat], sent = Size, NEW taken \in Taken
  PROVE  taken = Size
<1>1. taken \in [Conns -> UNION {0 .. Size[c] : c \in Conns}]
  BY DEF Taken
<1>2. \A c \in Conns : Size[c] <= taken[c] /\ taken[c] <= Size[c]
  BY DEF Taken
<1>3. \A c \in Conns : taken[c] \in Nat
  <2> TAKE c \in Conns
  <2>1. PICK d \in Conns : taken[c] \in 0 .. Size[d]
    BY <1>1
  <2> QED
    BY <2>1
<1>4. \A c \in Conns : taken[c] = Size[c]
  BY <1>2, <1>3
<1> QED
  BY <1>1, <1>4

\* The end of a split is told to the storage, with its rows.
LEMMA RecordEnd == ClientInv /\ RecordInv /\ (RecordFailure \/ RecordSuccess) => RecordInv'
<1> SUFFICES ASSUME ClientInv, RecordInv, RecordFailure \/ RecordSuccess PROVE RecordInv'
  OBVIOUS
<1> USE DEF readVars, clientVars, storageVars
<1>1. pc = "record" /\ pc' \in {"next", "reply"} /\ UNCHANGED <<idx, canceled, conn, outgoing, outRows>>
  BY DEF RecordFailure, RecordSuccess
<1>2. idx \in 1 .. N /\ ClientTypeOK /\ (status = "ok" => canceled \/ sent = Size)
  BY <1>1 DEF ClientInv, ClientTypeOK, Progress
<1>3. RecordTypeOK /\ AtWork
  BY <1>2 DEF RecordInv
<1>4. incoming[idx] = "running" /\ \A c \in Conns : outgoing[idx][c] = "running" => idx \in refused
  BY <1>1, <1>3 DEF AtWork
<1>5. \A c \in Conns : outgoing[idx][c] = "finished" => outRows[idx][c] = Size[c]
  BY <1>2 DEF RecordInv, RowsRecorded, Size
<1>6. CASE Refuse /\ UNCHANGED <<incoming, inRows>>
  <2>1. refused' = refused \cup {idx}
    BY <1>6 DEF Refuse
  <2>2. RecordTypeOK' /\ AtWork'
    BY <1>1, <1>3, <1>6, <2>1 DEF RecordTypeOK, AtWork, Settled, N
  <2> QED
    BY <1>1, <1>2, <1>4, <1>5, <1>6, <2>1, <2>2, Recorded
<1>7. ASSUME NEW q \in {"finished", "canceled"}, incoming' = [incoming EXCEPT ![idx] = q],
             NEW taken \in Taken, inRows' = [inRows EXCEPT ![idx] = SumFunction(taken)],
             q = "finished" => status = "ok", UNCHANGED refused
      PROVE  RecordInv'
  <2>1. incoming'[idx] = q /\ inRows'[idx] = SumFunction(taken)
    BY <1>2, <1>3, <1>7 DEF RecordTypeOK
  <2>2. RecordTypeOK'
    BY <1>1, <1>3, <1>7 DEF RecordTypeOK, QueryStates, N
  <2>3. AtWork'
    BY <1>1, <1>4, <1>7, <2>1 DEF AtWork, Settled
  <2>4. incoming'[idx] = "finished" /\ ~canceled' => inRows'[idx] = SumFunction(Size)
    <3>1. Size \in [Conns -> Nat]
      BY <1>2, SizeType DEF Size
    <3>2. sent = Size => taken = Size
      BY <1>7, <3>1, TakenAll
    <3> QED
      BY <1>1, <1>2, <1>7, <2>1, <3>2
  <2>5. \A i \in 1 .. N : i # idx => incoming'[i] = incoming[i] /\ inRows'[i] = inRows[i]
    BY <1>3, <1>7 DEF RecordTypeOK
  <2> QED
    BY <1>1, <1>2, <1>5, <1>7, <2>2, <2>3, <2>4, <2>5, Recorded
<1> QED
  BY <1>6, <1>7 DEF RecordFailure, RecordSuccess

\* The split that is left is settled, and nothing is known of the next one.
LEMMA RecordNext == ClientInv /\ RecordInv /\ NextSplit => RecordInv'
<1> SUFFICES ASSUME ClientInv, RecordInv, NextSplit PROVE RecordInv'
  OBVIOUS
<1> USE DEF NextSplit, readVars, clientVars, storageVars
<1>1. idx \in 1 .. N /\ ClientTypeOK
  BY DEF ClientInv, ClientTypeOK, Progress
<1>2. Settled(idx)
  BY <1>1 DEF RecordInv, AtWork
<1>3. \A i \in 1 .. N : (Settled(i) => Settled(i)') /\ (NotBegun(i) => NotBegun(i)')
  BY DEF Settled, NotBegun
<1>4. RecordTypeOK' /\ RowsRecorded'
  BY DEF RecordInv, RecordTypeOK, RowsRecorded, N
<1>5. CASE idx < N
  <2>1. idx' = idx + 1 /\ pc' = "create" /\ idx' \in 1 .. N /\ N \in Nat
    BY <1>1, <1>5 DEF ClientTypeOK
  <2>2. \A i \in 1 .. N : (i < idx' => i < idx \/ i = idx) /\ (i > idx' => i > idx)
    BY <1>1, <2>1 DEF ClientTypeOK
  <2>3. NotBegun(idx')
    BY <1>1, <2>1 DEF RecordInv, ClientTypeOK
  <2>4. NotBegun(idx)'
    BY <2>1, <2>3 DEF NotBegun
  <2>5. AtWork'
    BY <2>1, <2>4 DEF AtWork
  <2> QED
    BY <1>2, <1>3, <1>4, <2>2, <2>5 DEF RecordInv, N
<1>6. CASE ~(idx < N)
  <2>1. idx' = idx /\ pc' = "done"
    BY <1>6
  <2>2. AtWork'
    BY <1>1, <1>2, <1>3, <2>1 DEF AtWork, Settled
  <2> QED
    BY <1>3, <1>4, <2>1, <2>2 DEF RecordInv, N
<1> QED
  BY <1>5, <1>6

\* Every step of the request keeps the records real.
LEMMA RecordStep == ClientInv /\ RecordInv /\ [Next]_vars => RecordInv'
<1> SUFFICES ASSUME ClientInv, RecordInv, [Next]_vars PROVE RecordInv'
  OBVIOUS
<1>1. CASE UNCHANGED vars
  <2>1. AtWork => AtWork'
    BY <1>1 DEF vars, AtWork, Settled, NotBegun
  <2> QED
    BY <1>1, <2>1, Unrecorded DEF vars, storageVars, RecordInv, RecordTypeOK
<1> QED
  BY <1>1, RecordMove, RecordRead, RecordCreate, RecordConnection, RecordEnd, RecordNext
     DEF Next, Handler

\* The invariant gives the property of the records.
LEMMA RecordConclusion == ClientInv /\ RecordInv => RecordsAreReal
<1> SUFFICES ASSUME ClientInv, RecordInv PROVE RecordsAreReal
  OBVIOUS
<1>1. ASSUME NEW i \in (1 .. N) \ refused
      PROVE  /\ incoming[i] = "running" /\ Splits[i].source = {"served"} => pc # "done" /\ i = idx
             /\ \A c \in Conns : outgoing[i][c] = "running" => incoming[i] = "running"
  <2>0. i < idx \/ i > idx \/ i = idx
    BY DEF ClientInv, ClientTypeOK
  <2>1. CASE i < idx
    BY <2>1 DEF RecordInv, Settled
  <2>2. CASE i > idx
    BY <2>2 DEF RecordInv, NotBegun
  <2>3. CASE i = idx
    <3>1. AtWork
      BY <2>3 DEF RecordInv
    <3>2. pc \in {"validate", "create", "make", "stream", "record", "next", "reply", "done"}
      BY DEF RecordInv, RecordTypeOK
    <3> QED
      BY <2>3, <3>1, <3>2 DEF AtWork, Settled, NotBegun
  <2> QED
    BY <2>0, <2>1, <2>2, <2>3
<1>2. ASSUME NEW i \in 1 .. N, incoming[i] = "finished", ~canceled,
             \A c \in Conns : outgoing[i][c] = "finished"
      PROVE  inRows[i] = SumFunction(outRows[i])
  <2>1. Splits[i].size \in [Conns -> Nat] /\ outRows[i] \in [Conns -> Nat]
    BY SizeType DEF RecordInv, RecordTypeOK
  <2>2. \A c \in Conns : outRows[i][c] = Splits[i].size[c]
    BY <1>2 DEF RecordInv, RowsRecorded
  <2>3. outRows[i] = Splits[i].size
    BY <2>1, <2>2
  <2> QED
    BY <1>2, <2>3 DEF RecordInv, RowsRecorded
<1> QED
  BY <1>1, <1>2 DEF RecordsAreReal, RunningIsReal, StatsAgree

\* What the storage tells is true of every split of a request, however its steps
\* and those of its connections interleave: nothing is stored as running that has
\* ended, unless the storage refused to hear of it or the source was never made, and
\* the rows of an incoming query are those of its outgoing ones (doReadSplit,
\* doReadSplitSingleConn).
THEOREM RecordsReal == Spec => []RecordsAreReal
<1>1. Spec => []RecordInv
  BY RecordInit, RecordStep, ClientInvariant, PTL DEF Spec
<1> QED
  BY <1>1, RecordConclusion, ClientInvariant, PTL
=============================================================================
