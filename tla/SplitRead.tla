----------------------------- MODULE SplitRead ------------------------------
(***************************************************************************)
(* What the reading of one split promises to its caller, doReadSplit, and  *)
(* to the client: the contract between streaming.ReadSplitsStreamer.Run    *)
(* and app/server/data_source_collection.go.                               *)
(*                                                                         *)
(* The rows of every connection arrive in order.  The read succeeds only   *)
(* when all of them arrived, unless the client has gone.  It always ends.  *)
(***************************************************************************)
EXTENDS Naturals

CONSTANTS
  Conns,     \* connections the split is read through
  Size       \* Size[c]: number of rows that connection c yields

VARIABLES
  sent,      \* sent[c]: rows of c that the client has
  status,    \* running, or how the read ended
  canceled   \* the client has gone

vars == <<sent, status, canceled>>

Init ==
  /\ sent = [c \in Conns |-> 0]
  /\ status = "running"
  /\ canceled = FALSE

Deliver ==
  /\ status = "running"
  /\ \E c \in Conns : \E n \in (sent[c] + 1) .. Size[c] :
       sent' = [sent EXCEPT ![c] = n]
  /\ UNCHANGED <<status, canceled>>

Succeed ==
  /\ status = "running"
  /\ canceled \/ sent = Size
  /\ status' = "ok"
  /\ UNCHANGED <<sent, canceled>>

\* Any error; an error of the transport ends the stream as well.
Fail ==
  /\ status = "running"
  /\ status' = "failed"
  /\ canceled' \in BOOLEAN
  /\ canceled => canceled'
  /\ UNCHANGED sent

Cancel ==
  /\ canceled' = TRUE
  /\ UNCHANGED <<sent, status>>

Next == Deliver \/ Succeed \/ Fail \/ Cancel

Spec == Init /\ [][Next]_vars

FairSpec == Spec /\ WF_vars(Succeed \/ Fail)
=============================================================================
