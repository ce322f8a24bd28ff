------------------------------ MODULE Process --------------------------------
(***************************************************************************)
(* The goroutines of the process that must not be left waiting for each    *)
(* other: those of the services, in Server, and the two of a MySQL read,   *)
(* in MySQLRows.  They share no state, so that a behaviour is the life of  *)
(* a server or of a read, while the other is over.                         *)
(***************************************************************************)
EXTENDS Server, MySQLRows

\* A server that has been stopped.
ServerOver ==
  /\ embedded = FALSE /\ server = [s \in {"connector"} |-> "stopped"]
  /\ starter = [s \in {"connector"} |-> "ended"]
  /\ errChan = {} /\ mutex = "free" /\ operational = TRUE
  /\ loop = "over" /\ stopper = "over" /\ toStop = {}
  /\ ownFailure = FALSE /\ fatal = FALSE

\* A read that has been canceled before its first row.
ReadOver ==
  /\ ctxDone = TRUE
  /\ fetcher = "gone" /\ fetched = 0 /\ types = "empty"
  /\ rowChan = <<>> /\ rowClosed = TRUE /\ fetchErrChan = <<>> /\ fetchErr = TRUE
  /\ reader = "done" /\ acceptors = "none" /\ taken = 0 /\ outcome = "error"

ProcessInit ==
  \/ ServerInit /\ ReadOver
  \/ ObservationOff /\ ServerOver /\ Init

ProcessNext ==
  \/ ServicesNext /\ UNCHANGED vars
  \/ Next /\ UNCHANGED lifeVars

ProcessSpec ==
  ProcessInit /\ [][ProcessNext]_<<lifeVars, vars>> /\ ServicesFairness /\ RowsFairness
=============================================================================
