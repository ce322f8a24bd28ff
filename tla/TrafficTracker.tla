--------------------------- MODULE TrafficTracker ---------------------------
(***************************************************************************)
(* The page accounting of a sink: app/server/paging/traffic_tracker.go and *)
(* the parent/child counters of app/server/utils/counter.go.               *)
(*                                                                         *)
(* A tracker is a record of four counters.  rowsCurr and bytesCurr are the *)
(* child counters, started again for every page; every Add on a child also *)
(* adds to its parent, rowsTotal or bytesTotal, which lives as long as the *)
(* sink.                                                                   *)
(***************************************************************************)
EXTENDS Naturals

CONSTANTS
  RowsPerPage,    \* TPagingConfig.rows_per_page, 0 when it is not limited
  BytesPerPage    \* TPagingConfig.bytes_per_page, 0 when it is not limited

\* validatePagingConfig refuses a configuration with neither limit.
ASSUME PagingAssumption ==
  /\ RowsPerPage \in Nat
  /\ BytesPerPage \in Nat
  /\ RowsPerPage # 0 \/ BytesPerPage # 0

Tracker == [rowsCurr : Nat, bytesCurr : Nat, rowsTotal : Nat, bytesTotal : Nat]

newTrafficTracker ==
  [rowsCurr |-> 0, bytesCurr |-> 0, rowsTotal |-> 0, bytesTotal |-> 0]

\* checkPageSizeLimit, the error: the row alone is larger than a page.
PageSizeExceeded(bytes) == BytesPerPage # 0 /\ bytes > BytesPerPage

\* checkPageSizeLimit, the flag: with one more row the page is over a limit.
WouldBeEnough(tt, bytes) ==
  \/ BytesPerPage # 0 /\ tt.bytesCurr + bytes > BytesPerPage
  \/ RowsPerPage # 0 /\ tt.rowsCurr + 1 > RowsPerPage

\* tryAddRow when the row fits: both children and both parents grow.
CountRow(tt, bytes) ==
  [rowsCurr   |-> tt.rowsCurr + 1,
   bytesCurr  |-> tt.bytesCurr + bytes,
   rowsTotal  |-> tt.rowsTotal + 1,
   bytesTotal |-> tt.bytesTotal + bytes]

\* A missing reset: the bytes of the flushed page stay in the child counter.
refreshCounters_KeepBytes(tt) == [tt EXCEPT !.rowsCurr = 0]

\* A reset that reaches the parents too.
refreshCounters_All(tt) == newTrafficTracker

refreshCounters(tt) == [tt EXCEPT !.rowsCurr = 0, !.bytesCurr = 0]

WithinPageLimits(rows, bytes) ==
  /\ RowsPerPage # 0 => rows <= RowsPerPage
  /\ BytesPerPage # 0 => bytes <= BytesPerPage
=============================================================================
