---------------------------- MODULE MCReadSplits ----------------------------
(***************************************************************************)
(* Instances of ReadSplits.  The rows of a connection are given by their   *)
(* sizes; Rows and Volume are computed from them.                          *)
(***************************************************************************)
EXTENDS ReadSplits, FiniteSetsExt

VolumeOf(sizes) ==
  [k \in 0 .. Len(sizes) |-> MapThenSumSet(LAMBDA i : sizes[i], 1 .. k)]

\* Two connections; pages end by rows and by bytes.
MCSizes == <<<<1, 1, 1, 3>>, <<2>>>>
MCConns == DOMAIN MCSizes
MCRows == [c \in MCConns |-> Len(MCSizes[c])]
MCVolume == [c \in MCConns |-> VolumeOf(MCSizes[c])]

\* Two connections, the second with a row that does not fit in a page.
MCSizesOversized == <<<<1, 2, 2, 3>>, <<1, 4>>>>
MCRowsOversized == [c \in MCConns |-> Len(MCSizesOversized[c])]
MCVolumeOversized == [c \in MCConns |-> VolumeOf(MCSizesOversized[c])]

\* One connection with more pages than the queue and the consumer hold.
MCOneConn == {1}
MCSizesLong == <<<<1, 1, 1>>>>
MCRowsLong == [c \in MCOneConn |-> Len(MCSizesLong[c])]
MCVolumeLong == [c \in MCOneConn |-> VolumeOf(MCSizesLong[c])]
=============================================================================
