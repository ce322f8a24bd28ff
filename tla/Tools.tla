-------------------------------- MODULE Tools --------------------------------
(***************************************************************************)
(* The programs on the command line: the clients of the connector and the  *)
(* commands that count the rows of column shards.  One of them is run.     *)
(***************************************************************************)
EXTENDS Clients, ShardTools

toolVars == <<clientVars, shardVars>>

ToolsInit == (ClientsInit /\ ShardToolsOff) \/ (ClientsOff /\ ShardToolsInit)

ToolsNext ==
  \/ ClientsNext /\ UNCHANGED shardVars
  \/ ShardToolsNext /\ UNCHANGED clientVars

ToolsSpec == ToolsInit /\ [][ToolsNext]_toolVars

\* What the command-line tools report without an error is the whole of what they were
\* asked for, through every retry: see ClientIsWhole and ShardsAreCounted.
ToolsAreExact == ClientIsWhole /\ ShardsAreCounted
=============================================================================
