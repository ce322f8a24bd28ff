----------------------------- MODULE Observation -----------------------------
(***************************************************************************)
(* app/server/observation: the storage of queries in SQLite, whose pool    *)
(* has one connection, the handlers of requests that write it, and a       *)
(* browser that lists it page by page through the HTTP service.            *)
(*                                                                         *)
(* A statement takes the connection for one step; a transaction and open   *)
(* rows keep it.  Operations that SQLite itself refuses are in ReadRequest; *)
(* here an operation fails only because the storage is closed.             *)
(***************************************************************************)
EXTENDS Naturals, Sequences, FiniteSets

CONSTANTS
  Handlers,       \* concurrent requests
  Texts,          \* queries to data sources: database, text and arguments
  PageLimit,      \* the limit parameter of a page
  MaxQueries      \* bound: incoming queries

ASSUME ObservationAssumption ==
  PageLimit \in Nat \ {0} /\ MaxQueries \in Nat /\ "free" \notin Handlers /\ "browser" \notin Handlers

VARIABLES
  incoming,       \* table incoming_queries, by id
  outgoing,       \* table outgoing_queries, by id
  storageOpen,    \* the database is not closed
  connection,     \* who has the connection of the pool
  handler,        \* what every request is doing
  clock,          \* time.Now()
  leftRunning,    \* history: incoming queries whose request ended, but not in the storage
  browser         \* what the browser is doing, and what it has still to be shown

observationVars ==
  <<incoming, outgoing, storageOpen, connection, handler, clock, leftRunning, browser>>

Idle == [pc |-> "idle", created |-> 0, in |-> 0, out |-> 0]
NoListing == [table |-> "incoming", in |-> 0, state |-> "any", limit |-> PageLimit]
NoBrowser ==
  [pc |-> "idle", listing |-> NoListing, offset |-> 0, keys |-> {}, unseen |-> {}]
Leaves(pc, unseen) == [NoBrowser EXCEPT !.pc = pc, !.unseen = unseen]

ObservationOff ==
  /\ incoming = <<>> /\ outgoing = <<>> /\ storageOpen = TRUE /\ connection = "free"
  /\ handler = [h \in Handlers |-> Idle] /\ clock = MaxQueries + 1 /\ leftRunning = {}
  /\ browser = Leaves("done", {})

ObservationInit ==
  /\ incoming = <<>> /\ outgoing = <<>> /\ storageOpen = TRUE /\ connection = "free"
  /\ handler = [h \in Handlers |-> Idle] /\ clock = 1 /\ leftRunning = {}
  /\ browser = NoBrowser

Active(h) == handler[h].pc # "idle"

\* A statement of its own: it waits for the connection, and for the database only.
Free == storageOpen /\ connection = "free"

Goes(h, pc) == handler' = [handler EXCEPT ![h].pc = pc]
Returns(h) == handler' = [handler EXCEPT ![h] = Idle]
-----------------------------------------------------------------------------
(* The operations of a request, in the order in which ReadSplits makes them *)

\* The time of creation is taken before the connection is.
StartQuery(h) ==
  /\ handler[h].pc = "idle" /\ clock <= MaxQueries
  /\ handler' = [handler EXCEPT ![h] = [Idle EXCEPT !.pc = "create", !.created = clock]]
  /\ clock' = clock + 1
  /\ UNCHANGED <<incoming, outgoing, storageOpen, connection, leftRunning, browser>>

CreateIncomingQuery(h) ==
  /\ handler[h].pc = "create"
  /\ \/ /\ Free
        /\ incoming' = Append(incoming, [created |-> handler[h].created, state |-> "running"])
        /\ handler' = [handler EXCEPT ![h].pc = "begin", ![h].in = Len(incoming')]
     \/ ~storageOpen /\ Returns(h) /\ UNCHANGED incoming
  /\ UNCHANGED <<outgoing, storageOpen, connection, clock, leftRunning, browser>>

\* ReadSplit has no data source of this kind, or cannot make it, or doReadSplit has no
\* columnar buffer for the format: the request fails, and the storage is not told.
ReturnEarly(h) ==
  /\ handler[h].pc = "begin"
  /\ leftRunning' = leftRunning \cup {handler[h].in}
  /\ Returns(h)
  /\ UNCHANGED <<incoming, outgoing, storageOpen, connection, clock, browser>>

\* CreateOutgoingQuery: the transaction keeps the connection until it is over.
BeginTx(h) ==
  /\ handler[h].pc = "begin"
  /\ \/ Free /\ connection' = h /\ Goes(h, "insert")
     \/ ~storageOpen /\ Goes(h, "end in") /\ UNCHANGED connection
  /\ UNCHANGED <<incoming, outgoing, storageOpen, clock, leftRunning, browser>>

InsertOutgoing(h) ==
  /\ handler[h].pc = "insert"
  /\ IF handler[h].in \in DOMAIN incoming
     THEN Goes(h, "commit") /\ UNCHANGED connection
     ELSE Goes(h, "end in") /\ connection' = "free"
  /\ UNCHANGED <<incoming, outgoing, storageOpen, clock, leftRunning, browser>>

CommitTx(h) ==
  /\ handler[h].pc = "commit"
  /\ connection' = "free"
  /\ \/ \E t \in Texts :
          /\ outgoing' = Append(outgoing, [in |-> handler[h].in, text |-> t, rows |-> 0,
                                           state |-> "running"])
          /\ handler' = [handler EXCEPT ![h].pc = "end out", ![h].out = Len(outgoing')]
     \/ Goes(h, "end in") /\ UNCHANGED outgoing
  /\ UNCHANGED <<incoming, storageOpen, clock, leftRunning, browser>>

\* A failed read returns without CancelOutgoingQuery.
EndOutgoingQuery_Forget(h) ==
  /\ handler[h].pc = "end out"
  /\ \/ /\ Free
        /\ \E rows \in 1 .. 2 :
             outgoing' = [outgoing EXCEPT ![handler[h].out].state = "finished",
                                          ![handler[h].out].rows = rows]
     \/ UNCHANGED outgoing
  /\ Goes(h, "end in")
  /\ UNCHANGED <<incoming, storageOpen, connection, clock, leftRunning, browser>>

\* FinishOutgoingQuery or CancelOutgoingQuery; that it fails is only logged.
EndOutgoingQuery(h) ==
  /\ handler[h].pc = "end out"
  /\ \/ /\ Free
        /\ \/ \E rows \in 1 .. 2 :
                outgoing' = [outgoing EXCEPT ![handler[h].out].state = "finished",
                                             ![handler[h].out].rows = rows]
           \/ outgoing' = [outgoing EXCEPT ![handler[h].out].state = "canceled"]
        /\ UNCHANGED leftRunning
     \/ /\ ~storageOpen
        /\ leftRunning' = leftRunning \cup {handler[h].in}
        /\ UNCHANGED outgoing
  /\ Goes(h, "end in")
  /\ UNCHANGED <<incoming, storageOpen, connection, clock, browser>>

\* FinishIncomingQuery or CancelIncomingQuery.
EndIncomingQuery(h) ==
  /\ handler[h].pc = "end in"
  /\ \/ /\ Free
        /\ \E state \in {"finished", "canceled"} :
             incoming' = [incoming EXCEPT ![handler[h].in].state = state]
        /\ UNCHANGED leftRunning
     \/ /\ ~storageOpen
        /\ leftRunning' = leftRunning \cup {handler[h].in}
        /\ UNCHANGED incoming
  /\ Returns(h)
  /\ UNCHANGED <<outgoing, storageOpen, connection, clock, browser>>

HandlerStep(h) ==
  \/ CreateIncomingQuery(h) \/ ReturnEarly(h) \/ BeginTx(h) \/ InsertOutgoing(h) \/ CommitTx(h)
  \/ EndOutgoingQuery(h) \/ EndIncomingQuery(h)
-----------------------------------------------------------------------------
(* The browser: listings over HTTP *)

Browses(changes) == browser' = changes /\ UNCHANGED <<incoming, outgoing, storageOpen, handler,
                                                      clock, leftRunning>>

\* ORDER BY created_at DESC.  An outgoing query takes its time inside its transaction,
\* so that its place is that of its id.
Newer(table, i, j) ==
  IF table = "outgoing" THEN i > j
  ELSE \/ incoming[i].created > incoming[j].created
       \/ incoming[i].created = incoming[j].created /\ i > j

\* WHERE: the state and, of outgoing queries, the incoming query, each if it is given.
Matches(listing) ==
  IF listing.table = "incoming"
  THEN {i \in DOMAIN incoming : listing.state \in {"any", incoming[i].state}}
  ELSE {i \in DOMAIN outgoing : /\ listing.state \in {"any", outgoing[i].state}
                               /\ listing.in \in {0, outgoing[i].in}}

\* LIMIT and OFFSET.
Page(listing, offset) ==
  {i \in Matches(listing) :
     LET rank == Cardinality({j \in Matches(listing) : Newer(listing.table, j, i)})
     IN offset <= rank /\ rank < offset + listing.limit}

\* The listings of running queries have one large page.
RunningLimit == 1000

\* The routes /incoming/list and /incoming/running, /outgoing/list and /outgoing/running.
IncomingListings ==
  [table : {"incoming"}, in : {0}, state : {"any", "finished"}, limit : {PageLimit}]
    \cup [table : {"incoming"}, in : {0}, state : {"running"}, limit : {RunningLimit}]

OutgoingListings ==
  [table : {"outgoing"}, in : 0 .. MaxQueries, state : {"any", "finished"}, limit : {PageLimit}]
    \cup [table : {"outgoing"}, in : {0}, state : {"running"}, limit : {RunningLimit}]

\* The parameters of a listing, or an answer 400, 404 or 405.
OpenListing ==
  /\ browser.pc = "idle"
  /\ \/ \E listing \in IncomingListings \cup OutgoingListings :
          Browses([browser EXCEPT !.pc = "page", !.listing = listing,
                                  !.unseen = Matches(listing)])
     \/ Browses([browser EXCEPT !.pc = "similar"])
     \/ Browses(Leaves("done", {}))
  /\ UNCHANGED connection

\* ListIncomingQueries, ListOutgoingQueries: rows keep the connection until they are
\* closed.
ListPage ==
  /\ browser.pc = "page"
  /\ \/ /\ Free /\ connection' = "browser"
        /\ Browses([browser EXCEPT !.pc = "close page",
                                   !.keys = Page(browser.listing, browser.offset)])
     \/ /\ ~storageOpen /\ UNCHANGED connection
        /\ Browses(Leaves("failed", {}))

HasNext_More(page, limit) == Cardinality(page) > limit

HasNext(page, limit) == Cardinality(page) >= limit

\* The page, and the link to the next one, if it has one.
RenderPage ==
  /\ browser.pc = "close page"
  /\ connection' = "free"
  /\ LET unseen == browser.unseen \ browser.keys
         limit == browser.listing.limit
     IN Browses(IF HasNext(browser.keys, limit)
                THEN [browser EXCEPT !.pc = "page", !.offset = @ + limit, !.keys = {},
                                     !.unseen = unseen]
                ELSE [Leaves("done", unseen) EXCEPT !.listing.state = browser.listing.state])

Finished(text) == {i \in DOMAIN outgoing : outgoing[i].text = text /\ outgoing[i].state = "finished"}
Differ(ids) == \E i, j \in ids : outgoing[i].rows # outgoing[j].rows

\* The first statement of ListSimilarOutgoingQueriesWithDifferentStats: keys of
\* groups, read to the end, which gives the connection back before it is closed.
FindSimilar ==
  /\ browser.pc = "similar"
  /\ \/ /\ Free /\ connection' = "browser"
        /\ Browses([browser EXCEPT !.pc = "keys",
                                   !.keys = {t \in Texts : Differ(Finished(t))}])
     \/ /\ ~storageOpen /\ UNCHANGED connection
        /\ Browses(Leaves("failed", {}))

\* The groups are fetched while the rows of the keys are still open.
ReadKeys_Nested ==
  /\ browser.pc = "keys"
  /\ UNCHANGED connection
  /\ Browses([browser EXCEPT !.pc = "groups"])

ReadKeys ==
  /\ browser.pc = "keys"
  /\ connection' = "free"
  /\ Browses([browser EXCEPT !.pc = "groups"])

\* The second statement, once for every key: the rows are read and closed.
FetchGroup ==
  /\ browser.pc = "groups"
  /\ \/ \E t \in browser.keys :
          /\ Free
          /\ Browses([browser EXCEPT !.keys = @ \ {t},
                                     !.unseen = IF Differ(Finished(t)) THEN @ ELSE @ \cup {t}])
     \/ browser.keys = {} /\ Browses(Leaves("done", browser.unseen))
     \/ browser.keys # {} /\ ~storageOpen /\ Browses(Leaves("failed", {}))
  /\ UNCHANGED connection

BrowserStep == OpenListing \/ ListPage \/ RenderPage \/ FindSimilar \/ ReadKeys \/ FetchGroup
-----------------------------------------------------------------------------
(* The storage *)

\* Close; a connection in use is closed when it is given back.
CloseStorage ==
  /\ storageOpen' = FALSE
  /\ UNCHANGED <<incoming, outgoing, connection, handler, clock, leftRunning, browser>>

\* The process dies and starts again on the same file.  A transaction that was not
\* committed is gone, and nothing looks at the queries that were running.
Restart ==
  /\ \E h \in Handlers : Active(h)
  /\ storageOpen' = TRUE /\ connection' = "free"
  /\ leftRunning' = leftRunning \cup {handler[h].in : h \in {x \in Handlers : Active(x)}}
  /\ handler' = [h \in Handlers |-> Idle]
  /\ browser' = NoBrowser
  /\ UNCHANGED <<incoming, outgoing, clock>>

ObservationNext ==
  \/ \E h \in Handlers : StartQuery(h) \/ HandlerStep(h)
  \/ BrowserStep
  \/ clock > 1 /\ storageOpen /\ CloseStorage
  \/ Restart

ObservationSpec == ObservationInit /\ [][ObservationNext]_observationVars
-----------------------------------------------------------------------------
(* Properties *)

\* Following the links of the listing from its first page to its last shows every
\* query that was there at the beginning, whatever is created or ended meanwhile:
\* new queries only push the others to later pages.  A listing of the running
\* queries is excepted, since they leave it.  And the groups of similar queries that
\* the first statement found are still groups for the statements after it.
ListingSkipsNothing ==
  browser.pc = "done" /\ browser.listing.state # "running" => browser.unseen = {}

\* A query that is recorded as running has a request that is at work on it.  Three ways
\* to leave it running are excepted: its request ended after the storage was closed, or
\* with its process, or before there was anything to read (ReturnEarly).  A query to a
\* data source is running only while its request is reading, with the first two
\* exceptions.
RunningHasHandler ==
  /\ \A i \in DOMAIN incoming : incoming[i].state = "running" =>
       i \in leftRunning \/ \E h \in Handlers : Active(h) /\ handler[h].in = i
  /\ \A i \in DOMAIN outgoing : outgoing[i].state = "running" =>
       outgoing[i].in \in leftRunning
       \/ \E h \in Handlers : handler[h].pc = "end out" /\ handler[h].out = i

\* Whoever has the one connection of the storage is at a step that needs nothing else
\* and gives it back: neither the transaction of CreateOutgoingQuery nor the two
\* statements of a listing of similar queries wait for it while having it.
ConnectionComesBack ==
  /\ connection = "browser" => browser.pc \in {"close page", "keys"}
  /\ \A h \in Handlers : connection = h => handler[h].pc \in {"insert", "commit"}
=============================================================================
