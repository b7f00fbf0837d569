------------------------------- MODULE MCRpc -------------------------------
(***************************************************************************)
(* A node that commits up to three blocks of up to two of three            *)
(* transactions, over two addresses, and one client at a time: a           *)
(* subscription, a query, a client that pages with pages of two entries,   *)
(* or the indexer.  Clients share nothing but the node.                    *)
(***************************************************************************)
EXTENDS Indexer

CONSTANTS x, y, z, a, b, alice

VARIABLE client

mcVars == <<client, vars, indexerVars>>

MCLists == [s \in Sigs |-> IF s = x THEN {a, b} ELSE {a}]
MCRank == (a :> 1) @@ (b :> 2)
MCBodies == {<<>>, <<x, y>>, <<x>>, <<z>>}
MCHolder == [k \in Addrs |-> alice]

MCInit ==
  /\ Init /\ IndexerInit
  /\ client \in {"subscriber", "query", "pager", "indexer"}

MCNext ==
  /\ UNCHANGED client
  /\ \/ NodeNext /\ UNCHANGED indexerVars
     \/ client = "subscriber" /\ (\E c \in Subscribers : SubscriberNext(c)) /\ UNCHANGED indexerVars
     \/ client = "query" /\ QueryNext /\ UNCHANGED indexerVars
     \/ client = "pager" /\ PagingNext /\ UNCHANGED indexerVars
     \/ client = "indexer" /\ IndexerNext /\ UNCHANGED vars

MCSpec == MCInit /\ [][MCNext]_mcVars

MCFairSpec ==
  /\ MCSpec /\ NodeFairness /\ SubscriberFairness
  /\ WF_indexerVars(client = "indexer" /\ IndexerProgress)

\* IndexerCatchesUp of the behaviours with the indexer (main, tick).
BlocksEventuallyIndexed == client = "indexer" => IndexerCatchesUp

=============================================================================
