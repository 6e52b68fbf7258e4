-------------------------------- MODULE UpgradePath --------------------------------
(***************************************************************************)
(* pkg/release/core-cincinnati.go, GetUpdates: the shortest upgrade path   *)
(* between two versions of a channel, and pkg/release/cincinnati.go,       *)
(* gatherUpdates: the releases that are downloaded for it.                 *)
(*                                                                         *)
(* A node of the upgrade graph is the rank of its version, so comparing    *)
(* nodes compares versions.  An edge listed twice finds its destination    *)
(* visited, so the edges are a set.                                        *)
(***************************************************************************)
EXTENDS Integers, Sequences, FiniteSets

CONSTANTS
    Nodes,           \* bound: the number of versions of the channel
    PossibleEdges    \* bound: the upgrades that a channel may offer

Node == 0 .. Nodes - 1

ASSUME GraphAssumption == Nodes \in Nat /\ PossibleEdges \subseteq Node \X Node

Unknown == Nodes     \* a version that the channel does not have
NoNode == -1

VARIABLES
    edges,     \* graph.Edges
    version,   \* the version to start from
    reqVer,    \* the version to reach
    pc,        \* "find" the versions, "search", "walk" back, or "done"
    queue,     \* of the breadth first search
    visited,
    prev,      \* predecessor of each visited node
    path,      \* the path, from its end backwards
    result     \* "none", "error" or "ok"

graph == <<edges, version, reqVer>>
vars == <<graph, pc, queue, visited, prev, path, result>>

Init ==
    /\ edges \in SUBSET PossibleEdges
    /\ version \in Node \cup {Unknown} /\ reqVer \in Node \cup {Unknown}
    /\ pc = "find" /\ queue = <<>> /\ visited = {}
    /\ prev = [n \in Node |-> NoNode]
    /\ path = <<>> /\ result = "none"

\* getGraphData may fail, and either version may be missing.
FindFails ==
    /\ pc = "find" /\ pc' = "done" /\ result' = "error"
    /\ UNCHANGED <<graph, queue, visited, prev, path>>

FindVersions ==
    /\ pc = "find" /\ version \in Node /\ reqVer \in Node
    /\ pc' = "search" /\ queue' = <<version>> /\ visited' = {version}
    /\ UNCHANGED <<graph, prev, path, result>>

-----------------------------------------------------------------------------
(***************************************************************************)
(* shortestPath.  The destinations of a node are sorted by version, the    *)
(* newest first.                                                           *)
(***************************************************************************)
\* Mutant: the destinations are visited in the order of the oldest first.
NewestFirst_Ascending(S) ==
    [k \in 1 .. Cardinality(S) |->
        CHOOSE n \in S : Cardinality({m \in S : m < n}) = k - 1]

NewestFirst(S) ==
    [k \in 1 .. Cardinality(S) |->
        CHOOSE n \in S : Cardinality({m \in S : m > n}) = k - 1]

Neighbours(n) == {m \in Node : <<n, m>> \in edges}

Fresh(n) == Neighbours(n) \ visited

\* Mutant: a stack in place of the queue.
Enqueue_Front(q, s) == s \o q

Enqueue(q, s) == q \o s

Visit ==
    LET n == Head(queue)
    IN /\ pc = "search" /\ queue # <<>> /\ n # reqVer
       /\ queue' = Enqueue(Tail(queue), NewestFirst(Fresh(n)))
       /\ prev' = [m \in Node |-> IF m \in Fresh(n) THEN n ELSE prev[m]]
       /\ visited' = visited \cup Fresh(n)
       /\ UNCHANGED <<graph, pc, path, result>>

\* Mutant: the loop ends only when it meets the requested version.
SearchEnds_OnlyFound ==
    /\ pc = "search" /\ queue # <<>> /\ Head(queue) = reqVer
    /\ pc' = "walk" /\ path' = <<reqVer>>
    /\ UNCHANGED <<graph, queue, visited, prev, result>>

SearchEnds ==
    /\ pc = "search" /\ (queue # <<>> => Head(queue) = reqVer)
    /\ pc' = "walk"
    /\ path' = IF reqVer \in visited THEN <<reqVer>> ELSE <<>>
    /\ queue' = IF queue = <<>> THEN <<>> ELSE Tail(queue)
    /\ UNCHANGED <<graph, visited, prev, result>>

\* The path is built from its end and reversed: each node goes in front.
WalkBack ==
    /\ pc = "walk" /\ path # <<>> /\ prev[Head(path)] # NoNode
    /\ path' = <<prev[Head(path)]>> \o path
    /\ UNCHANGED <<graph, pc, queue, visited, prev, result>>

Return ==
    /\ pc = "walk" /\ (path # <<>> => prev[Head(path)] = NoNode)
    /\ pc' = "done" /\ result' = "ok"
    /\ UNCHANGED <<graph, queue, visited, prev, path>>

\* The path, then its two ends once more.
gatherUpdates(current, newest, updates) == updates \o <<current, newest>>

Downloads == gatherUpdates(version, reqVer, path)

Finished == pc = "done" /\ UNCHANGED vars

GetUpdates == FindFails \/ FindVersions \/ Visit \/ SearchEnds \/ WalkBack \/ Return

Next == GetUpdates \/ Finished

\* A sequential computation: it runs until it returns.
Spec == Init /\ [][Next]_vars /\ WF_vars(GetUpdates)

-----------------------------------------------------------------------------
(***************************************************************************)
(* Properties.                                                             *)
(***************************************************************************)

\* Reference: the paths of upgrades with the number of nodes given.
Paths(len) ==
    {p \in [1 .. len -> Node] :
        /\ p[1] = version /\ p[len] = reqVer
        /\ \A k \in 1 .. len - 1 : <<p[k], p[k + 1]>> \in edges}

\* The path is a path of the graph from the current to the requested version,
\* no other is shorter, and it is empty only when there is none; both ends
\* are downloaded even then.
PathIsShortest ==
    result = "ok" =>
        /\ path # <<>> => path \in Paths(Len(path))
        /\ \A len \in 1 .. Nodes : Paths(len) # {} => path # <<>> /\ Len(path) <= len
        /\ {version, reqVer} \subseteq {Downloads[k] : k \in DOMAIN Downloads}

\* core-cincinnati.go:113, "to ensure deterministic result": of the shortest
\* paths the result is the one that takes the newest version at the first step
\* where they differ, whatever the order of the edges in the answer.
PathIsNewest ==
    result = "ok" /\ path # <<>> =>
        \A p \in Paths(Len(path)) :
            p # path => \E k \in DOMAIN p :
                /\ p[k] < path[k]
                /\ \A j \in 1 .. k - 1 : p[j] = path[j]

\* The search and the walk back end on every graph, with cycles too.
Termination == <>(pc = "done")
=============================================================================
