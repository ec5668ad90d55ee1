------------------------------- MODULE LookUp -------------------------------
(***************************************************************************)
(* One iterative node lookup (KademliaNode.LookUp, kademlia_node.go).  The *)
(* main goroutine keeps the K closest nodes it has learned of and a queue  *)
(* of nodes to ask, and launches one goroutine per query, at most Alpha at *)
(* a time; the queries end in any order, with an answer or with an error.  *)
(* The loops that merge an answer and launch queries take one step per     *)
(* iteration: they are local to the main goroutine.                        *)
(***************************************************************************)
EXTENDS Naturals, Sequences, FiniteSets, SequencesExt

CONSTANTS
    Node,           \* the node ids of the network, this node's included
    Dist,           \* their XOR distance to the target
    K,              \* size of the result
    Alpha,          \* number of parallel queries
    ListMax         \* longest list a node answers with

ASSUME DistAssumption ==
    /\ Dist \in [Node -> Nat]
    /\ \A m, n \in Node : Dist[m] = Dist[n] => m = n
\* "alpha < k" (kademlia_node.go:589).
ASSUME AlphaAssumption == K \in Nat /\ Alpha \in 1 .. K
\* Ids are of 160 bits.
ASSUME NodeAssumption == IsFiniteSet(Node)
ASSUME ListMaxAssumption == ListMax \in Nat

VARIABLES
    phase,          \* what the main goroutine does
    kClosest,       \* kClosestNodes, whose order nothing depends on
    unprobed,       \* unprobedNodes, a queue that may repeat a node
    probed,         \* the nodes a query was launched to
    queries,        \* the queries whose result was not taken yet
    inflight,       \* the number of them that the main goroutine counts
    rest,           \* what is left to merge of the answer at hand
    learned,        \* history: every node that was an initial one or merged
    asked,          \* history: every node a query was sent to
    lost            \* history: how many queries in a row brought nothing

history == <<learned, asked, lost>>
main == <<phase, kClosest, unprobed, probed, inflight, rest>>
vars == <<main, queries, history>>

Lists == BoundedSeq(Node, ListMax) \ {<<>>}

\* A query: the node asked and its place in the list the lookup starts with,
\* which can hold a node twice; 0 for a query launched later.
Query == Node \X (0 .. Alpha)

-----------------------------------------------------------------------------
\* Mutant of Begin: the initial nodes are asked, not kept.
BeginUnkept(initial) ==
    /\ phase = "start"
    /\ probed' = ToSet(initial)
    /\ queries' = {<<initial[i], i>> : i \in DOMAIN initial}
    /\ inflight' = Len(initial)
    /\ learned' = ToSet(initial) /\ asked' = ToSet(initial)
    /\ phase' = "select"
    /\ UNCHANGED <<kClosest, unprobed, rest, lost>>

\* The list FindClosest returned, cut to Alpha nodes: each node is kept once,
\* and a query is launched for every place of the list, whether or not its
\* node was asked already.  With an empty table the lookup is over at once.
Begin(initial) ==
    /\ phase = "start"
    /\ kClosest' = ToSet(initial)
    /\ probed' = ToSet(initial)
    /\ queries' = {<<initial[i], i>> : i \in DOMAIN initial}
    /\ inflight' = Len(initial)
    /\ learned' = ToSet(initial) /\ asked' = ToSet(initial)
    /\ phase' = "select"
    /\ UNCHANGED <<unprobed, rest, lost>>

Init ==
    /\ phase = "start"
    /\ kClosest = {} /\ probed = {} /\ queries = {} /\ learned = {} /\ asked = {}
    /\ unprobed = <<>> /\ rest = <<>>
    /\ inflight = 0 /\ lost = 0

\* A query ends with an answer: its result is taken from resultsCh, which has
\* room for every running query.
Answer(q, list) ==
    /\ phase = "select"
    /\ q \in queries
    /\ queries' = queries \ {q}
    /\ inflight' = inflight - 1
    /\ rest' = list
    /\ lost' = 0
    /\ phase' = "merge"
    /\ UNCHANGED <<kClosest, unprobed, probed, learned, asked>>

\* A query ends with an error: a timeout, a send error or an empty body,
\* which is what an empty list is on the wire.  The loop goes on to its next
\* iteration, past the launch of further queries.
Fail(q) ==
    /\ phase = "select"
    /\ q \in queries
    /\ queries' = queries \ {q}
    /\ inflight' = inflight - 1
    /\ lost' = lost + 1
    /\ UNCHANGED <<phase, kClosest, unprobed, probed, rest, learned, asked>>

Probed(n) == n \in probed

Farthest(f) == f \in kClosest /\ \A m \in kClosest : Dist[m] <= Dist[f]

\* Mutant of Displaces: the farthest node is displaced whatever the distance.
DisplacesAlways(n, f) == n # f

Displaces(n, f) == Dist[n] < Dist[f]

\* kClosestNodes after n was considered for it.
Keep(n) ==
    \/ /\ n \in kClosest
       /\ UNCHANGED kClosest
    \/ /\ n \notin kClosest
       /\ Cardinality(kClosest) < K
       /\ kClosest' = kClosest \cup {n}
    \/ /\ n \notin kClosest
       /\ Cardinality(kClosest) >= K
       /\ \E f \in kClosest :
            /\ Farthest(f)
            /\ kClosest' = IF Displaces(n, f) THEN (kClosest \ {f}) \cup {n}
                                              ELSE kClosest

\* Mutant of Schedule: only a node that was kept is asked.
ScheduleIfKept(n) ==
    unprobed' = IF Probed(n) \/ n \notin kClosest' THEN unprobed
                                                   ELSE Append(unprobed, n)

Schedule(n) == unprobed' = IF Probed(n) THEN unprobed ELSE Append(unprobed, n)

\* One iteration of the loop over the nodes of an answer.
Merge ==
    /\ phase = "merge" /\ rest # <<>>
    /\ Keep(Head(rest))
    /\ Schedule(Head(rest))
    /\ learned' = learned \cup {Head(rest)}
    /\ rest' = Tail(rest)
    /\ UNCHANGED <<phase, probed, queries, inflight, asked, lost>>

Merged ==
    /\ phase = "merge" /\ rest = <<>>
    /\ phase' = "launch"
    /\ UNCHANGED <<kClosest, unprobed, probed, queries, inflight, rest, history>>

HasSlot == inflight < Alpha

\* Mutant of LaunchQuery: the node is not marked as probed.
LaunchUnmarked(n) ==
    /\ inflight' = inflight + 1
    /\ queries' = queries \cup {<<n, 0>>}
    /\ asked' = asked \cup {n}
    /\ UNCHANGED probed

\* Mutant of LaunchQuery: the query is not counted.
LaunchUncounted(n) ==
    /\ probed' = probed \cup {n}
    /\ queries' = queries \cup {<<n, 0>>}
    /\ asked' = asked \cup {n}
    /\ UNCHANGED inflight

\* launchQuery, past the start of the lookup.
LaunchQuery(n) ==
    /\ probed' = probed \cup {n}
    /\ inflight' = inflight + 1
    /\ queries' = queries \cup {<<n, 0>>}
    /\ asked' = asked \cup {n}

\* Mutant of Ask: a node queued twice is asked twice.
AskAgain(n) == LaunchQuery(n)

\* A query is launched unless one was launched since n was queued.
Ask(n) ==
    IF Probed(n) THEN UNCHANGED <<probed, inflight, queries, asked>>
                 ELSE LaunchQuery(n)

\* One iteration of the loop that launches queries.
Launch ==
    /\ phase = "launch"
    /\ HasSlot /\ unprobed # <<>>
    /\ Ask(Head(unprobed))
    /\ unprobed' = Tail(unprobed)
    /\ UNCHANGED <<phase, kClosest, rest, learned, lost>>

Launched ==
    /\ phase = "launch"
    /\ ~(HasSlot /\ unprobed # <<>>)
    /\ phase' = "select"
    /\ UNCHANGED <<kClosest, unprobed, probed, queries, inflight, rest, history>>

\* Mutant of Finish: the loop also goes on while nodes are queued.
FinishWhenAllAsked ==
    /\ phase = "select" /\ inflight = 0 /\ unprobed = <<>>
    /\ phase' = "done"
    /\ UNCHANGED <<kClosest, unprobed, probed, queries, inflight, rest, history>>

\* No query is running when the loop condition is evaluated.
Finish ==
    /\ phase = "select" /\ inflight = 0
    /\ phase' = "done"
    /\ UNCHANGED <<kClosest, unprobed, probed, queries, inflight, rest, history>>

\* The context of the lookup expires: no further result is looked at.
LookupTimeout ==
    /\ phase = "select" /\ inflight > 0
    /\ phase' = "drain"
    /\ lost' = Alpha
    /\ UNCHANGED <<kClosest, unprobed, probed, queries, inflight, rest, learned, asked>>

\* wg.Wait: the queries still running end, their results are thrown away.
Drain(q) ==
    /\ phase = "drain"
    /\ q \in queries
    /\ queries' = queries \ {q}
    /\ UNCHANGED <<main, history>>

Drained ==
    /\ phase = "drain" /\ queries = {}
    /\ phase' = "done"
    /\ UNCHANGED <<kClosest, unprobed, probed, queries, inflight, rest, history>>

\* FindClosest returns a contact twice where a bucket holds it twice.
Start == \E initial \in BoundedSeq(Node, Alpha) : Begin(initial)

QueryEnds(q) ==
    \/ \E list \in Lists : Answer(q, list)
    \/ Fail(q)
    \/ Drain(q)

Local == Merge \/ Merged \/ Launch \/ Launched \/ Finish \/ Drained

Next ==
    \/ Start
    \/ \E q \in Query : QueryEnds(q)
    \/ Local
    \/ LookupTimeout

Spec == Init /\ [][Next]_vars

\* The main goroutine runs, and every query ends: SendAndAwaitResponse gives
\* up after 5 seconds.  The lookup need not time out.
Fairness ==
    /\ WF_vars(Start)
    /\ WF_vars(Local)
    /\ \A q \in Query : WF_vars(QueryEnds(q))

FairSpec == Spec /\ Fairness

-----------------------------------------------------------------------------
TypeOK ==
    /\ phase \in {"start", "select", "merge", "launch", "drain", "done"}
    /\ kClosest \subseteq Node /\ probed \subseteq Node
    /\ queries \subseteq probed \X (0 .. Alpha)
    /\ learned \subseteq Node /\ asked \subseteq Node
    /\ unprobed \in Seq(Node) /\ rest \in Seq(Node)
    /\ inflight \in Nat /\ lost \in 0 .. Alpha

\* kClosestNodes always is the K closest of all the nodes the lookup has
\* learned of, although it is maintained by displacing one node at a time
\* and answers come in any order, with nodes that were displaced before.
KeepsKClosest ==
    /\ kClosest \subseteq learned
    /\ Cardinality(kClosest) <= K
    /\ Cardinality(kClosest) < K => kClosest = learned
    /\ \A n \in kClosest, m \in learned \ kClosest : Dist[n] < Dist[m]

\* At most alpha queries run at a time ("Launch up to alpha queries in
\* parallel", kademlia_node.go:608): the goroutines keep in step with the
\* counter that stands for them, with a node asked twice at the start, with
\* failures and with the overall timeout.
AtMostAlphaQueries == Cardinality(queries) <= Alpha

\* A lookup that times out has a result: the error of that path, returned
\* when kClosestNodes is empty, never is.
TimeoutHasResult == phase = "drain" => kClosest # {}

\* A failed query launches no other, so nodes the lookup knows of can stay
\* unasked.  That takes a loss of all there was to hope for: unless the last
\* Alpha queries brought nothing, or the lookup timed out, a lookup that
\* ended has asked every node it has learned of.
CompleteUnlessAllLost ==
    (phase = "done" /\ lost < Alpha) => learned \subseteq probed

\* "Track probed nodes to avoid re-querying" (kademlia_node.go:578): no query
\* is launched to a node that was asked before, although a node can be queued
\* many times before it is asked.  The queries of the start are launched at
\* one moment: a node that is in its list twice is asked twice there.
NeverAskedAgain ==
    [][\A q \in queries' \ queries : q[1] \notin asked]_vars

\* The lookup ends, whatever the nodes answer and whichever fail.
Termination == <>(phase = "done")
=============================================================================
