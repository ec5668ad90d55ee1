------------------------------ MODULE Overlay ------------------------------
(***************************************************************************)
(* The operations that span nodes: Join, StoreInNetwork and                *)
(* FindValueInNetwork (kademlia_node.go), with the handlers of ping,       *)
(* find_node, find_value, store and exit that serve them                   *)
(* (kademlia/rpc_handlers), however they are started: by a goroutine of    *)
(* the program, a put or get message, or the REST API.  Each runs a lookup *)
(* and then sends to the nodes it found.  Messages are lost, delayed and   *)
(* reordered, values expire and nodes exit.                                *)
(*                                                                         *)
(* The network is small: k is at least the number of nodes, so a bucket is *)
(* never full (RoutingTable is about full ones), FindClosest returns the   *)
(* whole table and no lookup has to displace a node (LookUp does).         *)
(* Distances then only order lists, and the order is left open.  There is  *)
(* one value, which is not empty: its hash is the key, so no node can hold  *)
(* another under it.  (An empty one is a matter of ValueStore.)            *)
(***************************************************************************)
EXTENDS Naturals, Sequences, FiniteSets, SequencesExt, FiniteSetsExt

CONSTANTS
    Node,
    Op,             \* the operations, each executed once
    Kind,           \* Op -> {"join", "put", "get"}
    By,             \* Op -> Node: the node that executes it
    Via,            \* the bootstrap node of each join
    ByAddress,      \* the joins that are given no id of it (the command line)
    Follows,        \* Op -> SUBSET Op: a bound, what ends before it begins
    Alpha,          \* number of parallel queries of a lookup
    Mortal,         \* a bound: the nodes that may exit
    MaxFaults       \* a bound: how often a message is lost, a value expires,
                    \* a node exits or a lookup times out, together

ASSUME NodeAssumption == IsFiniteSet(Node)
ASSUME OpAssumption ==
    /\ Kind \in [Op -> {"join", "put", "get"}]
    /\ By \in [Op -> Node] /\ Via \in [Op -> Node]
    /\ \A o \in Op : Kind[o] = "join" => By[o] # Via[o]
    \* A second StoreInNetwork of a node would be refused (see Refresher).
    /\ \A o, q \in Op : Kind[o] = "put" /\ Kind[q] = "put" /\ By[o] = By[q] => o = q
    /\ ByAddress \subseteq {o \in Op : Kind[o] = "join"}
    /\ Follows \in [Op -> SUBSET Op]
ASSUME AlphaAssumption == Alpha \in Nat \ {0}
ASSUME FaultsAssumption == Mortal \subseteq Node /\ MaxFaults \in Nat

VARIABLES
    contacts,       \* the routing table of each node
    stored,         \* the nodes that hold the value
    closed,         \* the nodes that have exited
    wire,           \* the messages under way
    pc,             \* where each operation is
    found,          \* kClosestNodes of its lookup
    asked,          \* the nodes a query was launched to
    queued,         \* unprobedNodes, without those asked meanwhile
    inflight,       \* the nodes whose answer it waits for
    results,        \* FindValueInNetwork: the answers, in order of arrival,
                    \* and (history) the node each is from
    faults,         \* what has failed so far
    disturbed,      \* history: a query of its lookup failed
    held            \* history: nodes it can find the value at, see Begin

lookupVars == <<found, asked, queued>>
historyVars == <<faults, disturbed, held>>
vars == <<contacts, stored, closed, wire, pc, lookupVars, inflight, results, historyVars>>

\* A message to a node that has exited is not sent, or reaches nobody.
Requests(rpc, o, nodes) == [rpc : {rpc}, op : {o}, node : nodes \ closed]

Reply(m, list, has) ==
    [rpc |-> "reply", re |-> m.rpc, op |-> m.op, node |-> m.node,
     list |-> list, has |-> has]

Ended(o) == pc[o] \in {"done", "failed"}

\* An undisturbed join that has ended: its lookup lost no query.
Joined(o) == Kind[o] = "join" /\ pc[o] = "done" /\ ~disturbed[o]

\* The nodes that have joined, with those they joined through.
Members == UNION {{By[o], Via[o]} : o \in {j \in Op : Joined(j)}}

Least(i, j) == IF i < j THEN i ELSE j

\* A fault, of which there are at most MaxFaults.
Fault == faults < MaxFaults /\ faults' = faults + 1

\* Nothing of a call of o to node n is under way: if o still waits, it fails.
CallOver(o, n) == ~\E m \in wire : m.op = o /\ m.node = n

Receiver(m) == IF m.rpc = "reply" THEN By[m.op] ELSE m.node

\* NewContact for a table that never is full.
NewContact(n, m) == contacts' = [contacts EXCEPT ![n] = @ \cup {m}]

-----------------------------------------------------------------------------
(* Lookups.                                                                *)

\* FindClosest and its first Alpha nodes: all are kept, and all are asked.
BeginLookUp(o) ==
    /\ pc[o] = "start"
    /\ \E initial \in kSubset(Least(Alpha, Cardinality(contacts[By[o]])), contacts[By[o]]) :
         /\ found' = [found EXCEPT ![o] = initial]
         /\ asked' = [asked EXCEPT ![o] = initial]
         /\ inflight' = [inflight EXCEPT ![o] = initial]
         /\ wire' = wire \cup Requests("find_node", o, initial)
    /\ pc' = [pc EXCEPT ![o] = "lookup"]
    /\ UNCHANGED <<contacts, stored, closed, queued, results, historyVars>>

\* Mutant of LookUpAnswered: the nodes of the answer are kept, not asked.
LookUpAnsweredOnly(o, n, list) ==
    /\ found' = [found EXCEPT ![o] = @ \cup list]
    /\ inflight' = [inflight EXCEPT ![o] = @ \ {n}]
    /\ UNCHANGED <<asked, queued>>

\* Mutant of LookUpAnswered: the nodes of the answer are asked, not kept.
LookUpAnsweredForgotten(o, n, list) ==
    LET waiting == inflight[o] \ {n}
        next == list \ asked[o]
    IN  /\ asked' = [asked EXCEPT ![o] = @ \cup next]
        /\ inflight' = [inflight EXCEPT ![o] = waiting \cup next]
        /\ UNCHANGED <<found, queued>>

\* The answer of n is merged and further queries are launched.
LookUpAnswered(o, n, list) ==
    LET waiting == inflight[o] \ {n}
        unprobed == (queued[o] \cup list) \ asked[o]
        slots == Least(Alpha - Cardinality(waiting), Cardinality(unprobed))
    IN  /\ found' = [found EXCEPT ![o] = @ \cup list]
        /\ \E next \in kSubset(slots, unprobed) :
             /\ asked' = [asked EXCEPT ![o] = @ \cup next]
             /\ inflight' = [inflight EXCEPT ![o] = waiting \cup next]
             /\ queued' = [queued EXCEPT ![o] = unprobed \ next]

\* A query fails: a timeout or a send error.  Nothing is launched for it.
LookUpFails(o, n) ==
    /\ pc[o] = "lookup" /\ n \in inflight[o]
    /\ inflight' = [inflight EXCEPT ![o] = @ \ {n}]
    /\ CallOver(o, n)
    /\ disturbed' = [disturbed EXCEPT ![o] = TRUE]
    /\ UNCHANGED <<contacts, stored, closed, wire, pc, lookupVars, results, faults, held>>

\* "Overall timeout reached - return what we have": the answers still under
\* way are waited for (wg.Wait) and not looked at.
LookUpTimesOut(o) ==
    /\ pc[o] = "lookup" /\ inflight[o] # {}
    /\ Fault
    /\ inflight' = [inflight EXCEPT ![o] = {}]
    /\ disturbed' = [disturbed EXCEPT ![o] = TRUE]
    /\ UNCHANGED <<contacts, stored, closed, wire, pc, lookupVars, results, held>>

\* The lookup returns what it found.  A join is done; a put sends the value
\* to every node and returns without waiting for the sends; a get asks every
\* node and waits.
EndLookUp(o) ==
    /\ pc[o] = "lookup" /\ inflight[o] = {}
    /\ \A n \in Node : CallOver(o, n)
    /\ CASE Kind[o] = "join" ->
              /\ pc' = [pc EXCEPT ![o] = "done"]
              /\ UNCHANGED <<wire, inflight>>
         [] Kind[o] = "put" ->
              /\ pc' = [pc EXCEPT ![o] = "done"]
              /\ wire' = wire \cup Requests("store", o, found[o])
              /\ UNCHANGED inflight
         [] Kind[o] = "get" ->
              /\ pc' = [pc EXCEPT ![o] = "gather"]
              /\ wire' = wire \cup Requests("find_value", o, found[o])
              /\ inflight' = [inflight EXCEPT ![o] = found[o]]
    /\ UNCHANGED <<contacts, stored, closed, lookupVars, results, historyVars>>

-----------------------------------------------------------------------------
(* Join.                                                                   *)

\* A join of a node given without an id: "If the provided node doesn't
\* include an ID", it is asked for it.
JoinAddress(o) ==
    /\ o \in ByAddress
    /\ pc' = [pc EXCEPT ![o] = "ping"]
    /\ wire' = wire \cup Requests("ping", o, {Via[o]})
    /\ UNCHANGED <<contacts, held>>

\* A join of a node given with its id.
JoinNode(o) ==
    /\ Kind[o] = "join" /\ o \notin ByAddress
    /\ NewContact(By[o], Via[o])
    /\ pc' = [pc EXCEPT ![o] = "start"]
    /\ UNCHANGED <<wire, held>>

\* Mutant of PingFails: the join goes on without an answer.
PingFailsGoOn(o) ==
    /\ pc[o] = "ping"
    /\ CallOver(o, Via[o])
    /\ pc' = [pc EXCEPT ![o] = "start"]
    /\ UNCHANGED <<contacts, stored, closed, wire, lookupVars, inflight, results, historyVars>>

\* "failed to contact bootstrap node".
PingFails(o) ==
    /\ pc[o] = "ping"
    /\ CallOver(o, Via[o])
    /\ pc' = [pc EXCEPT ![o] = "failed"]
    /\ UNCHANGED <<contacts, stored, closed, wire, lookupVars, inflight, results, historyVars>>

-----------------------------------------------------------------------------
(* Operations begin, also on a node that has exited.                       *)

\* A put message, or POST: the refresher it starts is a matter of Refresher.
Put(o) ==
    /\ Kind[o] = "put"
    /\ pc' = [pc EXCEPT ![o] = "start"]
    /\ UNCHANGED <<contacts, wire, held>>

\* A get message, or GET.  The history held starts with the members that hold
\* the value, if the node is a member itself.
Get(o) ==
    /\ Kind[o] = "get"
    /\ pc' = [pc EXCEPT ![o] = "start"]
    /\ held' = [held EXCEPT ![o] =
                  IF By[o] \in Members THEN stored \cap Members ELSE {}]
    /\ UNCHANGED <<contacts, wire>>

Begin(o) ==
    /\ pc[o] = "new"
    /\ \A p \in Follows[o] : Ended(p)
    /\ JoinAddress(o) \/ JoinNode(o) \/ Put(o) \/ Get(o)
    /\ UNCHANGED <<stored, closed, lookupVars, inflight, results, faults, disturbed>>

-----------------------------------------------------------------------------
(* The end of a get.                                                       *)

\* nodes of FindValueInNetwork: the result of the lookup in some order.
Queried(o) == SetToSeq(found[o])

\* Mutant of Collected: a failed query has no result.
CollectedIfAnswered(o, n, has) ==
    IF has THEN Append(results[o], [from |-> n, has |-> has]) ELSE results[o]

\* What arrives on resCh: the value, or "" for a list of nodes or an error.
Collected(o, n, has) == Append(results[o], [from |-> n, has |-> has])

GatherFails(o, n) ==
    /\ pc[o] = "gather" /\ n \in inflight[o]
    /\ results' = [results EXCEPT ![o] = Collected(o, n, FALSE)]
    /\ inflight' = [inflight EXCEPT ![o] = @ \ {n}]
    /\ CallOver(o, n)
    /\ held' = [held EXCEPT ![o] = @ \ {n}]
    /\ UNCHANGED <<contacts, stored, closed, wire, pc, lookupVars, faults, disturbed>>

\* "Collect results": one for each query.
EndGather(o) ==
    /\ pc[o] = "gather" /\ Len(results[o]) = Cardinality(found[o])
    /\ pc' = [pc EXCEPT ![o] = "done"]
    /\ UNCHANGED <<contacts, stored, closed, wire, lookupVars, inflight, results, historyVars>>

\* finalValue # "": the value with the highest frequency, if any node had it.
ValueFound(o) == \E i \in DOMAIN results[o] : results[o][i].has

\* storingNodes: the node asked i-th, for each i-th answer that is the value.
StoringNodes(o) == {Queried(o)[i] : i \in {j \in DOMAIN results[o] : results[o][j].has}}

-----------------------------------------------------------------------------
(* Messages.                                                               *)

\* AddToContactsFromMsg, the first-handler of all these messages.
Introduce(n, m) == NewContact(n, m)

\* The answer to a find_value request: whether the node has the value.  The
\* nodes it names otherwise are not looked at.
HasValue(m) == m.rpc = "find_value" /\ m.node \in stored

\* The answer to a find_node request: FindClosest, after the asker was added.
Closest(m) == IF m.rpc = "find_node" THEN contacts'[m.node] ELSE {}

\* A store request: Store (see ValueStore).
Store(m) == stored' = IF m.rpc = "store" THEN stored \cup {m.node} ELSE stored

\* A request is received by a node: its first-handler, and its handler with
\* the one reply it sends.
Serve(m) ==
    /\ m \in wire /\ m.rpc # "reply"
    /\ Introduce(m.node, By[m.op])
    /\ Store(m)
    /\ wire' = (wire \ {m}) \cup
                 (IF By[m.op] \in closed THEN {} ELSE {Reply(m, Closest(m), HasValue(m))})
    /\ UNCHANGED <<closed, pc, lookupVars, inflight, results, historyVars>>

\* Whether the operation still waits for the reply m in SendAndAwaitResponse.
Awaited(m) ==
    \/ m.re = "ping" /\ pc[m.op] = "ping"
    \/ m.re = "find_node" /\ pc[m.op] = "lookup" /\ m.node \in inflight[m.op]
    \/ m.re = "find_value" /\ pc[m.op] = "gather" /\ m.node \in inflight[m.op]

\* A reply reaches its node, whose first-handler runs.
Received(m) ==
    /\ m \in wire /\ m.rpc = "reply"
    /\ Introduce(By[m.op], m.node)
    /\ UNCHANGED <<stored, closed, historyVars>>

\* "Convert bytes to BitArray and set on the NodeInfo", which NewContact adds.
ReceiveId(m) ==
    /\ Received(m) /\ m.re = "ping" /\ Awaited(m)
    /\ pc' = [pc EXCEPT ![m.op] = "start"]
    /\ wire' = wire \ {m}
    /\ UNCHANGED <<lookupVars, inflight, results>>

ReceiveNodes(m) ==
    /\ Received(m) /\ m.re = "find_node" /\ Awaited(m)
    /\ LookUpAnswered(m.op, m.node, m.list)
    /\ wire' = (wire \ {m}) \cup Requests("find_node", m.op, asked'[m.op] \ asked[m.op])
    /\ UNCHANGED <<pc, results>>

ReceiveValue(m) ==
    /\ Received(m) /\ m.re = "find_value" /\ Awaited(m)
    /\ results' = [results EXCEPT ![m.op] = Collected(m.op, m.node, m.has)]
    /\ inflight' = [inflight EXCEPT ![m.op] = @ \ {m.node}]
    /\ wire' = wire \ {m}
    /\ UNCHANGED <<pc, lookupVars>>

\* A reply to a store, which nobody waits for.
ReceiveUnawaited(m) ==
    /\ Received(m) /\ ~Awaited(m)
    /\ wire' = wire \ {m}
    /\ UNCHANGED <<pc, lookupVars, inflight, results>>

Receive(m) ==
    \/ ReceiveId(m) \/ ReceiveNodes(m) \/ ReceiveValue(m) \/ ReceiveUnawaited(m)

-----------------------------------------------------------------------------
(* What else happens to a node.                                            *)

\* A message is lost.  The call it belongs to will time out; an answer that
\* comes after the timeout is a matter of Rpc.
Lose(m) ==
    /\ Fault
    /\ wire' = wire \ {m}
    /\ UNCHANGED <<contacts, stored, closed, pc, lookupVars, inflight, results, disturbed, held>>

\* The value expires at a node and is not refreshed there in time.
Expire(n) ==
    /\ n \in stored
    /\ Fault
    /\ stored' = stored \ {n}
    /\ held' = [o \in Op |-> held[o] \ {n}]
    /\ UNCHANGED <<contacts, closed, wire, pc, lookupVars, inflight, results, disturbed>>

\* An exit message or POST /exit: the node answers and receives no more.
Exit(n) ==
    /\ n \in Mortal \ closed
    /\ Fault
    /\ closed' = closed \cup {n}
    /\ wire' = {m \in wire : Receiver(m) # n}
    /\ held' = [o \in Op |-> held[o] \ {n}]
    /\ UNCHANGED <<contacts, stored, pc, lookupVars, inflight, results, disturbed>>

-----------------------------------------------------------------------------
Init ==
    /\ contacts = [n \in Node |-> {}]
    /\ stored = {} /\ closed = {} /\ wire = {}
    /\ pc = [o \in Op |-> "new"]
    /\ found = [o \in Op |-> {}] /\ asked = [o \in Op |-> {}]
    /\ queued = [o \in Op |-> {}] /\ inflight = [o \in Op |-> {}]
    /\ results = [o \in Op |-> <<>>]
    /\ faults = 0
    /\ disturbed = [o \in Op |-> FALSE]
    /\ held = [o \in Op |-> {}]

\* What the goroutine of an operation does without waiting for a message.
Local(o) == BeginLookUp(o) \/ EndLookUp(o) \/ EndGather(o)

\* SendAndAwaitResponse gives up, or could not send; or a lookup gives up.
Timeout(o) ==
    \/ PingFails(o) \/ LookUpTimesOut(o)
    \/ \E n \in Node : LookUpFails(o, n) \/ GatherFails(o, n)

\* The end: no other state is without a next one, so every operation ends.
Finished ==
    /\ \A o \in Op : Ended(o)
    /\ UNCHANGED vars

Next ==
    \/ \E o \in Op : Begin(o) \/ Local(o) \/ Timeout(o)
    \/ \E m \in wire : Serve(m) \/ Receive(m) \/ Lose(m)
    \/ \E n \in Node : Expire(n) \/ Exit(n)
    \/ Finished

Spec == Init /\ [][Next]_vars

-----------------------------------------------------------------------------
TypeOK ==
    /\ contacts \in [Node -> SUBSET Node]
    /\ stored \subseteq Node /\ closed \subseteq Mortal
    /\ \A m \in wire : m.op \in Op /\ m.node \in Node /\ Receiver(m) \notin closed
    /\ pc \in [Op -> {"new", "ping", "start", "lookup", "gather", "done", "failed"}]
    /\ \A o \in Op :
         /\ inflight[o] \subseteq found[o] /\ found[o] \subseteq Node
         /\ asked[o] \cup queued[o] \subseteq found[o]
         /\ queued[o] \cap asked[o] = {}
         /\ pc[o] = "lookup" => Cardinality(inflight[o]) <= Alpha
         /\ pc[o] \in {"gather", "done"} /\ Kind[o] = "get" =>
              {r.from : r \in ToSet(results[o])} = found[o] \ inflight[o]

\* Nodes that join through the same node know each other when both have
\* joined, however their joins overlap, unless a query of one was lost: the
\* bootstrap node adds a joiner before it answers it, so the one it answers
\* later is told of the other and asks it.
JoinersMeet ==
    \A i, j \in Op :
        (Joined(i) /\ Joined(j) /\ Via[i] = Via[j] /\ By[i] # By[j])
            => By[i] \in contacts[By[j]]

\* Join by address only succeeds if the bootstrap node has answered, and then
\* it knows the new node, whatever is lost afterwards.  A join that is given
\* the id succeeds without it, and is known only if its query was answered.
JoinedIsKnown ==
    \A o \in Op :
        (Kind[o] = "join" /\ pc[o] = "done" /\ (o \in ByAddress \/ ~disturbed[o]))
            => By[o] \in contacts[Via[o]]

\* Where all have joined through one node, a get of a member finds the value if
\* some member holds it all the time and does not exit, and neither the lookup
\* nor the query to that node fails: the lookup leads to every member, and
\* other failures do not matter.
FoundIfHeld ==
    \A o \in Op :
        (Kind[o] = "get" /\ pc[o] = "done" /\ ~disturbed[o] /\ held[o] # {})
            => ValueFound(o)

\* "Return the nodes that had the value" (kademlia_node.go:281): every node
\* that a get names has answered it with the value.  The code pairs the i-th
\* answer that arrives with the i-th node asked, so this is false when answers
\* arrive in another order and some node does not have the value.
NamesHolders ==
    \A o \in Op :
        (Kind[o] = "get" /\ pc[o] = "done" /\ ValueFound(o))
            => StoringNodes(o) \subseteq {r.from : r \in {x \in ToSet(results[o]) : x.has}}
=============================================================================
