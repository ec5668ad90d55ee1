--------------------------- MODULE OverlayProofs ---------------------------
(***************************************************************************)
(* Proofs, for every finite set of nodes, every set of operations and any  *)
(* number of faults, of the safety properties of Overlay.                  *)
(***************************************************************************)
EXTENDS Overlay, FiniteSetTheorems, TLAPS

RequestMsg == [rpc : {"ping", "find_node", "find_value", "store"}, op : Op, node : Node]

ReplyMsg == [rpc : {"reply"}, re : {"ping", "find_node", "find_value", "store"},
             op : Op, node : Node, list : SUBSET Node, has : BOOLEAN]

TypeInv ==
    /\ contacts \in [Node -> SUBSET Node]
    /\ wire \subseteq RequestMsg \cup ReplyMsg
    /\ pc \in [Op -> {"new", "ping", "start", "lookup", "gather", "done", "failed"}]
    /\ found \in [Op -> SUBSET Node] /\ asked \in [Op -> SUBSET Node]
    /\ queued \in [Op -> SUBSET Node] /\ inflight \in [Op -> SUBSET Node]
    /\ disturbed \in [Op -> BOOLEAN]
    /\ \A o \in Op : /\ pc[o] = "gather" => Kind[o] = "get"
                     /\ pc[o] \in {"new", "ping", "start"} => queued[o] = {}

-----------------------------------------------------------------------------
(* What the operators return.                                              *)

LEMMA MessageTypes ==
    \A m \in RequestMsg \cup ReplyMsg :
        /\ m.op \in Op /\ m.node \in Node
        /\ m.rpc = "reply" => m \in ReplyMsg /\ m.list \in SUBSET Node
        /\ m.rpc # "reply" => m \in RequestMsg
  BY DEF RequestMsg, ReplyMsg

LEMMA RequestTypes ==
    ASSUME NEW rpc \in {"ping", "find_node", "find_value", "store"}, NEW o \in Op,
           NEW nodes \in SUBSET Node
    PROVE  /\ Requests(rpc, o, nodes) \subseteq RequestMsg
           /\ \A m \in Requests(rpc, o, nodes) : m.rpc = rpc /\ m.op = o /\ m.node \in nodes
  BY DEF Requests, RequestMsg

LEMMA ReplyTypes ==
    ASSUME NEW m \in RequestMsg, NEW list \in SUBSET Node, NEW has \in BOOLEAN
    PROVE  /\ Reply(m, list, has) \in ReplyMsg
           /\ Reply(m, list, has).rpc = "reply" /\ Reply(m, list, has).re = m.rpc
           /\ Reply(m, list, has).op = m.op /\ Reply(m, list, has).node = m.node
           /\ Reply(m, list, has).list = list
  BY DEF Reply, RequestMsg, ReplyMsg

\* The table of a node grows by the contact, the others stay.
LEMMA ContactAdded ==
    ASSUME TypeInv, NEW n \in Node, NEW c \in Node, NewContact(n, c)
    PROVE  /\ contacts' \in [Node -> SUBSET Node]
           /\ c \in contacts'[n]
           /\ \A b \in Node : contacts[b] \subseteq contacts'[b]
  BY DEF TypeInv, NewContact

\* A lookup starts with at least one node, if the table holds one.
LEMMA SomeInitial ==
    ASSUME NodeAssumption, AlphaAssumption, NEW S \in SUBSET Node, S # {},
           NEW initial \in kSubset(Least(Alpha, Cardinality(S)), S)
    PROVE  initial # {}
  <1>1. IsFiniteSet(S)
    BY FS_Subset DEF NodeAssumption
  <1>2. Cardinality(S) \in Nat /\ Cardinality(S) # 0
    BY <1>1, FS_CardinalityType, FS_EmptySet
  <1>3. Least(Alpha, Cardinality(S)) # 0
    BY <1>2 DEF Least, AlphaAssumption
  <1>4. Cardinality(initial) # 0
    BY <1>3 DEF kSubset
  <1> QED  BY <1>4, FS_EmptySet

\* What an answer does to a lookup: everything found is asked or queued, and
\* no node stays queued when no answer is awaited.
LEMMA AnswerMerged ==
    ASSUME TypeInv, NodeAssumption, AlphaAssumption, NEW o \in Op, NEW n \in Node,
           NEW list \in SUBSET Node, LookUpAnswered(o, n, list)
    PROVE  /\ found' \in [Op -> SUBSET Node] /\ asked' \in [Op -> SUBSET Node]
           /\ queued' \in [Op -> SUBSET Node] /\ inflight' \in [Op -> SUBSET Node]
           /\ \A q \in Op \ {o} : /\ found'[q] = found[q] /\ asked'[q] = asked[q]
                                  /\ queued'[q] = queued[q] /\ inflight'[q] = inflight[q]
           /\ found'[o] = found[o] \cup list
           /\ asked'[o] \cup queued'[o] = asked[o] \cup queued[o] \cup list
           /\ asked[o] \subseteq asked'[o]
           /\ asked'[o] \ inflight'[o] \subseteq (asked[o] \ inflight[o]) \cup {n}
           /\ inflight'[o] = {} => queued'[o] = {}
  <1> DEFINE waiting == inflight[o] \ {n}
             unprobed == (queued[o] \cup list) \ asked[o]
             slots == Least(Alpha - Cardinality(waiting), Cardinality(unprobed))
  <1>1. PICK next \in kSubset(slots, unprobed) :
             /\ asked' = [asked EXCEPT ![o] = @ \cup next]
             /\ inflight' = [inflight EXCEPT ![o] = waiting \cup next]
             /\ queued' = [queued EXCEPT ![o] = unprobed \ next]
    BY DEF LookUpAnswered
  <1>2. next \subseteq unprobed /\ Cardinality(next) = slots
    BY DEF kSubset
  <1>3. found' = [found EXCEPT ![o] = @ \cup list]
    BY DEF LookUpAnswered
  <1>4. unprobed \subseteq Node /\ waiting \subseteq Node
    BY DEF TypeInv
  <1>5. ASSUME waiting = {}, next = {} PROVE unprobed = {}
    <2>1. IsFiniteSet(unprobed)
      BY <1>4, FS_Subset DEF NodeAssumption
    <2>2. Cardinality(unprobed) \in Nat
      BY <2>1, FS_CardinalityType
    <2>3. Cardinality(waiting) = 0 /\ Cardinality(next) = 0
      BY <1>5, FS_EmptySet
    <2>4. Least(Alpha - 0, Cardinality(unprobed)) = 0
      BY <1>2, <2>3
    <2>5. Cardinality(unprobed) = 0
      BY <2>2, <2>4 DEF Least, AlphaAssumption
    <2> QED  BY <2>1, <2>5, FS_EmptySet
  <1> HIDE DEF slots
  <1> QED  BY <1>1, <1>2, <1>3, <1>4, <1>5 DEF TypeInv

-----------------------------------------------------------------------------
(* Types.                                                                  *)

LEMMA TypeInit == Init => TypeInv
  BY DEF Init, TypeInv

LEMMA TypeStep == TypeInv /\ [Next]_vars => TypeInv'
  <1> SUFFICES ASSUME TypeInv, [Next]_vars PROVE TypeInv'
    OBVIOUS
  <1> USE NodeAssumption, OpAssumption, AlphaAssumption
  <1>1. ASSUME NEW o \in Op, Begin(o) PROVE TypeInv'
    <2>1. pc[o] = "new" /\ UNCHANGED <<found, asked, queued, inflight, disturbed>>
      BY <1>1 DEF Begin, lookupVars
    <2>2. CASE JoinAddress(o)
      <3>1. Requests("ping", o, {Via[o]}) \subseteq RequestMsg
        BY RequestTypes DEF OpAssumption
      <3> QED  BY <2>1, <2>2, <3>1 DEF JoinAddress, TypeInv
    <2>3. CASE JoinNode(o)
      <3>1. contacts' \in [Node -> SUBSET Node]
        BY <2>3, ContactAdded DEF JoinNode, OpAssumption
      <3> QED  BY <2>1, <2>3, <3>1 DEF JoinNode, TypeInv
    <2>4. CASE Put(o) \/ Get(o)
      BY <2>1, <2>4 DEF Put, Get, TypeInv
    <2> QED  BY <1>1, <2>2, <2>3, <2>4 DEF Begin
  <1>2. ASSUME NEW o \in Op, BeginLookUp(o) PROVE TypeInv'
    <2>1. PICK initial \in SUBSET Node :
             /\ found' = [found EXCEPT ![o] = initial]
             /\ asked' = [asked EXCEPT ![o] = initial]
             /\ inflight' = [inflight EXCEPT ![o] = initial]
             /\ wire' = wire \cup Requests("find_node", o, initial)
      BY <1>2 DEF BeginLookUp, kSubset, TypeInv, OpAssumption
    <2>2. /\ pc[o] = "start" /\ pc' = [pc EXCEPT ![o] = "lookup"]
          /\ UNCHANGED <<contacts, queued, disturbed>>
      BY <1>2 DEF BeginLookUp, historyVars
    <2>3. wire' \subseteq RequestMsg \cup ReplyMsg
      BY <2>1, RequestTypes DEF TypeInv
    <2> QED  BY <2>1, <2>2, <2>3 DEF TypeInv
  <1>3. ASSUME NEW o \in Op, EndLookUp(o) PROVE TypeInv'
    <2>1. UNCHANGED <<contacts, found, asked, queued, disturbed>> /\ pc[o] = "lookup"
      BY <1>3 DEF EndLookUp, lookupVars, historyVars
    <2>2. found[o] \in SUBSET Node
      BY DEF TypeInv
    <2>3. /\ wire' \subseteq RequestMsg \cup ReplyMsg
          /\ inflight' \in [Op -> SUBSET Node]
          /\ \/ pc' = [pc EXCEPT ![o] = "done"]
             \/ pc' = [pc EXCEPT ![o] = "gather"] /\ Kind[o] = "get"
      <3>1. CASE Kind[o] = "join"
        BY <1>3, <3>1 DEF EndLookUp, TypeInv
      <3>2. CASE Kind[o] = "put"
        BY <1>3, <3>2, <2>2, RequestTypes DEF EndLookUp, TypeInv
      <3>3. CASE Kind[o] = "get"
        BY <1>3, <3>3, <2>2, RequestTypes DEF EndLookUp, TypeInv
      <3> QED  BY <3>1, <3>2, <3>3 DEF OpAssumption
    <2> QED  BY <2>1, <2>3 DEF TypeInv
  <1>4. ASSUME NEW o \in Op, EndGather(o) \/ PingFails(o) PROVE TypeInv'
    BY <1>4 DEF EndGather, PingFails, TypeInv, lookupVars, historyVars
  <1>5. ASSUME NEW o \in Op, LookUpTimesOut(o) PROVE TypeInv'
    BY <1>5 DEF LookUpTimesOut, TypeInv, lookupVars
  <1>6. ASSUME NEW o \in Op, NEW n \in Node, LookUpFails(o, n) PROVE TypeInv'
    BY <1>6 DEF LookUpFails, TypeInv, lookupVars
  <1>7. ASSUME NEW o \in Op, NEW n \in Node, GatherFails(o, n) PROVE TypeInv'
    BY <1>7 DEF GatherFails, TypeInv, lookupVars
  <1>8. ASSUME NEW m \in wire, Serve(m) PROVE TypeInv'
    <2>1. m \in RequestMsg /\ m.op \in Op /\ m.node \in Node
      BY <1>8, MessageTypes DEF Serve, TypeInv
    <2>2. contacts' \in [Node -> SUBSET Node]
      BY <1>8, <2>1, ContactAdded DEF Serve, Introduce, OpAssumption
    <2>3. Closest(m) \in SUBSET Node /\ HasValue(m) \in BOOLEAN
      BY <2>1, <2>2 DEF Closest, HasValue
    <2>4. Reply(m, Closest(m), HasValue(m)) \in ReplyMsg
      BY <2>1, <2>3, ReplyTypes
    <2>5. wire' \subseteq RequestMsg \cup ReplyMsg
      BY <1>8, <2>4 DEF Serve, TypeInv
    <2> QED  BY <1>8, <2>2, <2>5 DEF Serve, TypeInv, lookupVars, historyVars
  <1>9. ASSUME NEW m \in wire, Receive(m) PROVE TypeInv'
    <2>1. m \in ReplyMsg /\ m.op \in Op /\ m.node \in Node /\ m.list \in SUBSET Node
      BY <1>9, MessageTypes
      DEF Receive, ReceiveId, ReceiveNodes, ReceiveValue, ReceiveUnawaited, Received, TypeInv
    <2>2. contacts' \in [Node -> SUBSET Node] /\ UNCHANGED disturbed
      BY <1>9, <2>1, ContactAdded
      DEF Receive, ReceiveId, ReceiveNodes, ReceiveValue, ReceiveUnawaited, Received,
          Introduce, historyVars, OpAssumption
    <2>3. CASE ReceiveId(m)
      <3>1. pc[m.op] = "ping"
        BY <2>3 DEF ReceiveId, Awaited
      <3> QED  BY <2>1, <2>2, <2>3, <3>1 DEF ReceiveId, TypeInv, lookupVars
    <2>4. CASE ReceiveNodes(m)
      <3>1. LookUpAnswered(m.op, m.node, m.list) /\ pc[m.op] = "lookup" /\ pc' = pc
        BY <2>4 DEF ReceiveNodes, Awaited
      <3>2. /\ found' \in [Op -> SUBSET Node] /\ asked' \in [Op -> SUBSET Node]
            /\ queued' \in [Op -> SUBSET Node] /\ inflight' \in [Op -> SUBSET Node]
            /\ \A q \in Op \ {m.op} : queued'[q] = queued[q]
        BY <2>1, <3>1, AnswerMerged
      <3>3. wire' \subseteq RequestMsg \cup ReplyMsg
        BY <2>1, <2>4, <3>2, RequestTypes DEF ReceiveNodes, TypeInv
      <3> QED  BY <2>2, <3>1, <3>2, <3>3 DEF TypeInv
    <2>5. CASE ReceiveValue(m)
      BY <2>1, <2>2, <2>5 DEF ReceiveValue, TypeInv, lookupVars
    <2>6. CASE ReceiveUnawaited(m)
      BY <2>2, <2>6 DEF ReceiveUnawaited, TypeInv, lookupVars
    <2> QED  BY <1>9, <2>3, <2>4, <2>5, <2>6 DEF Receive
  <1>10. ASSUME NEW m \in wire, Lose(m) PROVE TypeInv'
    BY <1>10 DEF Lose, TypeInv, lookupVars
  <1>11. ASSUME NEW n \in Node, Expire(n) \/ Exit(n) PROVE TypeInv'
    BY <1>11 DEF Expire, Exit, TypeInv, lookupVars
  <1>12. CASE UNCHANGED vars
    BY <1>12 DEF TypeInv, vars, lookupVars, historyVars
  <1> QED
    BY <1>1, <1>2, <1>3, <1>4, <1>5, <1>6, <1>7, <1>8, <1>9, <1>10, <1>11, <1>12
    DEF Next, Local, Timeout, Finished

-----------------------------------------------------------------------------
(* What the tables, and the messages under way, say of a call.             *)

\* The request a message is, or answers.
Concerns(m, rpc) == m.rpc = rpc \/ (m.rpc = "reply" /\ m.re = rpc)

\* A join past its start knows its bootstrap node; if it had to ask for the
\* id, it is known there.
BootInv ==
    \A o \in Op :
        (Kind[o] = "join" /\ pc[o] \notin {"new", "ping", "failed"}) =>
            /\ Via[o] \in contacts[By[o]]
            /\ o \in ByAddress => By[o] \in contacts[Via[o]]

\* A node that has replied has the asker in its table, and in the list it
\* replied with; a joiner that replies to itself names its bootstrap node.
WireInv ==
    \A m \in wire :
        /\ Concerns(m, "ping") => m.op \in ByAddress /\ m.node = Via[m.op]
        /\ Concerns(m, "find_node") => pc[m.op] \in {"lookup", "gather", "done"}
        /\ m.rpc = "reply" => By[m.op] \in contacts[m.node]
        /\ m.rpc = "reply" /\ m.re = "find_node" =>
             /\ By[m.op] \in m.list
             /\ Kind[m.op] = "join" /\ m.node = By[m.op] => Via[m.op] \in m.list

Undisturbed(o) == Kind[o] = "join" /\ ~disturbed[o] /\ pc[o] \in {"lookup", "done"}

\* Who has answered a lookup that lost nothing knows the joiner and is known
\* to it; what it found is asked or will be.
LookOK(o) ==
    /\ asked[o] # {} /\ found[o] = asked[o] \cup queued[o]
    /\ inflight[o] = {} => queued[o] = {}
    /\ pc[o] = "done" => inflight[o] = {}
    /\ \A n \in asked[o] \ inflight[o] :
         /\ By[o] \in contacts[n] /\ n \in contacts[By[o]]
         /\ By[o] \in found[o]
         /\ n = By[o] => Via[o] \in found[o]

LookInv == \A o \in Op : Undisturbed(o) => LookOK(o)

LEMMA TablesGrow ==
    ASSUME TypeInv, [Next]_vars
    PROVE  \A n \in Node : contacts[n] \subseteq contacts'[n]
  <1> USE OpAssumption
  <1>1. ASSUME NEW o \in Op, JoinNode(o)
        PROVE  \A n \in Node : contacts[n] \subseteq contacts'[n]
    BY <1>1, ContactAdded DEF JoinNode
  <1>2. ASSUME NEW m \in wire, Serve(m) \/ Receive(m)
        PROVE  \A n \in Node : contacts[n] \subseteq contacts'[n]
    <2>1. m.op \in Op /\ m.node \in Node
      BY MessageTypes DEF TypeInv
    <2> QED
      BY <1>2, <2>1, ContactAdded
      DEF Serve, Receive, ReceiveId, ReceiveNodes, ReceiveValue, ReceiveUnawaited,
          Received, Introduce
  <1>3. CASE UNCHANGED contacts
    BY <1>3
  <1> QED
    BY <1>1, <1>2, <1>3
    DEF Next, Begin, JoinAddress, Put, Get, Local, Timeout, BeginLookUp, EndLookUp,
        EndGather, PingFails, LookUpTimesOut, LookUpFails, GatherFails, Lose, Expire,
        Exit, Finished, vars

LEMMA KnownInit == Init => BootInv /\ WireInv
  BY DEF Init, BootInv, WireInv

LEMMA KnownStep == TypeInv /\ BootInv /\ WireInv /\ [Next]_vars => BootInv' /\ WireInv'
  <1> SUFFICES ASSUME TypeInv, BootInv, WireInv, [Next]_vars PROVE BootInv' /\ WireInv'
    OBVIOUS
  <1> USE OpAssumption
  <1>grow. \A n \in Node : contacts[n] \subseteq contacts'[n]
    BY TablesGrow
  \* Messages that stay, while no operation of theirs leaves its lookup.
  <1>stay. ASSUME \A o \in Op : pc[o] \in {"lookup", "gather", "done"} =>
                                    pc'[o] \in {"lookup", "gather", "done"},
                  NEW m \in wire
           PROVE  /\ Concerns(m, "ping") => m.op \in ByAddress /\ m.node = Via[m.op]
                  /\ Concerns(m, "find_node") => pc'[m.op] \in {"lookup", "gather", "done"}
                  /\ m.rpc = "reply" => By[m.op] \in contacts'[m.node]
                  /\ m.rpc = "reply" /\ m.re = "find_node" =>
                       /\ By[m.op] \in m.list
                       /\ Kind[m.op] = "join" /\ m.node = By[m.op] => Via[m.op] \in m.list
    <2>1. m.op \in Op /\ m.node \in Node
      BY MessageTypes DEF TypeInv
    <2> QED  BY <1>stay, <1>grow, <2>1 DEF WireInv
  <1>boot. ASSUME \A o \in Op : pc[o] \in {"new", "ping", "failed"} =>
                                    pc'[o] \in {"new", "ping", "failed"} \/ Kind[o] # "join"
           PROVE  BootInv'
    BY <1>boot, <1>grow DEF BootInv
  <1>1. ASSUME NEW o \in Op, Begin(o) PROVE BootInv' /\ WireInv'
    <2>1. pc[o] = "new" /\ Via[o] \in Node /\ By[o] \in Node
      BY <1>1 DEF Begin
    <2>2. CASE JoinAddress(o)
      <3>1. pc' = [pc EXCEPT ![o] = "ping"] /\ o \in ByAddress
            /\ wire' = wire \cup Requests("ping", o, {Via[o]})
        BY <2>2 DEF JoinAddress
      <3>2. \A m \in Requests("ping", o, {Via[o]}) :
               m.rpc = "ping" /\ m.op = o /\ m.node = Via[o]
        BY <2>1, RequestTypes
      <3>3. BootInv'
        BY <1>boot, <2>1, <3>1 DEF TypeInv
      <3>4. \A q \in Op : pc[q] \in {"lookup", "gather", "done"} =>
                             pc'[q] \in {"lookup", "gather", "done"}
        BY <2>1, <3>1 DEF TypeInv
      <3> QED  BY <1>stay, <3>1, <3>2, <3>3, <3>4 DEF WireInv, Concerns
    <2>3. CASE JoinNode(o)
      <3>1. pc' = [pc EXCEPT ![o] = "start"] /\ o \notin ByAddress /\ wire' = wire
        BY <2>3 DEF JoinNode
      <3>2. Via[o] \in contacts'[By[o]]
        BY <2>1, <2>3, ContactAdded DEF JoinNode
      <3>3. BootInv'
        BY <2>1, <1>grow, <3>1, <3>2 DEF BootInv, TypeInv
      <3>4. \A q \in Op : pc[q] \in {"lookup", "gather", "done"} =>
                             pc'[q] \in {"lookup", "gather", "done"}
        BY <2>1, <3>1 DEF TypeInv
      <3> QED  BY <1>stay, <3>1, <3>3, <3>4 DEF WireInv
    <2>4. CASE Put(o) \/ Get(o)
      <3>1. pc' = [pc EXCEPT ![o] = "start"] /\ wire' = wire /\ Kind[o] # "join"
        BY <2>4 DEF Put, Get
      <3>2. BootInv'
        BY <1>boot, <2>1, <3>1 DEF TypeInv
      <3>3. \A q \in Op : pc[q] \in {"lookup", "gather", "done"} =>
                             pc'[q] \in {"lookup", "gather", "done"}
        BY <2>1, <3>1 DEF TypeInv
      <3> QED  BY <1>stay, <3>1, <3>2, <3>3 DEF WireInv
    <2> QED  BY <1>1, <2>2, <2>3, <2>4 DEF Begin
  <1>2. ASSUME NEW o \in Op, BeginLookUp(o) PROVE BootInv' /\ WireInv'
    <2>1. PICK initial \in SUBSET Node :
             wire' = wire \cup Requests("find_node", o, initial)
      BY <1>2 DEF BeginLookUp, kSubset, TypeInv
    <2>2. pc[o] = "start" /\ pc' = [pc EXCEPT ![o] = "lookup"]
      BY <1>2 DEF BeginLookUp
    <2>3. BootInv'
      BY <1>boot, <2>2 DEF TypeInv
    <2>4. \A q \in Op : pc[q] \in {"lookup", "gather", "done"} =>
                           pc'[q] \in {"lookup", "gather", "done"}
      BY <2>2 DEF TypeInv
    <2>5. \A m \in Requests("find_node", o, initial) : m.rpc = "find_node" /\ m.op = o
      BY RequestTypes
    <2>6. pc'[o] = "lookup"
      BY <2>2 DEF TypeInv
    <2> QED  BY <1>stay, <2>1, <2>3, <2>4, <2>5, <2>6 DEF WireInv, Concerns
  <1>3. ASSUME NEW o \in Op, EndLookUp(o) PROVE BootInv' /\ WireInv'
    <2>1. found[o] \in SUBSET Node /\ pc[o] = "lookup"
      BY <1>3 DEF EndLookUp, TypeInv
    <2>2. pc' = [pc EXCEPT ![o] = "done"] \/ pc' = [pc EXCEPT ![o] = "gather"]
      BY <1>3 DEF EndLookUp
    <2>3. \A m \in wire' : m \in wire \/ m.rpc \in {"store", "find_value"}
      <3>1. CASE Kind[o] = "join"
        BY <1>3, <3>1 DEF EndLookUp
      <3>2. CASE Kind[o] = "put"
        BY <1>3, <3>2, <2>1, RequestTypes DEF EndLookUp
      <3>3. CASE Kind[o] = "get"
        BY <1>3, <3>3, <2>1, RequestTypes DEF EndLookUp
      <3> QED  BY <3>1, <3>2, <3>3
    <2>4. BootInv'
      BY <1>boot, <2>1, <2>2 DEF TypeInv
    <2>5. \A q \in Op : pc[q] \in {"lookup", "gather", "done"} =>
                           pc'[q] \in {"lookup", "gather", "done"}
      BY <2>2 DEF TypeInv
    <2> QED  BY <1>stay, <2>3, <2>4, <2>5 DEF WireInv, Concerns
  <1>4. ASSUME NEW o \in Op, EndGather(o) \/ PingFails(o) PROVE BootInv' /\ WireInv'
    <2>1. \/ pc[o] = "gather" /\ pc' = [pc EXCEPT ![o] = "done"]
          \/ pc[o] = "ping" /\ pc' = [pc EXCEPT ![o] = "failed"]
      BY <1>4 DEF EndGather, PingFails
    <2>2. BootInv'
      BY <1>boot, <2>1 DEF TypeInv
    <2>3. \A q \in Op : pc[q] \in {"lookup", "gather", "done"} =>
                           pc'[q] \in {"lookup", "gather", "done"}
      BY <2>1 DEF TypeInv
    <2>4. wire' = wire
      BY <1>4 DEF EndGather, PingFails
    <2> QED  BY <1>stay, <2>2, <2>3, <2>4 DEF WireInv
  <1>5. ASSUME NEW m \in wire, Serve(m) PROVE BootInv' /\ WireInv'
    <2>1. m \in RequestMsg /\ m.op \in Op /\ m.node \in Node /\ By[m.op] \in Node
      BY <1>5, MessageTypes DEF Serve, TypeInv
    <2>2. /\ contacts' \in [Node -> SUBSET Node] /\ By[m.op] \in contacts'[m.node]
          /\ pc' = pc
      BY <1>5, <2>1, ContactAdded DEF Serve, Introduce
    <2> DEFINE r == Reply(m, Closest(m), HasValue(m))
    <2>3. Closest(m) \in SUBSET Node /\ HasValue(m) \in BOOLEAN
      BY <2>1, <2>2 DEF Closest, HasValue
    <2>4. /\ r.rpc = "reply" /\ r.re = m.rpc /\ r.op = m.op /\ r.node = m.node
          /\ r.list = Closest(m)
      BY <2>1, <2>3, ReplyTypes
    <2>5. \A n \in wire' : n \in wire \/ n = r
      BY <1>5 DEF Serve
    <2>6. /\ Concerns(r, "ping") => r.op \in ByAddress /\ r.node = Via[r.op]
          /\ Concerns(r, "find_node") => pc'[r.op] \in {"lookup", "gather", "done"}
          /\ By[r.op] \in contacts'[r.node]
      BY <2>2, <2>4 DEF Concerns, WireInv
    <2>7. ASSUME m.rpc = "find_node"
          PROVE  /\ By[r.op] \in r.list
                 /\ Kind[r.op] = "join" /\ r.node = By[r.op] => Via[r.op] \in r.list
      <3>1. pc[m.op] \in {"lookup", "gather", "done"}
        BY <2>7 DEF WireInv, Concerns
      <3>2. Kind[m.op] = "join" => Via[m.op] \in contacts'[By[m.op]]
        BY <2>1, <3>1, <1>grow DEF BootInv
      <3>3. r.list = contacts'[m.node]
        BY <2>4, <2>7 DEF Closest
      <3> QED  BY <2>2, <2>4, <3>2, <3>3
    <2>8. BootInv'
      BY <1>boot, <2>2
    <2> QED  BY <1>stay, <2>2, <2>4, <2>5, <2>6, <2>7, <2>8 DEF WireInv
  <1>6. ASSUME NEW m \in wire, ReceiveId(m) PROVE BootInv' /\ WireInv'
    <2>1. m.op \in Op /\ m.node \in Node /\ By[m.op] \in Node /\ m.rpc = "reply" /\ m.re = "ping"
      BY <1>6, MessageTypes DEF ReceiveId, Received, TypeInv
    <2>2. m.op \in ByAddress /\ m.node = Via[m.op] /\ By[m.op] \in contacts[m.node]
      BY <2>1 DEF WireInv, Concerns
    <2>3. m.node \in contacts'[By[m.op]]
      BY <1>6, <2>1, ContactAdded DEF ReceiveId, Received, Introduce
    <2>4. pc[m.op] = "ping" /\ pc' = [pc EXCEPT ![m.op] = "start"] /\ wire' \subseteq wire
      BY <1>6, <2>1 DEF ReceiveId, Awaited
    <2>5. BootInv'
      BY <1>grow, <2>1, <2>2, <2>3, <2>4 DEF BootInv, TypeInv
    <2>6. \A q \in Op : pc[q] \in {"lookup", "gather", "done"} =>
                           pc'[q] \in {"lookup", "gather", "done"}
      BY <2>4 DEF TypeInv
    <2> QED  BY <1>stay, <2>4, <2>5, <2>6 DEF WireInv
  <1>7. ASSUME NEW m \in wire, ReceiveNodes(m) PROVE BootInv' /\ WireInv'
    <2>1. m.op \in Op /\ m.node \in Node /\ m.list \in SUBSET Node
      BY <1>7, MessageTypes DEF ReceiveNodes, Received, TypeInv
    <2>2. pc' = pc /\ pc[m.op] = "lookup" /\ LookUpAnswered(m.op, m.node, m.list)
      BY <1>7 DEF ReceiveNodes, Awaited
    <2>3. asked' \in [Op -> SUBSET Node]
      BY <2>1, <2>2, AnswerMerged, NodeAssumption, AlphaAssumption
    <2>4. \A n \in wire' : n \in wire \/ (n.rpc = "find_node" /\ n.op = m.op)
      BY <1>7, <2>1, <2>3, RequestTypes DEF ReceiveNodes
    <2>5. BootInv'
      BY <1>boot, <2>2
    <2> QED  BY <1>stay, <2>2, <2>4, <2>5 DEF WireInv, Concerns
  <1>8. CASE pc' = pc /\ wire' \subseteq wire
    <2>1. BootInv'
      BY <1>boot, <1>8
    <2> QED  BY <1>stay, <1>8, <2>1 DEF WireInv
  <1> QED
    BY <1>1, <1>2, <1>3, <1>4, <1>5, <1>6, <1>7, <1>8
    DEF Next, Local, Timeout, LookUpTimesOut, LookUpFails, GatherFails, Receive,
        ReceiveValue, ReceiveUnawaited, Lose, Expire, Exit, Finished, vars

-----------------------------------------------------------------------------
(* Lookups that lose nothing.                                              *)

LEMMA LookInit == Init => LookInv
  BY DEF Init, LookInv, Undisturbed

LEMMA LookStep == TypeInv /\ BootInv /\ WireInv /\ LookInv /\ [Next]_vars => LookInv'
  <1> SUFFICES ASSUME TypeInv, BootInv, WireInv, LookInv, [Next]_vars PROVE LookInv'
    OBVIOUS
  <1> USE OpAssumption
  <1>grow. \A n \in Node : contacts[n] \subseteq contacts'[n]
    BY TablesGrow
  <1>same. ASSUME NEW q \in Op, Undisturbed(q)', pc'[q] = pc[q], ~disturbed[q],
                  found'[q] = found[q], asked'[q] = asked[q],
                  queued'[q] = queued[q], inflight'[q] = inflight[q]
           PROVE  LookOK(q)'
    <2>1. Undisturbed(q)
      BY <1>same DEF Undisturbed
    <2>2. LookOK(q) /\ asked[q] \subseteq Node /\ By[q] \in Node
      BY <2>1 DEF LookInv, TypeInv
    <2> QED  BY <1>same, <1>grow, <2>2 DEF LookOK
  <1>1. ASSUME NEW o \in Op, Begin(o) PROVE LookInv'
    <2>1. /\ pc' = [pc EXCEPT ![o] = "ping"] \/ pc' = [pc EXCEPT ![o] = "start"]
          /\ UNCHANGED <<found, asked, queued, inflight, disturbed>>
      BY <1>1 DEF Begin, JoinAddress, JoinNode, Put, Get, lookupVars
    <2> QED  BY <1>same, <2>1 DEF LookInv, Undisturbed, TypeInv
  <1>2. ASSUME NEW o \in Op, BeginLookUp(o) PROVE LookInv'
    <2>1. PICK initial \in kSubset(Least(Alpha, Cardinality(contacts[By[o]])), contacts[By[o]]) :
             /\ found' = [found EXCEPT ![o] = initial]
             /\ asked' = [asked EXCEPT ![o] = initial]
             /\ inflight' = [inflight EXCEPT ![o] = initial]
      BY <1>2 DEF BeginLookUp
    <2>2. /\ pc[o] = "start" /\ pc' = [pc EXCEPT ![o] = "lookup"]
          /\ UNCHANGED <<queued, disturbed>>
      BY <1>2 DEF BeginLookUp, historyVars
    <2>3. ASSUME Undisturbed(o)' PROVE LookOK(o)'
      <3>1. contacts[By[o]] # {} /\ contacts[By[o]] \in SUBSET Node
        BY <2>2, <2>3 DEF BootInv, Undisturbed, TypeInv
      <3>2. initial # {}
        BY <3>1, SomeInitial, NodeAssumption, AlphaAssumption
      <3>3. /\ found'[o] = initial /\ asked'[o] = initial /\ inflight'[o] = initial
            /\ queued'[o] = {} /\ pc'[o] = "lookup"
        BY <2>1, <2>2 DEF TypeInv
      <3> QED  BY <3>2, <3>3 DEF LookOK
    <2>4. \A q \in Op \ {o} : /\ found'[q] = found[q] /\ asked'[q] = asked[q]
                              /\ inflight'[q] = inflight[q] /\ pc'[q] = pc[q]
      BY <2>1, <2>2 DEF TypeInv
    <2>5. ASSUME NEW q \in Op \ {o}, Undisturbed(q)' PROVE LookOK(q)'
      <3>1. ~disturbed[q] /\ queued'[q] = queued[q]
        BY <2>2, <2>5 DEF Undisturbed
      <3> QED  BY <1>same, <2>4, <2>5, <3>1
    <2> QED  BY <2>3, <2>5 DEF LookInv
  <1>3. ASSUME NEW o \in Op, EndLookUp(o) PROVE LookInv'
    <2>1. /\ UNCHANGED <<contacts, found, asked, queued, disturbed>>
          /\ pc[o] = "lookup" /\ inflight[o] = {}
      BY <1>3 DEF EndLookUp, lookupVars, historyVars
    <2>2. /\ pc' = [pc EXCEPT ![o] = "done"] \/ pc' = [pc EXCEPT ![o] = "gather"]
          /\ \/ inflight' = inflight
             \/ Kind[o] = "get" /\ inflight' = [inflight EXCEPT ![o] = found[o]]
      <3>1. CASE Kind[o] = "join"
        BY <1>3, <3>1 DEF EndLookUp
      <3>2. CASE Kind[o] = "put"
        BY <1>3, <3>2 DEF EndLookUp
      <3>3. CASE Kind[o] = "get"
        BY <1>3, <3>3 DEF EndLookUp
      <3> QED  BY <3>1, <3>2, <3>3
    <2>3. ASSUME Undisturbed(o)' PROVE LookOK(o)'
      <3>1. inflight' = inflight
        BY <2>2, <2>3 DEF Undisturbed
      <3>2. LookOK(o)
        BY <2>1, <2>3 DEF LookInv, Undisturbed
      <3> QED  BY <2>1, <3>1, <3>2 DEF LookOK
    <2>4. ASSUME NEW q \in Op \ {o}, Undisturbed(q)' PROVE LookOK(q)'
      <3>1. pc'[q] = pc[q] /\ inflight'[q] = inflight[q] /\ ~disturbed[q]
        BY <2>1, <2>2, <2>4 DEF TypeInv, Undisturbed
      <3> QED  BY <1>same, <2>1, <2>4, <3>1
    <2> QED  BY <2>3, <2>4 DEF LookInv
  <1>4. ASSUME NEW o \in Op, EndGather(o) \/ PingFails(o) PROVE LookInv'
    <2>1. /\ UNCHANGED <<found, asked, queued, inflight, disturbed>>
          /\ \/ pc' = [pc EXCEPT ![o] = "failed"]
             \/ pc' = [pc EXCEPT ![o] = "done"] /\ Kind[o] = "get"
      BY <1>4 DEF EndGather, PingFails, lookupVars, historyVars, TypeInv
    <2> QED  BY <1>same, <2>1 DEF LookInv, Undisturbed, TypeInv
  <1>5. ASSUME NEW o \in Op, LookUpTimesOut(o) \/ \E n \in Node : LookUpFails(o, n)
        PROVE LookInv'
    <2>1. /\ UNCHANGED <<found, asked, queued, pc>>
          /\ disturbed' = [disturbed EXCEPT ![o] = TRUE]
          /\ \A q \in Op \ {o} : inflight'[q] = inflight[q]
      BY <1>5 DEF LookUpTimesOut, LookUpFails, lookupVars, TypeInv
    <2> QED  BY <1>same, <2>1 DEF LookInv, Undisturbed, TypeInv
  <1>6. ASSUME NEW o \in Op, Kind[o] = "get",
               UNCHANGED <<found, asked, queued, pc, disturbed>>,
               \A q \in Op \ {o} : inflight'[q] = inflight[q]
        PROVE LookInv'
    BY <1>6, <1>same DEF LookInv, Undisturbed
  <1>7. ASSUME NEW o \in Op, NEW n \in Node, GatherFails(o, n) PROVE LookInv'
    <2>1. Kind[o] = "get"
      BY <1>7 DEF GatherFails, TypeInv
    <2> QED  BY <1>6, <1>7, <2>1 DEF GatherFails, lookupVars, TypeInv
  <1>8. ASSUME NEW m \in wire, ReceiveId(m) PROVE LookInv'
    <2>1. /\ UNCHANGED <<found, asked, queued, inflight, disturbed>>
          /\ pc' = [pc EXCEPT ![m.op] = "start"]
      BY <1>8 DEF ReceiveId, Received, lookupVars, historyVars
    <2> QED  BY <1>same, <2>1 DEF LookInv, Undisturbed, TypeInv
  <1>9. ASSUME NEW m \in wire, ReceiveNodes(m) PROVE LookInv'
    <2>1. m.op \in Op /\ m.node \in Node /\ m.list \in SUBSET Node /\ By[m.op] \in Node
      BY <1>9, MessageTypes DEF ReceiveNodes, Received, TypeInv
    <2>2. /\ pc' = pc /\ pc[m.op] = "lookup" /\ LookUpAnswered(m.op, m.node, m.list)
          /\ UNCHANGED disturbed /\ m.rpc = "reply" /\ m.re = "find_node"
      BY <1>9 DEF ReceiveNodes, Received, Awaited, historyVars
    <2> DEFINE o == m.op
    <2>3. /\ \A q \in Op \ {o} : /\ found'[q] = found[q] /\ asked'[q] = asked[q]
                                 /\ queued'[q] = queued[q] /\ inflight'[q] = inflight[q]
          /\ found'[o] = found[o] \cup m.list
          /\ asked'[o] \cup queued'[o] = asked[o] \cup queued[o] \cup m.list
          /\ asked[o] \subseteq asked'[o]
          /\ asked'[o] \ inflight'[o] \subseteq (asked[o] \ inflight[o]) \cup {m.node}
          /\ inflight'[o] = {} => queued'[o] = {}
      BY <2>1, <2>2, AnswerMerged, NodeAssumption, AlphaAssumption
    <2>4. ASSUME Undisturbed(o)' PROVE LookOK(o)'
      <3>1. LookOK(o)
        BY <2>1, <2>2, <2>4 DEF LookInv, Undisturbed
      <3>2. /\ By[o] \in contacts'[m.node] /\ By[o] \in m.list
            /\ m.node = By[o] => Via[o] \in m.list
        BY <2>1, <2>2, <2>4, <1>grow DEF WireInv, Undisturbed
      <3>3. m.node \in contacts'[By[o]]
        BY <1>9, <2>1, ContactAdded DEF ReceiveNodes, Received, Introduce
      <3>4. ASSUME NEW n \in asked'[o] \ inflight'[o]
            PROVE  /\ By[o] \in contacts'[n] /\ n \in contacts'[By[o]]
                   /\ By[o] \in found'[o]
                   /\ n = By[o] => Via[o] \in found'[o]
        <4>1. CASE n = m.node
          BY <2>3, <3>2, <3>3, <4>1
        <4>2. CASE n \in asked[o] \ inflight[o]
          <5>1. n \in Node
            BY <2>1, <4>2 DEF TypeInv
          <5> QED  BY <1>grow, <2>1, <2>3, <3>1, <4>2, <5>1 DEF LookOK
        <4> QED  BY <2>3, <4>1, <4>2
      <3>5. pc'[o] # "done" /\ asked'[o] # {} /\ found'[o] = asked'[o] \cup queued'[o]
        BY <2>2, <2>3, <3>1 DEF LookOK
      <3> QED  BY <2>3, <3>4, <3>5 DEF LookOK
    <2>5. ASSUME NEW q \in Op \ {o}, Undisturbed(q)' PROVE LookOK(q)'
      <3>1. pc'[q] = pc[q] /\ ~disturbed[q]
        BY <2>2, <2>5 DEF Undisturbed
      <3> QED  BY <1>same, <2>3, <2>5, <3>1
    <2> HIDE DEF o
    <2> QED  BY <2>4, <2>5 DEF LookInv
  <1>10. ASSUME NEW m \in wire, ReceiveValue(m) PROVE LookInv'
    <2>1. m.op \in Op /\ Kind[m.op] = "get"
      BY <1>10, MessageTypes DEF ReceiveValue, Received, Awaited, TypeInv
    <2> QED  BY <1>6, <1>10, <2>1 DEF ReceiveValue, Received, lookupVars, historyVars, TypeInv
  <1>11. CASE UNCHANGED <<found, asked, queued, inflight, disturbed, pc>>
    BY <1>same, <1>11 DEF LookInv, Undisturbed
  <1> QED
    BY <1>1, <1>2, <1>3, <1>4, <1>5, <1>7, <1>8, <1>9, <1>10, <1>11
    DEF Next, Local, Timeout, Receive, ReceiveUnawaited, Received, Serve, Lose, Expire,
        Exit, Finished, vars, lookupVars, historyVars

\* A joiner that lost nothing has asked its bootstrap node, which knows it.
LEMMA JoinedFacts ==
    ASSUME LookInv, NEW o \in Op, Joined(o)
    PROVE  /\ LookOK(o) /\ inflight[o] = {} /\ found[o] = asked[o]
           /\ Via[o] \in asked[o] /\ By[o] \in contacts[Via[o]]
  <1>1. LookOK(o)
    BY DEF LookInv, Joined, Undisturbed
  <1>2. inflight[o] = {} /\ found[o] = asked[o]
    BY <1>1 DEF LookOK, Joined
  <1>3. By[o] \in asked[o]
    BY <1>1, <1>2 DEF LookOK
  <1>4. Via[o] \in asked[o]
    BY <1>1, <1>2, <1>3 DEF LookOK
  <1> QED  BY <1>1, <1>2, <1>4 DEF LookOK

\* The bootstrap node of a join by address that succeeded knows the joiner,
\* and so does that of any join whose lookup lost no query.
THEOREM JoinIsKnown == Spec => []JoinedIsKnown
  <1>1. BootInv /\ LookInv => JoinedIsKnown
    <2> SUFFICES ASSUME BootInv, LookInv, NEW o \in Op, Kind[o] = "join", pc[o] = "done",
                        o \in ByAddress \/ ~disturbed[o]
                 PROVE  By[o] \in contacts[Via[o]]
      BY DEF JoinedIsKnown
    <2>1. CASE o \in ByAddress
      BY <2>1 DEF BootInv
    <2>2. CASE ~disturbed[o]
      BY <2>2, JoinedFacts DEF Joined
    <2> QED  BY <2>1, <2>2
  <1> QED  BY <1>1, TypeInit, TypeStep, KnownInit, KnownStep, LookInit, LookStep, PTL DEF Spec

-----------------------------------------------------------------------------
(* Nodes that join through the same node.                                  *)

\* A list of nodes that its bootstrap node has sent to the lookup of i.
IsBootReply(m, i) ==
    m.rpc = "reply" /\ m.re = "find_node" /\ m.op = i /\ m.node = Via[i]

\* Whatever the bootstrap node of i has told it so far, it named the node of j.
Named(i, j) ==
    /\ \A m \in wire : IsBootReply(m, i) => By[j] \in m.list
    /\ Undisturbed(i) /\ Via[i] \in asked[i] \ inflight[i] => By[j] \in found[i]

Mates(i, j) ==
    Kind[i] = "join" /\ Kind[j] = "join" /\ Via[i] = Via[j] /\ By[i] # By[j]

\* Of two joins through one node, one has been told of the other by it, or has
\* not been answered.
MeetInv == \A i, j \in Op : Mates(i, j) => Named(i, j) \/ Named(j, i)

LEMMA MeetInit == Init => MeetInv
  BY DEF Init, MeetInv, Named

\* If the bootstrap node of i does not know the node of j, it has not answered j.
LEMMA UnknownUnanswered ==
    ASSUME TypeInv, WireInv, LookInv, NEW i \in Op, NEW j \in Op, Mates(i, j),
           By[j] \notin contacts[Via[i]]
    PROVE  Named(j, i)
  <1>1. ASSUME NEW m \in wire, IsBootReply(m, j) PROVE FALSE
    BY <1>1 DEF WireInv, IsBootReply, Mates
  <1>2. ASSUME Undisturbed(j), Via[j] \in asked[j] \ inflight[j] PROVE FALSE
    BY <1>2 DEF LookInv, LookOK, Mates
  <1> QED  BY <1>1, <1>2 DEF Named

\* Only an answer of the bootstrap node to i can be without the node of j, and
\* only if the bootstrap node does not know that.
LEMMA NamedStays ==
    ASSUME TypeInv, [Next]_vars, NEW i \in Op, NEW j \in Op, Mates(i, j), Named(i, j),
           \/ By[j] \in contacts[Via[i]]
           \/ \A m \in wire : ~Serve(m)
           \/ \E m \in wire : Serve(m) /\ m.op # i
    PROVE  Named(i, j)'
  <1> USE OpAssumption
  <1>join. Kind[i] = "join" /\ By[j] \in Node /\ Via[i] \in Node
    BY DEF Mates
  <1>grow. \A n \in Node : contacts[n] \subseteq contacts'[n]
    BY TablesGrow
  \* Steps that send no reply and do not touch the lookup of i.
  <1>same. ASSUME \A m \in wire' : m \in wire \/ m.rpc # "reply",
                  ~disturbed'[i] => ~disturbed[i],
                  pc'[i] \in {"lookup", "done"} => pc[i] \in {"lookup", "done"},
                  found'[i] = found[i], asked'[i] = asked[i], inflight'[i] = inflight[i]
           PROVE  Named(i, j)'
    BY <1>same DEF Named, IsBootReply, Undisturbed
  <1>1. ASSUME NEW o \in Op, Begin(o) PROVE Named(i, j)'
    <2>1. /\ pc[o] = "new"
          /\ pc' = [pc EXCEPT ![o] = "ping"] \/ pc' = [pc EXCEPT ![o] = "start"]
          /\ UNCHANGED <<found, asked, queued, inflight, disturbed>>
      BY <1>1 DEF Begin, JoinAddress, JoinNode, Put, Get, lookupVars
    <2>2. \A m \in wire' : m \in wire \/ m.rpc # "reply"
      BY <1>1, RequestTypes DEF Begin, JoinAddress, JoinNode, Put, Get
    <2> QED  BY <1>same, <2>1, <2>2 DEF TypeInv
  <1>2. ASSUME NEW o \in Op, BeginLookUp(o) PROVE Named(i, j)'
    <2>1. PICK initial \in SUBSET Node :
             /\ found' = [found EXCEPT ![o] = initial]
             /\ asked' = [asked EXCEPT ![o] = initial]
             /\ inflight' = [inflight EXCEPT ![o] = initial]
             /\ wire' = wire \cup Requests("find_node", o, initial)
      BY <1>2 DEF BeginLookUp, kSubset, TypeInv
    <2>2. pc' = [pc EXCEPT ![o] = "lookup"] /\ disturbed' = disturbed
      BY <1>2 DEF BeginLookUp, historyVars
    <2>3. \A m \in wire' : m \in wire \/ m.rpc # "reply"
      BY <2>1, RequestTypes
    <2>4. CASE o = i
      <3>1. asked'[i] \ inflight'[i] = {}
        BY <2>1, <2>4 DEF TypeInv
      <3> QED  BY <2>3, <3>1 DEF Named, IsBootReply
    <2>5. CASE o # i
      BY <1>same, <2>1, <2>2, <2>3, <2>5 DEF TypeInv
    <2> QED  BY <2>4, <2>5
  <1>3. ASSUME NEW o \in Op, EndLookUp(o) PROVE Named(i, j)'
    <2>1. /\ UNCHANGED <<found, asked, disturbed>> /\ pc[o] = "lookup"
          /\ found[o] \in SUBSET Node
      BY <1>3 DEF EndLookUp, lookupVars, historyVars, TypeInv
    <2>2. /\ \A m \in wire' : m \in wire \/ m.rpc # "reply"
          /\ pc' = [pc EXCEPT ![o] = "done"] \/ pc' = [pc EXCEPT ![o] = "gather"]
          /\ \/ inflight' = inflight
             \/ Kind[o] = "get" /\ inflight' = [inflight EXCEPT ![o] = found[o]]
      <3>1. CASE Kind[o] = "join"
        BY <1>3, <3>1 DEF EndLookUp
      <3>2. CASE Kind[o] = "put"
        BY <1>3, <3>2, <2>1, RequestTypes DEF EndLookUp
      <3>3. CASE Kind[o] = "get"
        BY <1>3, <3>3, <2>1, RequestTypes DEF EndLookUp
      <3> QED  BY <3>1, <3>2, <3>3
    <2>3. inflight'[i] = inflight[i]
      BY <1>join, <2>2 DEF TypeInv
    <2> QED  BY <1>same, <2>1, <2>2, <2>3 DEF TypeInv
  <1>4. ASSUME NEW o \in Op, EndGather(o) \/ PingFails(o) PROVE Named(i, j)'
    <2>1. /\ UNCHANGED <<wire, found, asked, inflight, disturbed>>
          /\ \/ pc' = [pc EXCEPT ![o] = "failed"]
             \/ pc[o] = "gather" /\ Kind[o] = "get" /\ pc' = [pc EXCEPT ![o] = "done"]
      BY <1>4 DEF EndGather, PingFails, lookupVars, historyVars, TypeInv
    <2> QED  BY <1>join, <1>same, <2>1 DEF TypeInv
  <1>5. ASSUME NEW o \in Op, LookUpTimesOut(o) \/ \E n \in Node : LookUpFails(o, n)
        PROVE Named(i, j)'
    <2>1. /\ UNCHANGED <<wire, found, asked, pc>>
          /\ disturbed' = [disturbed EXCEPT ![o] = TRUE]
          /\ \A q \in Op \ {o} : inflight'[q] = inflight[q]
      BY <1>5 DEF LookUpTimesOut, LookUpFails, lookupVars, TypeInv
    <2>2. CASE o = i
      <3>1. ~Undisturbed(i)'
        BY <2>1, <2>2 DEF Undisturbed, TypeInv
      <3> QED  BY <2>1, <3>1 DEF Named
    <2>3. CASE o # i
      BY <1>same, <2>1, <2>3 DEF TypeInv
    <2> QED  BY <2>2, <2>3
  <1>6. ASSUME NEW o \in Op, NEW n \in Node, GatherFails(o, n) PROVE Named(i, j)'
    <2>1. o # i /\ UNCHANGED <<wire, found, asked, pc, disturbed>>
      BY <1>6, <1>join DEF GatherFails, lookupVars, TypeInv
    <2>2. inflight'[i] = inflight[i]
      BY <1>6, <2>1 DEF GatherFails, TypeInv
    <2> QED  BY <1>same, <2>1, <2>2
  <1>7. ASSUME NEW m \in wire, Serve(m) PROVE Named(i, j)'
    <2>1. m \in RequestMsg /\ m.op \in Op /\ m.node \in Node /\ By[m.op] \in Node
      BY <1>7, MessageTypes DEF Serve, TypeInv
    <2> DEFINE r == Reply(m, Closest(m), HasValue(m))
    <2>2. contacts' \in [Node -> SUBSET Node]
      BY <1>7, <2>1, ContactAdded DEF Serve, Introduce
    <2>3. Closest(m) \in SUBSET Node /\ HasValue(m) \in BOOLEAN
      BY <2>1, <2>2 DEF Closest, HasValue
    <2>4. r.re = m.rpc /\ r.op = m.op /\ r.node = m.node /\ r.list = Closest(m)
      BY <2>1, <2>3, ReplyTypes
    <2>5. \A n \in wire' : n \in wire \/ n = r
      BY <1>7 DEF Serve
    <2>6. UNCHANGED <<pc, found, asked, inflight, disturbed>>
      BY <1>7 DEF Serve, lookupVars, historyVars
    <2>7. IsBootReply(r, i) => By[j] \in r.list
      <3>1. CASE By[j] \in contacts[Via[i]]
        BY <1>grow, <1>join, <2>4, <3>1 DEF IsBootReply, Closest
      <3>2. CASE \E n \in wire : Serve(n) /\ n.op # i
        \* This step then serves n, and m is still on its way.
        <4>1. PICK n \in wire : Serve(n) /\ n.op # i
          BY <3>2
        <4>2. CASE n = m
          BY <2>4, <4>1, <4>2 DEF IsBootReply
        <4>3. CASE n # m
          <5>1. m \in wire'
            BY <4>1, <4>3 DEF Serve
          <5>2. m = r
            BY <1>7, <5>1 DEF Serve
          <5> QED  BY <1>7, <2>1, <2>3, <5>2, ReplyTypes DEF Serve
        <4> QED  BY <4>2, <4>3
      <3>3. CASE \A n \in wire : ~Serve(n)
        BY <1>7, <3>3
      <3> QED  BY <3>1, <3>2, <3>3
    <2> QED  BY <2>5, <2>6, <2>7 DEF Named, Undisturbed
  <1>8. ASSUME NEW m \in wire, ReceiveId(m) PROVE Named(i, j)'
    <2>1. /\ UNCHANGED <<found, asked, inflight, disturbed>> /\ wire' \subseteq wire
          /\ pc' = [pc EXCEPT ![m.op] = "start"]
      BY <1>8 DEF ReceiveId, Received, lookupVars, historyVars
    <2> QED  BY <1>same, <2>1 DEF TypeInv
  <1>9. ASSUME NEW m \in wire, ReceiveNodes(m) PROVE Named(i, j)'
    <2>1. m.op \in Op /\ m.node \in Node /\ m.list \in SUBSET Node
      BY <1>9, MessageTypes DEF ReceiveNodes, Received, TypeInv
    <2>2. /\ pc' = pc /\ LookUpAnswered(m.op, m.node, m.list)
          /\ UNCHANGED disturbed /\ m.rpc = "reply" /\ m.re = "find_node"
      BY <1>9 DEF ReceiveNodes, Received, historyVars
    <2>3. /\ asked' \in [Op -> SUBSET Node]
          /\ \A q \in Op \ {m.op} : /\ found'[q] = found[q] /\ asked'[q] = asked[q]
                                    /\ inflight'[q] = inflight[q]
          /\ found'[m.op] = found[m.op] \cup m.list
          /\ asked'[m.op] \ inflight'[m.op] \subseteq (asked[m.op] \ inflight[m.op]) \cup {m.node}
      BY <2>1, <2>2, AnswerMerged, NodeAssumption, AlphaAssumption
    <2>4. \A n \in wire' : n \in wire \/ n.rpc # "reply"
      BY <1>9, <2>1, <2>3, RequestTypes DEF ReceiveNodes
    <2>5. CASE m.op # i
      BY <1>same, <2>2, <2>3, <2>4, <2>5
    <2>6. CASE m.op = i
      <3>1. ASSUME Undisturbed(i)', Via[i] \in asked'[i] \ inflight'[i]
            PROVE  By[j] \in found'[i]
        <4>1. CASE m.node = Via[i]
          <5>1. IsBootReply(m, i)
            BY <2>2, <2>6, <4>1 DEF IsBootReply
          <5> QED  BY <2>3, <2>6, <5>1 DEF Named
        <4>2. CASE m.node # Via[i]
          <5>1. Via[i] \in asked[i] \ inflight[i] /\ Undisturbed(i)
            BY <2>2, <2>3, <2>6, <3>1, <4>2 DEF Undisturbed
          <5> QED  BY <2>3, <2>6, <5>1 DEF Named
        <4> QED  BY <4>1, <4>2
      <3> QED  BY <2>4, <3>1 DEF Named, IsBootReply
    <2> QED  BY <2>5, <2>6
  <1>10. ASSUME NEW m \in wire, ReceiveValue(m) PROVE Named(i, j)'
    <2>1. m.op # i /\ UNCHANGED <<found, asked, pc, disturbed>> /\ wire' \subseteq wire
      BY <1>10, <1>join
      DEF ReceiveValue, Received, Awaited, lookupVars, historyVars, TypeInv
    <2>2. inflight'[i] = inflight[i]
      BY <1>10, <2>1 DEF ReceiveValue, TypeInv
    <2> QED  BY <1>same, <2>1, <2>2
  <1>11. CASE UNCHANGED <<found, asked, inflight, disturbed, pc>> /\ wire' \subseteq wire
    BY <1>same, <1>11
  <1> QED
    BY <1>1, <1>2, <1>3, <1>4, <1>5, <1>6, <1>7, <1>8, <1>9, <1>10, <1>11
    DEF Next, Local, Timeout, Receive, ReceiveUnawaited, Received, Lose, Expire,
        Exit, Finished, vars, lookupVars, historyVars

LEMMA MeetStep ==
    TypeInv /\ WireInv /\ LookInv /\ MeetInv /\ [Next]_vars => MeetInv'
  <1> SUFFICES ASSUME TypeInv, WireInv, LookInv, MeetInv, [Next]_vars PROVE MeetInv'
    OBVIOUS
  <1>1. ASSUME NEW i \in Op, NEW j \in Op, Mates(i, j), Named(i, j)
        PROVE  Named(i, j)' \/ Named(j, i)'
    <2>1. CASE By[j] \in contacts[Via[i]]
      BY <1>1, <2>1, NamedStays
    <2>2. CASE By[j] \notin contacts[Via[i]]
      <3>1. Named(j, i) /\ Mates(j, i)
        BY <1>1, <2>2, UnknownUnanswered DEF Mates
      <3>2. CASE \A m \in wire : ~Serve(m)
        BY <1>1, <3>2, NamedStays
      <3>3. ASSUME NEW m \in wire, Serve(m) PROVE Named(i, j)' \/ Named(j, i)'
        <4>1. CASE m.op # i
          BY <1>1, <3>3, <4>1, NamedStays
        <4>2. CASE m.op = i
          <5>1. m.op # j
            BY <1>1, <4>2 DEF Mates
          <5> QED  BY <3>1, <3>3, <5>1, NamedStays
        <4> QED  BY <4>1, <4>2
      <3> QED  BY <3>2, <3>3
    <2> QED  BY <2>1, <2>2
  <1>2. ASSUME NEW i \in Op, NEW j \in Op, Mates(i, j)
        PROVE  Named(i, j)' \/ Named(j, i)'
    <2>1. Mates(j, i)
      BY <1>2 DEF Mates
    <2> QED  BY <1>1, <1>2, <2>1 DEF MeetInv
  <1> QED  BY <1>2 DEF MeetInv, Mates

\* Nodes that join through the same node know each other when both have joined
\* and lost no query, for any number of overlapping operations.
THEOREM JoinersDoMeet == Spec => []JoinersMeet
  <1>1. ASSUME LookInv, MeetInv PROVE JoinersMeet
    <2>1. ASSUME NEW i \in Op, NEW j \in Op, Joined(i), Joined(j), Mates(i, j), Named(i, j)
          PROVE  By[i] \in contacts[By[j]] /\ By[j] \in contacts[By[i]]
      <3>1. Undisturbed(i)
        BY <2>1 DEF Joined, Undisturbed
      <3>2. LookOK(i) /\ inflight[i] = {} /\ found[i] = asked[i] /\ Via[i] \in asked[i]
        BY <1>1, <2>1, JoinedFacts
      <3>3. By[j] \in asked[i] \ inflight[i]
        BY <2>1, <3>1, <3>2 DEF Named
      <3> QED  BY <3>2, <3>3 DEF LookOK
    <2> SUFFICES ASSUME NEW i \in Op, NEW j \in Op, Joined(i), Joined(j),
                        Via[i] = Via[j], By[i] # By[j]
                 PROVE  By[i] \in contacts[By[j]]
      BY DEF JoinersMeet
    <2>2. Mates(i, j) /\ Mates(j, i)
      BY DEF Mates, Joined
    <2> QED  BY <1>1, <2>1, <2>2 DEF MeetInv
  <1>2. TypeInv /\ WireInv /\ LookInv /\ MeetInv => JoinersMeet
    BY <1>1
  <1> QED
    BY <1>2, TypeInit, TypeStep, KnownInit, KnownStep, LookInit, LookStep, MeetInit,
       MeetStep, PTL DEF Spec
-----------------------------------------------------------------------------
(* What lookups keep, and the answers a get collects.                      *)

Answer == [from : Node, has : BOOLEAN]

\* The nodes whose answer has been collected.
Answered(o) == {results[o][i].from : i \in DOMAIN results[o]}

\* No message is on its way to a node that has exited.
ClosedInv ==
    /\ stored \subseteq Node /\ closed \subseteq Mortal
    /\ \A m \in wire : Receiver(m) \notin closed

SetsOK(o) ==
    /\ inflight[o] \subseteq found[o] /\ asked[o] \subseteq found[o]
    /\ queued[o] \subseteq found[o] /\ queued[o] \cap asked[o] = {}
    /\ pc[o] = "lookup" => Cardinality(inflight[o]) <= Alpha

\* A get collects one answer from each node it found, and returns with all.
ResultsOK(o) ==
    /\ pc[o] \notin {"gather", "done"} => results[o] = <<>>
    /\ \A i, j \in DOMAIN results[o] : results[o][i].from = results[o][j].from => i = j
    /\ Kind[o] = "get" /\ pc[o] \in {"gather", "done"} =>
         Answered(o) = found[o] \ inflight[o]
    /\ Kind[o] = "get" /\ pc[o] = "done" => Len(results[o]) = Cardinality(found[o])

ResultsInv ==
    /\ results \in [Op -> Seq(Answer)]
    /\ \A o \in Op : SetsOK(o) /\ ResultsOK(o)

\* The bounds of the sets after an answer was merged.
LEMMA AnswerBounded ==
    ASSUME TypeInv, NodeAssumption, AlphaAssumption, NEW o \in Op, NEW n \in Node,
           NEW list \in SUBSET Node, LookUpAnswered(o, n, list), SetsOK(o)
    PROVE  /\ inflight'[o] \subseteq found'[o] /\ asked'[o] \subseteq found'[o]
           /\ queued'[o] \subseteq found'[o] /\ queued'[o] \cap asked'[o] = {}
           /\ Cardinality(inflight[o]) <= Alpha => Cardinality(inflight'[o]) <= Alpha
  <1> DEFINE waiting == inflight[o] \ {n}
             unprobed == (queued[o] \cup list) \ asked[o]
             slots == Least(Alpha - Cardinality(waiting), Cardinality(unprobed))
  <1>1. PICK next \in kSubset(slots, unprobed) :
             /\ asked' = [asked EXCEPT ![o] = @ \cup next]
             /\ inflight' = [inflight EXCEPT ![o] = waiting \cup next]
             /\ queued' = [queued EXCEPT ![o] = unprobed \ next]
    BY DEF LookUpAnswered
  <1>2. next \subseteq unprobed /\ Cardinality(next) = slots
    BY DEF kSubset
  <1>3. found' = [found EXCEPT ![o] = @ \cup list]
    BY DEF LookUpAnswered
  <1>4. unprobed \subseteq Node /\ waiting \subseteq Node
    BY DEF TypeInv
  <1>5. ASSUME Cardinality(inflight[o]) <= Alpha PROVE Cardinality(waiting \cup next) <= Alpha
    <2>1. IsFiniteSet(waiting) /\ IsFiniteSet(unprobed) /\ IsFiniteSet(next)
      BY <1>2, <1>4, FS_Subset DEF NodeAssumption
    <2>2. /\ Cardinality(waiting) \in Nat /\ Cardinality(unprobed) \in Nat
          /\ Cardinality(next) \in Nat /\ Cardinality(waiting \cap next) \in Nat
      <3>1. IsFiniteSet(waiting \cap next)
        BY <2>1, FS_Subset
      <3> QED  BY <2>1, <3>1, FS_CardinalityType
    <2>3. Cardinality(waiting \cup next) =
            Cardinality(waiting) + Cardinality(next) - Cardinality(waiting \cap next)
      BY <2>1, FS_Union
    <2>4. slots <= Alpha - Cardinality(waiting)
      BY <2>2 DEF Least, AlphaAssumption
    <2> QED  BY <1>2, <2>2, <2>3, <2>4 DEF AlphaAssumption
  <1> HIDE DEF slots
  <1>6. inflight'[o] = waiting \cup next
    BY <1>1 DEF TypeInv
  <1> QED  BY <1>1, <1>2, <1>3, <1>5, <1>6 DEF TypeInv, SetsOK

\* One more answer is collected, of a node that was waited for.
LEMMA AnswerCollected ==
    ASSUME TypeInv, ResultsInv, NEW o \in Op, NEW n \in inflight[o], NEW has \in BOOLEAN,
           pc[o] = "gather", results' = [results EXCEPT ![o] = Collected(o, n, has)],
           inflight' = [inflight EXCEPT ![o] = @ \ {n}],
           UNCHANGED <<pc, found, asked, queued>>
    PROVE  ResultsInv'
  <1> DEFINE r == [from |-> n, has |-> has]
             s == results[o]
  <1>1. r \in Answer /\ s \in Seq(Answer)
    BY DEF TypeInv, ResultsInv, Answer
  <1>2. results' = [results EXCEPT ![o] = Append(s, r)]
    BY DEF Collected
  <1>3. results' \in [Op -> Seq(Answer)]
    <2>1. Append(s, r) \in Seq(Answer) /\ results \in [Op -> Seq(Answer)]
      BY <1>1 DEF ResultsInv
    <2> HIDE DEF s, r
    <2> QED  BY <1>2, <2>1
  <1>4. /\ results'[o] = Append(s, r) /\ inflight'[o] = inflight[o] \ {n}
        /\ \A q \in Op \ {o} : results'[q] = results[q] /\ inflight'[q] = inflight[q]
    BY <1>2 DEF ResultsInv, TypeInv
  <1>5. Kind[o] = "get" /\ SetsOK(o) /\ ResultsOK(o)
    BY DEF TypeInv, ResultsInv
  <1>6. /\ DOMAIN Append(s, r) = DOMAIN s \cup {Len(s) + 1}
        /\ Append(s, r)[Len(s) + 1] = r
        /\ \A i \in DOMAIN s : i # Len(s) + 1 /\ Append(s, r)[i] = s[i]
    BY <1>1
  <1>7. n \in found[o] /\ n \notin Answered(o) /\ Answered(o) = found[o] \ inflight[o]
    BY <1>5 DEF SetsOK, ResultsOK
  <1>8. Answered(o)' = Answered(o) \cup {n}
    BY <1>4, <1>6 DEF Answered
  <1>9. \A i, j \in DOMAIN results'[o] :
          results'[o][i].from = results'[o][j].from => i = j
    <2>1. \A i \in DOMAIN s : s[i].from # n
      BY <1>7 DEF Answered
    <2>2. \A i, j \in DOMAIN s : s[i].from = s[j].from => i = j
      BY <1>5 DEF ResultsOK
    <2> HIDE DEF s
    <2> QED  BY <1>4, <1>6, <2>1, <2>2
  <1>10. SetsOK(o)'
    BY <1>4, <1>5 DEF SetsOK
  <1>11. ResultsOK(o)'
    BY <1>4, <1>7, <1>8, <1>9 DEF ResultsOK
  <1>12. ASSUME NEW q \in Op \ {o} PROVE SetsOK(q)' /\ ResultsOK(q)'
    BY <1>4 DEF ResultsInv, SetsOK, ResultsOK, Answered
  <1> QED  BY <1>3, <1>10, <1>11, <1>12 DEF ResultsInv

LEMMA ResultsInit == Init => ResultsInv /\ ClosedInv
  <1> SUFFICES ASSUME Init PROVE ResultsInv /\ ClosedInv
    OBVIOUS
  <1>1. Cardinality({}) = 0
    BY FS_EmptySet
  <1> QED  BY <1>1 DEF Init, ResultsInv, SetsOK, ResultsOK, ClosedInv

LEMMA ClosedStep == TypeInv /\ ClosedInv /\ [Next]_vars => ClosedInv'
  <1> SUFFICES ASSUME TypeInv, ClosedInv, [Next]_vars PROVE ClosedInv'
    OBVIOUS
  <1> USE OpAssumption
  <1>1. ASSUME UNCHANGED <<stored, closed>>,
               \A m \in wire' : m \in wire \/ Receiver(m) \notin closed
        PROVE  ClosedInv'
    BY <1>1 DEF ClosedInv, Receiver
  <1>2. ASSUME NEW rpc \in {"ping", "find_node", "find_value", "store"}, NEW o \in Op,
               NEW nodes \in SUBSET Node, NEW m \in Requests(rpc, o, nodes)
        PROVE  Receiver(m) \notin closed
    BY <1>2 DEF Requests, Receiver
  <1>3. ASSUME NEW o \in Op, Begin(o) PROVE ClosedInv'
    BY <1>1, <1>2, <1>3 DEF Begin, JoinAddress, JoinNode, Put, Get
  <1>4. ASSUME NEW o \in Op, BeginLookUp(o) PROVE ClosedInv'
    <2>1. PICK initial \in SUBSET Node :
             wire' = wire \cup Requests("find_node", o, initial)
      BY <1>4 DEF BeginLookUp, kSubset, TypeInv
    <2> QED  BY <1>1, <1>2, <1>4, <2>1 DEF BeginLookUp
  <1>5. ASSUME NEW o \in Op, EndLookUp(o) PROVE ClosedInv'
    <2>1. found[o] \in SUBSET Node
      BY DEF TypeInv
    <2>2. \A m \in wire' : m \in wire \/ Receiver(m) \notin closed
      <3>1. CASE Kind[o] = "join"
        BY <1>5, <3>1 DEF EndLookUp
      <3>2. CASE Kind[o] = "put"
        BY <1>2, <1>5, <2>1, <3>2 DEF EndLookUp
      <3>3. CASE Kind[o] = "get"
        BY <1>2, <1>5, <2>1, <3>3 DEF EndLookUp
      <3> QED  BY <3>1, <3>2, <3>3
    <2> QED  BY <1>1, <1>5, <2>2 DEF EndLookUp
  <1>6. ASSUME NEW m \in wire, Serve(m) PROVE ClosedInv'
    <2>1. m \in RequestMsg /\ m.op \in Op /\ m.node \in Node
      BY <1>6, MessageTypes DEF Serve, TypeInv
    <2>2. contacts' \in [Node -> SUBSET Node]
      BY <1>6, <2>1, ContactAdded DEF Serve, Introduce
    <2>3. Closest(m) \in SUBSET Node /\ HasValue(m) \in BOOLEAN
      BY <2>1, <2>2 DEF Closest, HasValue
    <2>4. Receiver(Reply(m, Closest(m), HasValue(m))) = By[m.op]
      BY <2>1, <2>3, ReplyTypes DEF Receiver
    <2>5. \A n \in wire' : n \in wire \/ Receiver(n) \notin closed
      BY <1>6, <2>4 DEF Serve
    <2>6. stored' \subseteq Node /\ closed' = closed
      BY <1>6, <2>1 DEF Serve, Store, ClosedInv
    <2> QED  BY <2>5, <2>6 DEF ClosedInv, Receiver
  <1>7. ASSUME NEW m \in wire, Receive(m) PROVE ClosedInv'
    <2>1. m.op \in Op /\ m.node \in Node /\ m.list \in SUBSET Node
      BY <1>7, MessageTypes
      DEF Receive, ReceiveId, ReceiveNodes, ReceiveValue, ReceiveUnawaited, Received, TypeInv
    <2>2. CASE ReceiveNodes(m)
      <3>1. asked' \in [Op -> SUBSET Node]
        BY <2>1, <2>2, AnswerMerged, NodeAssumption, AlphaAssumption DEF ReceiveNodes
      <3> QED  BY <1>1, <1>2, <2>1, <2>2, <3>1 DEF ReceiveNodes, Received
    <2>3. CASE ReceiveId(m) \/ ReceiveValue(m) \/ ReceiveUnawaited(m)
      BY <1>1, <2>3 DEF ReceiveId, ReceiveValue, ReceiveUnawaited, Received
    <2> QED  BY <1>7, <2>2, <2>3 DEF Receive
  <1>8. ASSUME NEW n \in Node, Expire(n) \/ Exit(n) PROVE ClosedInv'
    BY <1>8 DEF Expire, Exit, ClosedInv, Receiver
  <1>9. CASE UNCHANGED <<stored, closed>> /\ wire' \subseteq wire
    BY <1>1, <1>9
  <1> QED
    BY <1>3, <1>4, <1>5, <1>6, <1>7, <1>8, <1>9
    DEF Next, Local, Timeout, EndGather, PingFails, LookUpTimesOut, LookUpFails,
        GatherFails, Lose, Finished, vars

LEMMA ResultsStep == TypeInv /\ ResultsInv /\ [Next]_vars => ResultsInv'
  <1> SUFFICES ASSUME TypeInv, ResultsInv, [Next]_vars PROVE ResultsInv'
    OBVIOUS
  <1> USE OpAssumption
  <1>same. ASSUME NEW q \in Op, found'[q] = found[q], asked'[q] = asked[q],
                  queued'[q] = queued[q], inflight'[q] = inflight[q],
                  results'[q] = results[q],
                  \/ pc'[q] = pc[q]
                  \/ pc'[q] \in {"ping", "start", "failed"} /\ pc[q] \notin {"gather", "done"}
                  \/ Kind[q] # "get" /\ pc'[q] # "lookup"
                       /\ (pc'[q] \in {"gather", "done"} \/ pc[q] \notin {"gather", "done"})
           PROVE  SetsOK(q)' /\ ResultsOK(q)'
    BY <1>same DEF ResultsInv, SetsOK, ResultsOK, Answered
  <1>typed. results' = results => results' \in [Op -> Seq(Answer)]
    BY DEF ResultsInv
  <1>1. ASSUME NEW o \in Op, Begin(o) PROVE ResultsInv'
    <2>1. /\ pc[o] = "new" /\ UNCHANGED <<found, asked, queued, inflight, results>>
          /\ pc' = [pc EXCEPT ![o] = "ping"] \/ pc' = [pc EXCEPT ![o] = "start"]
      BY <1>1 DEF Begin, JoinAddress, JoinNode, Put, Get, lookupVars
    <2> QED  BY <1>same, <1>typed, <2>1 DEF ResultsInv, TypeInv
  <1>2. ASSUME NEW o \in Op, BeginLookUp(o) PROVE ResultsInv'
    <2>1. PICK initial \in kSubset(Least(Alpha, Cardinality(contacts[By[o]])), contacts[By[o]]) :
             /\ found' = [found EXCEPT ![o] = initial]
             /\ asked' = [asked EXCEPT ![o] = initial]
             /\ inflight' = [inflight EXCEPT ![o] = initial]
      BY <1>2 DEF BeginLookUp
    <2>2. /\ pc[o] = "start" /\ pc' = [pc EXCEPT ![o] = "lookup"]
          /\ UNCHANGED <<queued, results>>
      BY <1>2 DEF BeginLookUp
    <2>3. Cardinality(initial) <= Alpha
      <3>1. IsFiniteSet(contacts[By[o]])
        BY FS_Subset, NodeAssumption DEF NodeAssumption, TypeInv
      <3>2. Cardinality(contacts[By[o]]) \in Nat
        BY <3>1, FS_CardinalityType
      <3>3. Cardinality(initial) = Least(Alpha, Cardinality(contacts[By[o]]))
        BY DEF kSubset
      <3> QED  BY <3>2, <3>3, AlphaAssumption DEF Least, AlphaAssumption
    <2>4. /\ found'[o] = initial /\ asked'[o] = initial /\ inflight'[o] = initial
          /\ queued'[o] = {} /\ pc'[o] = "lookup" /\ results'[o] = <<>>
      BY <2>1, <2>2 DEF TypeInv, ResultsInv, ResultsOK
    <2>5. SetsOK(o)' /\ ResultsOK(o)'
      BY <2>3, <2>4 DEF SetsOK, ResultsOK
    <2>6. ASSUME NEW q \in Op \ {o} PROVE SetsOK(q)' /\ ResultsOK(q)'
      BY <1>same, <2>1, <2>2 DEF TypeInv
    <2> QED  BY <1>typed, <2>2, <2>5, <2>6 DEF ResultsInv
  <1>3. ASSUME NEW o \in Op, EndLookUp(o) PROVE ResultsInv'
    <2>1. /\ UNCHANGED <<found, asked, queued, results>> /\ pc[o] = "lookup"
      BY <1>3 DEF EndLookUp, lookupVars
    <2>2. results[o] = <<>> /\ SetsOK(o)
      BY <2>1 DEF ResultsInv, ResultsOK
    <2>3. CASE Kind[o] # "get"
      <3>1. pc' = [pc EXCEPT ![o] = "done"] /\ inflight' = inflight
        BY <1>3, <2>3 DEF EndLookUp
      <3> QED  BY <1>same, <1>typed, <2>1, <2>3, <3>1 DEF ResultsInv, TypeInv
    <2>4. CASE Kind[o] = "get"
      <3>1. /\ pc' = [pc EXCEPT ![o] = "gather"]
            /\ inflight' = [inflight EXCEPT ![o] = found[o]]
        BY <1>3, <2>4 DEF EndLookUp
      <3>2. pc'[o] = "gather" /\ inflight'[o] = found'[o] /\ results'[o] = <<>>
        BY <2>1, <2>2, <3>1 DEF TypeInv
      <3>3. Answered(o)' = {}
        BY <3>2 DEF Answered
      <3>4. SetsOK(o)' /\ ResultsOK(o)'
        BY <2>1, <2>2, <3>2, <3>3 DEF SetsOK, ResultsOK
      <3>5. ASSUME NEW q \in Op \ {o} PROVE SetsOK(q)' /\ ResultsOK(q)'
        BY <1>same, <2>1, <3>1 DEF TypeInv
      <3> QED  BY <1>typed, <2>1, <3>4, <3>5 DEF ResultsInv
    <2> QED  BY <2>3, <2>4
  <1>4. ASSUME NEW o \in Op, EndGather(o) PROVE ResultsInv'
    <2>1. /\ UNCHANGED <<found, asked, queued, inflight, results>> /\ pc[o] = "gather"
          /\ pc' = [pc EXCEPT ![o] = "done"] /\ Len(results[o]) = Cardinality(found[o])
      BY <1>4 DEF EndGather, lookupVars
    <2>2. SetsOK(o)' /\ ResultsOK(o)'
      <3>1. pc'[o] = "done" /\ Answered(o)' = Answered(o)
        BY <2>1 DEF Answered, TypeInv
      <3>2. SetsOK(o) /\ ResultsOK(o)
        BY DEF ResultsInv
      <3> QED  BY <2>1, <3>1, <3>2 DEF SetsOK, ResultsOK
    <2>3. ASSUME NEW q \in Op \ {o} PROVE SetsOK(q)' /\ ResultsOK(q)'
      BY <1>same, <2>1 DEF TypeInv
    <2> QED  BY <1>typed, <2>1, <2>2, <2>3 DEF ResultsInv
  <1>5. ASSUME NEW o \in Op, PingFails(o) PROVE ResultsInv'
    <2>1. /\ UNCHANGED <<found, asked, queued, inflight, results>> /\ pc[o] = "ping"
          /\ pc' = [pc EXCEPT ![o] = "failed"]
      BY <1>5 DEF PingFails, lookupVars
    <2> QED  BY <1>same, <1>typed, <2>1 DEF ResultsInv, TypeInv
  <1>6. ASSUME NEW o \in Op, UNCHANGED <<found, asked, queued, results, pc>>,
               NEW S \in SUBSET inflight[o], pc[o] = "lookup",
               inflight' = [inflight EXCEPT ![o] = S]
        PROVE  ResultsInv'
    <2>1. SetsOK(o) /\ inflight'[o] = S
      BY <1>6 DEF ResultsInv, TypeInv
    <2>2. Cardinality(S) <= Alpha
      <3>1. IsFiniteSet(inflight[o])
        BY FS_Subset, NodeAssumption DEF NodeAssumption, TypeInv
      <3>2. /\ Cardinality(S) \in Nat /\ Cardinality(inflight[o]) \in Nat
            /\ Cardinality(S) <= Cardinality(inflight[o])
        BY <3>1, FS_Subset, FS_CardinalityType
      <3> QED  BY <1>6, <2>1, <3>2, AlphaAssumption DEF SetsOK, AlphaAssumption
    <2>3. SetsOK(o)' /\ ResultsOK(o)'
      BY <1>6, <2>1, <2>2 DEF SetsOK, ResultsOK, ResultsInv
    <2>4. ASSUME NEW q \in Op \ {o} PROVE SetsOK(q)' /\ ResultsOK(q)'
      BY <1>same, <1>6 DEF TypeInv
    <2> QED  BY <1>typed, <1>6, <2>3, <2>4 DEF ResultsInv
  <1>7. ASSUME NEW o \in Op, LookUpTimesOut(o) \/ \E n \in Node : LookUpFails(o, n)
        PROVE  ResultsInv'
    BY <1>6, <1>7 DEF LookUpTimesOut, LookUpFails, lookupVars
  <1>8. ASSUME NEW o \in Op, NEW n \in Node, GatherFails(o, n) PROVE ResultsInv'
    BY <1>8, AnswerCollected DEF GatherFails, lookupVars
  <1>9. ASSUME NEW m \in wire, ReceiveId(m) PROVE ResultsInv'
    <2>1. /\ UNCHANGED <<found, asked, queued, inflight, results>> /\ pc[m.op] = "ping"
          /\ pc' = [pc EXCEPT ![m.op] = "start"]
      BY <1>9 DEF ReceiveId, Awaited, lookupVars
    <2> QED  BY <1>same, <1>typed, <2>1 DEF ResultsInv, TypeInv
  <1>10. ASSUME NEW m \in wire, ReceiveNodes(m) PROVE ResultsInv'
    <2>1. m.op \in Op /\ m.node \in Node /\ m.list \in SUBSET Node
      BY <1>10, MessageTypes DEF ReceiveNodes, Received, TypeInv
    <2>2. /\ pc' = pc /\ pc[m.op] = "lookup" /\ LookUpAnswered(m.op, m.node, m.list)
          /\ UNCHANGED results
      BY <1>10 DEF ReceiveNodes, Received, Awaited
    <2>3. SetsOK(m.op) /\ ResultsOK(m.op)
      BY <2>1 DEF ResultsInv
    <2>4. SetsOK(m.op)'
      BY <2>1, <2>2, <2>3, AnswerBounded, NodeAssumption, AlphaAssumption DEF SetsOK
    <2>5. ResultsOK(m.op)'
      BY <2>2, <2>3 DEF ResultsOK
    <2>6. \A q \in Op \ {m.op} : /\ found'[q] = found[q] /\ asked'[q] = asked[q]
                                 /\ queued'[q] = queued[q] /\ inflight'[q] = inflight[q]
      BY <2>1, <2>2, AnswerMerged, NodeAssumption, AlphaAssumption
    <2>7. ASSUME NEW q \in Op \ {m.op} PROVE SetsOK(q)' /\ ResultsOK(q)'
      BY <1>same, <2>2, <2>6
    <2> QED  BY <1>typed, <2>2, <2>4, <2>5, <2>7 DEF ResultsInv
  <1>11. ASSUME NEW m \in wire, ReceiveValue(m) PROVE ResultsInv'
    <2>1. m \in ReplyMsg /\ m.op \in Op
      BY <1>11, MessageTypes DEF ReceiveValue, Received, TypeInv
    <2>2. m.has \in BOOLEAN
      BY <2>1 DEF ReplyMsg
    <2> QED  BY <1>11, <2>1, <2>2, AnswerCollected DEF ReceiveValue, Received, Awaited, lookupVars
  <1>12. CASE UNCHANGED <<found, asked, queued, inflight, results, pc>>
    BY <1>same, <1>typed, <1>12 DEF ResultsInv
  <1> QED
    BY <1>1, <1>2, <1>3, <1>4, <1>5, <1>7, <1>8, <1>9, <1>10, <1>11, <1>12
    DEF Next, Local, Timeout, Receive, ReceiveUnawaited, Received, Serve, Lose, Expire,
        Exit, Finished, vars, lookupVars, historyVars

\* TypeOK holds for every value of the constants: among others, a get collects
\* one answer from each node whose query has ended, also if it failed.
THEOREM TypeCorrect == Spec => []TypeOK
  <1>1. ASSUME TypeInv, ClosedInv, ResultsInv PROVE TypeOK
    <2>1. \A m \in wire : m.op \in Op /\ m.node \in Node /\ Receiver(m) \notin closed
      BY <1>1, MessageTypes DEF TypeInv, ClosedInv
    <2>2. ASSUME NEW o \in Op
          PROVE  {r.from : r \in ToSet(results[o])} = Answered(o)
      BY DEF ToSet, Answered
    <2> QED  BY <1>1, <2>1, <2>2 DEF TypeOK, TypeInv, ClosedInv, ResultsInv, SetsOK, ResultsOK
  <1>2. TypeInv /\ ClosedInv /\ ResultsInv => TypeOK
    BY <1>1
  <1> QED
    BY <1>2, TypeInit, TypeStep, ResultsInit, ClosedStep, ResultsStep, PTL DEF Spec
-----------------------------------------------------------------------------
(* What is held is found, where all joins are through one node b.          *)

\* An injective image of a finite set has as many members as the set.
LEMMA ImageSize ==
    ASSUME NEW J, IsFiniteSet(J), NEW f, \A i, j \in J : f[i] = f[j] => i = j
    PROVE  Cardinality({f[j] : j \in J}) = Cardinality(J)
  <1> DEFINE T == {f[j] : j \in J}
             g == [j \in J |-> f[j]]
  <1>1. g \in Bijection(J, T)
    BY DEF Bijection, Injection, Surjection, IsInjective
  <1> QED  BY <1>1, FS_Bijection DEF ExistsBijection

OneBootstrap(b) == \A o \in Op : Kind[o] = "join" => Via[o] = b

\* A get of a member, for a value that some members have held since it began.
Seeking(o) == Kind[o] = "get" /\ held[o] # {}

\* Its node is b or knows it, and b knows the members that hold the value.
HeldOK(b, o) ==
    /\ pc[o] # "new" /\ contacts[By[o]] # {}
    /\ By[o] = b \/ b \in contacts[By[o]]
    /\ held[o] \subseteq stored /\ held[o] \subseteq contacts[b] \cup {b}

HeldInv(b) ==
    /\ held \in [Op -> SUBSET Node]
    /\ \A o \in Op : Seeking(o) => HeldOK(b, o)

\* Its own node names b, and b names these members, which have the value.
SeekMsg(b, m) ==
    /\ Concerns(m, "find_value") => pc[m.op] \in {"gather", "done"}
    /\ m.rpc = "reply" /\ m.re = "find_node" /\ Seeking(m.op) =>
         /\ m.node = By[m.op] => b \in m.list \cup {By[m.op]}
         /\ m.node = b => held[m.op] \subseteq m.list \cup {b}
    /\ m.rpc = "reply" /\ m.re = "find_value" /\ Seeking(m.op) =>
         (m.node \in held[m.op] => m.has)

SeekWire(b) == \A m \in wire : SeekMsg(b, m)

\* Such a get, if its lookup lost no query: it asks its own node, which leads
\* to b, which leads to those that hold the value, and they answer with it.
SeekOK(b, o) ==
    /\ pc[o] = "lookup" =>
         /\ asked[o] # {} /\ found[o] = asked[o] \cup queued[o]
         /\ inflight[o] = {} => queued[o] = {}
         /\ \A n \in asked[o] \ inflight[o] :
              /\ By[o] \in found[o]
              /\ n = By[o] => b \in found[o]
              /\ n = b => held[o] \subseteq found[o]
    /\ pc[o] \in {"gather", "done"} =>
         /\ held[o] \subseteq found[o]
         /\ \A i \in DOMAIN results[o] : results[o][i].from \in held[o] => results[o][i].has

SeekInv(b) == \A o \in Op : Seeking(o) /\ ~disturbed[o] => SeekOK(b, o)

\* What no step takes back.  A get has its members when it begins, then loses
\* those that fail.
LEMMA HeldFacts ==
    ASSUME TypeInv, held \in [Op -> SUBSET Node], [Next]_vars
    PROVE  /\ held' \in [Op -> SUBSET Node]
           /\ \A o \in Op :
                /\ \/ /\ held'[o] \subseteq held[o]
                      /\ held[o] \subseteq stored => held'[o] \subseteq stored'
                   \/ Begin(o) /\ Get(o)
                /\ pc[o] # "new" => pc'[o] # "new"
                /\ pc[o] \in {"gather", "done"} => pc'[o] \in {"gather", "done"}
                /\ disturbed[o] => disturbed'[o]
  <1> USE OpAssumption
  <1> DEFINE Facts(o) ==
               /\ \/ /\ held'[o] \subseteq held[o]
                     /\ held[o] \subseteq stored => held'[o] \subseteq stored'
                  \/ Begin(o) /\ Get(o)
               /\ pc[o] # "new" => pc'[o] # "new"
               /\ pc[o] \in {"gather", "done"} => pc'[o] \in {"gather", "done"}
               /\ disturbed[o] => disturbed'[o]
  <1>1. ASSUME NEW o \in Op, Begin(o)
        PROVE  held' \in [Op -> SUBSET Node] /\ \A q \in Op : Facts(q)
    <2>1. pc[o] = "new" /\ UNCHANGED <<stored, disturbed>>
      BY <1>1 DEF Begin
    <2>2. pc' = [pc EXCEPT ![o] = "ping"] \/ pc' = [pc EXCEPT ![o] = "start"]
      BY <1>1 DEF Begin, JoinAddress, JoinNode, Put, Get
    <2>3. CASE Get(o)
      <3>1. Members \subseteq Node
        BY DEF Members
      <3> DEFINE H == IF By[o] \in Members THEN stored \cap Members ELSE {}
      <3>2. held' = [held EXCEPT ![o] = H] /\ H \in SUBSET Node
        BY <2>3, <3>1 DEF Get
      <3> HIDE DEF H
      <3> QED  BY <1>1, <2>1, <2>2, <2>3, <3>2 DEF TypeInv
    <2>4. CASE UNCHANGED held
      BY <2>1, <2>2, <2>4 DEF TypeInv
    <2> QED  BY <1>1, <2>3, <2>4 DEF Begin, JoinAddress, JoinNode, Put
  <1>2. ASSUME NEW o \in Op,
               BeginLookUp(o) \/ EndLookUp(o) \/ EndGather(o) \/ PingFails(o)
        PROVE  held' \in [Op -> SUBSET Node] /\ \A q \in Op : Facts(q)
    <2>1. UNCHANGED <<held, stored, disturbed>>
      BY <1>2 DEF BeginLookUp, EndLookUp, EndGather, PingFails, historyVars
    <2>2. \/ pc[o] \in {"start", "ping"} /\ pc' = [pc EXCEPT ![o] = "lookup"]
          \/ pc[o] \in {"start", "ping"} /\ pc' = [pc EXCEPT ![o] = "failed"]
          \/ pc' = [pc EXCEPT ![o] = "gather"] \/ pc' = [pc EXCEPT ![o] = "done"]
      BY <1>2 DEF BeginLookUp, EndLookUp, EndGather, PingFails
    <2> QED  BY <2>1, <2>2 DEF TypeInv
  <1>3. ASSUME NEW o \in Op, LookUpTimesOut(o) \/ \E n \in Node : LookUpFails(o, n)
        PROVE  held' \in [Op -> SUBSET Node] /\ \A q \in Op : Facts(q)
    BY <1>3 DEF LookUpTimesOut, LookUpFails, TypeInv
  <1>4. ASSUME NEW o \in Op, NEW n \in Node, GatherFails(o, n)
        PROVE  held' \in [Op -> SUBSET Node] /\ \A q \in Op : Facts(q)
    BY <1>4 DEF GatherFails
  <1>5. ASSUME NEW m \in wire, Serve(m) \/ ReceiveNodes(m) \/ ReceiveValue(m)
                                 \/ ReceiveUnawaited(m) \/ Lose(m)
        PROVE  held' \in [Op -> SUBSET Node] /\ \A q \in Op : Facts(q)
    <2>1. UNCHANGED <<held, disturbed, pc>> /\ stored \subseteq stored'
      BY <1>5
      DEF Serve, Store, ReceiveNodes, ReceiveValue, ReceiveUnawaited, Received, Lose, historyVars
    <2> QED  BY <2>1
  <1>6. ASSUME NEW m \in wire, ReceiveId(m)
        PROVE  held' \in [Op -> SUBSET Node] /\ \A q \in Op : Facts(q)
    <2>1. /\ pc[m.op] = "ping" /\ pc' = [pc EXCEPT ![m.op] = "start"]
          /\ UNCHANGED <<stored, held, disturbed>>
      BY <1>6 DEF ReceiveId, Received, Awaited, historyVars
    <2> QED  BY <2>1 DEF TypeInv
  <1>7. ASSUME NEW n \in Node, Expire(n) \/ Exit(n)
        PROVE  held' \in [Op -> SUBSET Node] /\ \A q \in Op : Facts(q)
    BY <1>7 DEF Expire, Exit
  <1>8. CASE UNCHANGED vars
    BY <1>8 DEF vars, lookupVars, historyVars
  <1> QED
    BY <1>1, <1>2, <1>3, <1>4, <1>5, <1>6, <1>7, <1>8
    DEF Next, Local, Timeout, Receive, Finished

\* A get that begins on a member: all members are b or have joined through it.
LEMMA GetBegins ==
    ASSUME TypeInv, LookInv, NEW b \in Node, OneBootstrap(b), NEW o \in Op,
           held \in [Op -> SUBSET Node], Begin(o), Get(o), Seeking(o)'
    PROVE  HeldOK(b, o)'
  <1> USE OpAssumption
  <1>1. /\ pc' = [pc EXCEPT ![o] = "start"] /\ UNCHANGED <<contacts, stored>>
        /\ held' = [held EXCEPT ![o] = IF By[o] \in Members THEN stored \cap Members ELSE {}]
    BY DEF Begin, Get
  <1>2. By[o] \in Members /\ held'[o] \subseteq stored \cap Members
    BY <1>1 DEF Seeking
  <1>3. ASSUME NEW j \in Op, Joined(j)
        PROVE  Via[j] = b /\ b \in contacts[By[j]] /\ By[j] \in contacts[b]
    BY <1>3, JoinedFacts DEF LookOK, Joined, OneBootstrap
  <1>4. \A x \in Members : x = b \/ b \in contacts[x]
    BY <1>3 DEF Members
  <1>5. Members \subseteq contacts[b] \cup {b}
    BY <1>3 DEF Members
  <1>6. contacts[By[o]] # {}
    BY <1>2, <1>3 DEF Members
  <1> QED  BY <1>1, <1>2, <1>4, <1>5, <1>6 DEF HeldOK, TypeInv

LEMMA HeldInit ==
    ASSUME NEW b \in Node
    PROVE  Init => HeldInv(b) /\ SeekWire(b) /\ SeekInv(b)
  BY DEF Init, HeldInv, SeekWire, SeekInv, Seeking

LEMMA HeldStep ==
    ASSUME NEW b \in Node, OneBootstrap(b)
    PROVE  TypeInv /\ LookInv /\ HeldInv(b) /\ [Next]_vars => HeldInv(b)'
  <1> SUFFICES ASSUME TypeInv, LookInv, HeldInv(b), [Next]_vars PROVE HeldInv(b)'
    OBVIOUS
  <1>1. held \in [Op -> SUBSET Node]
    BY DEF HeldInv
  <1>2. held' \in [Op -> SUBSET Node]
    BY <1>1, HeldFacts
  <1>3. ASSUME NEW o \in Op, Seeking(o)' PROVE HeldOK(b, o)'
    <2>1. CASE Begin(o) /\ Get(o)
      BY <1>1, <1>3, <2>1, GetBegins
    <2>2. CASE /\ held'[o] \subseteq held[o]
               /\ held[o] \subseteq stored => held'[o] \subseteq stored'
      <3>1. HeldOK(b, o) /\ By[o] \in Node
        BY <1>3, <2>2, OpAssumption DEF HeldInv, Seeking
      <3>2. contacts[By[o]] \subseteq contacts'[By[o]] /\ contacts[b] \subseteq contacts'[b]
        BY <3>1, TablesGrow
      <3>3. pc'[o] # "new"
        BY <1>1, <3>1, HeldFacts DEF HeldOK
      <3> QED  BY <2>2, <3>1, <3>2, <3>3 DEF HeldOK
    <2> QED  BY <1>1, <2>1, <2>2, HeldFacts
  <1> QED  BY <1>2, <1>3 DEF HeldInv

LEMMA SeekWireStep ==
    ASSUME NEW b \in Node, OneBootstrap(b)
    PROVE  TypeInv /\ WireInv /\ HeldInv(b) /\ SeekWire(b) /\ [Next]_vars => SeekWire(b)'
  <1> SUFFICES ASSUME TypeInv, WireInv, HeldInv(b), SeekWire(b), [Next]_vars
               PROVE  SeekWire(b)'
    OBVIOUS
  <1> USE OpAssumption
  <1>held. held \in [Op -> SUBSET Node]
    BY DEF HeldInv
  <1>grow. \A n \in Node : contacts[n] \subseteq contacts'[n]
    BY TablesGrow
  <1>stay. ASSUME NEW m \in wire PROVE SeekMsg(b, m)'
    <2>1. m.op \in Op /\ SeekMsg(b, m)
      BY MessageTypes DEF TypeInv, SeekWire
    <2>2. Concerns(m, "find_value") => pc'[m.op] \in {"gather", "done"}
      BY <1>held, <2>1, HeldFacts DEF SeekMsg
    <2>3. CASE held'[m.op] \subseteq held[m.op]
      BY <2>1, <2>2, <2>3 DEF SeekMsg, Seeking
    <2>4. CASE Begin(m.op)
      <3>1. pc[m.op] = "new"
        BY <2>4 DEF Begin
      <3>2. m.rpc = "reply" => m.re \notin {"find_node", "find_value"}
        BY <2>1, <3>1 DEF SeekMsg, WireInv, Concerns
      <3> QED  BY <2>2, <3>2 DEF SeekMsg
    <2> QED  BY <1>held, <2>1, <2>3, <2>4, HeldFacts
  <1>new. ASSUME NEW m, m.rpc \in {"ping", "find_node", "store"} PROVE SeekMsg(b, m)'
    BY <1>new DEF SeekMsg, Concerns
  <1>1. ASSUME NEW o \in Op, Begin(o) PROVE SeekWire(b)'
    BY <1>stay, <1>new, <1>1, RequestTypes DEF Begin, JoinAddress, JoinNode, Put, Get, SeekWire
  <1>2. ASSUME NEW o \in Op, BeginLookUp(o) PROVE SeekWire(b)'
    <2>1. PICK initial \in SUBSET Node :
             wire' = wire \cup Requests("find_node", o, initial)
      BY <1>2 DEF BeginLookUp, kSubset, TypeInv
    <2> QED  BY <1>stay, <1>new, <2>1, RequestTypes DEF SeekWire
  <1>3. ASSUME NEW o \in Op, EndLookUp(o) PROVE SeekWire(b)'
    <2>1. found[o] \in SUBSET Node
      BY DEF TypeInv
    <2>2. CASE Kind[o] = "join"
      BY <1>3, <1>stay, <2>2 DEF EndLookUp, SeekWire
    <2>3. CASE Kind[o] = "put"
      BY <1>3, <1>stay, <1>new, <2>1, <2>3, RequestTypes DEF EndLookUp, SeekWire
    <2>4. CASE Kind[o] = "get"
      <3>1. /\ wire' = wire \cup Requests("find_value", o, found[o])
            /\ pc' = [pc EXCEPT ![o] = "gather"]
        BY <1>3, <2>4 DEF EndLookUp
      <3>2. ASSUME NEW m \in Requests("find_value", o, found[o]) PROVE SeekMsg(b, m)'
        <4>1. m.rpc = "find_value" /\ m.op = o
          BY <2>1, <3>2, RequestTypes
        <4>2. pc'[o] = "gather"
          BY <3>1 DEF TypeInv
        <4> QED  BY <4>1, <4>2 DEF SeekMsg
      <3> QED  BY <1>stay, <3>1, <3>2 DEF SeekWire
    <2> QED  BY <2>2, <2>3, <2>4
  <1>4. ASSUME NEW m \in wire, Serve(m) PROVE SeekWire(b)'
    <2>1. m \in RequestMsg /\ m.op \in Op /\ m.node \in Node /\ By[m.op] \in Node
      BY <1>4, MessageTypes DEF Serve, TypeInv
    <2>2. /\ contacts' \in [Node -> SUBSET Node]
          /\ UNCHANGED <<pc, held>>
      BY <1>4, <2>1, ContactAdded DEF Serve, Introduce, historyVars
    <2> DEFINE r == Reply(m, Closest(m), HasValue(m))
    <2>3. Closest(m) \in SUBSET Node /\ HasValue(m) \in BOOLEAN
      BY <2>1, <2>2 DEF Closest, HasValue
    <2>4. /\ r.rpc = "reply" /\ r.re = m.rpc /\ r.op = m.op /\ r.node = m.node
          /\ r.list = Closest(m) /\ r.has = HasValue(m)
      BY <2>1, <2>3, ReplyTypes DEF Reply
    <2>5. \A n \in wire' : n \in wire \/ n = r
      BY <1>4 DEF Serve
    <2>6. Concerns(r, "find_value") => pc'[r.op] \in {"gather", "done"}
      BY <2>2, <2>4 DEF SeekWire, SeekMsg, Concerns
    <2>7. ASSUME m.rpc = "find_node", Seeking(m.op)
          PROVE  /\ m.node = By[m.op] => b \in r.list \cup {By[m.op]}
                 /\ m.node = b => held[m.op] \subseteq r.list \cup {b}
      <3>1. r.list = contacts'[m.node]
        BY <2>4, <2>7 DEF Closest
      <3>2. HeldOK(b, m.op)
        BY <2>1, <2>7 DEF HeldInv
      <3> QED  BY <1>grow, <2>1, <3>1, <3>2 DEF HeldOK
    <2>8. ASSUME m.rpc = "find_value", Seeking(m.op), m.node \in held[m.op] PROVE r.has
      <3>1. held[m.op] \subseteq stored
        BY <2>1, <2>8 DEF HeldInv, HeldOK
      <3> QED  BY <2>4, <2>8, <3>1 DEF HasValue
    <2> HIDE DEF r
    <2>9. ASSUME NEW n, n = r PROVE SeekMsg(b, n)'
      BY <2>2, <2>4, <2>6, <2>7, <2>8, <2>9 DEF SeekMsg, Seeking, Concerns
    <2> QED  BY <1>stay, <2>5, <2>9 DEF SeekWire
  <1>5. ASSUME NEW m \in wire, ReceiveNodes(m) PROVE SeekWire(b)'
    <2>1. m.op \in Op /\ m.node \in Node /\ m.list \in SUBSET Node
      BY <1>5, MessageTypes DEF ReceiveNodes, Received, TypeInv
    <2>2. asked' \in [Op -> SUBSET Node]
      BY <1>5, <2>1, AnswerMerged, NodeAssumption, AlphaAssumption DEF ReceiveNodes
    <2>3. \A n \in wire' : n \in wire \/ n.rpc = "find_node"
      BY <1>5, <2>1, <2>2, RequestTypes DEF ReceiveNodes
    <2> QED  BY <1>stay, <1>new, <2>3 DEF SeekWire
  <1>6. CASE wire' \subseteq wire
    BY <1>stay, <1>6 DEF SeekWire
  <1> QED
    BY <1>1, <1>2, <1>3, <1>4, <1>5, <1>6
    DEF Next, Local, Timeout, EndGather, PingFails, LookUpTimesOut, LookUpFails,
        GatherFails, Receive, ReceiveId, ReceiveValue, ReceiveUnawaited, Lose, Expire,
        Exit, Finished, vars

LEMMA SeekStep ==
    ASSUME NEW b \in Node, OneBootstrap(b)
    PROVE  TypeInv /\ WireInv /\ ResultsInv /\ HeldInv(b) /\ SeekWire(b) /\ SeekInv(b)
             /\ [Next]_vars => SeekInv(b)'
  <1> SUFFICES ASSUME TypeInv, WireInv, ResultsInv, HeldInv(b), SeekWire(b), SeekInv(b),
                      [Next]_vars
               PROVE  SeekInv(b)'
    OBVIOUS
  <1> USE OpAssumption
  <1>held. held \in [Op -> SUBSET Node]
    BY DEF HeldInv
  \* A get that goes on seeking was seeking before, unless it begins.
  <1>was. ASSUME NEW q \in Op, Seeking(q)', ~disturbed'[q], pc[q] # "new"
          PROVE  held'[q] \subseteq held[q] /\ Seeking(q) /\ ~disturbed[q] /\ SeekOK(b, q)
    <2>1. held'[q] \subseteq held[q] /\ (disturbed[q] => disturbed'[q])
      BY <1>held, <1>was, HeldFacts DEF Begin
    <2> QED  BY <1>was, <2>1 DEF Seeking, SeekInv
  <1>same. ASSUME NEW q \in Op, Seeking(q)', ~disturbed'[q],
                  pc'[q] = pc[q] \/ pc'[q] \in {"ping", "start", "failed"}
                    \/ (pc[q] = "gather" /\ pc'[q] = "done"),
                  found'[q] = found[q], asked'[q] = asked[q], queued'[q] = queued[q],
                  inflight'[q] = inflight[q], results'[q] = results[q]
           PROVE  SeekOK(b, q)'
    <2>1. CASE pc'[q] \in {"new", "ping", "start", "failed"}
      BY <2>1 DEF SeekOK
    <2>2. CASE pc'[q] \notin {"new", "ping", "start", "failed"}
      <3>1. held'[q] \subseteq held[q] /\ SeekOK(b, q)
        BY <1>same, <1>was, <2>2
      <3> QED  BY <1>same, <2>2, <3>1 DEF SeekOK
    <2> QED  BY <2>1, <2>2
  <1>1. ASSUME NEW o \in Op, Begin(o) PROVE SeekInv(b)'
    <2>1. /\ pc' = [pc EXCEPT ![o] = "ping"] \/ pc' = [pc EXCEPT ![o] = "start"]
          /\ UNCHANGED <<found, asked, queued, inflight, results, disturbed>>
      BY <1>1 DEF Begin, JoinAddress, JoinNode, Put, Get, lookupVars
    <2> QED  BY <1>same, <2>1 DEF SeekInv, TypeInv
  <1>2. ASSUME NEW o \in Op, BeginLookUp(o) PROVE SeekInv(b)'
    <2>1. PICK initial \in kSubset(Least(Alpha, Cardinality(contacts[By[o]])), contacts[By[o]]) :
             /\ found' = [found EXCEPT ![o] = initial]
             /\ asked' = [asked EXCEPT ![o] = initial]
             /\ inflight' = [inflight EXCEPT ![o] = initial]
      BY <1>2 DEF BeginLookUp
    <2>2. /\ pc[o] = "start" /\ pc' = [pc EXCEPT ![o] = "lookup"]
          /\ UNCHANGED <<queued, results, disturbed, held>>
      BY <1>2 DEF BeginLookUp, historyVars
    <2>3. ASSUME Seeking(o)', ~disturbed'[o] PROVE SeekOK(b, o)'
      <3>1. contacts[By[o]] # {} /\ contacts[By[o]] \in SUBSET Node
        BY <2>2, <2>3 DEF HeldInv, HeldOK, Seeking, TypeInv
      <3>2. initial # {}
        BY <3>1, SomeInitial, NodeAssumption, AlphaAssumption
      <3>3. /\ found'[o] = initial /\ asked'[o] = initial /\ inflight'[o] = initial
            /\ queued'[o] = {} /\ pc'[o] = "lookup"
        BY <2>1, <2>2 DEF TypeInv
      <3> QED  BY <3>2, <3>3 DEF SeekOK
    <2>4. ASSUME NEW q \in Op \ {o}, Seeking(q)', ~disturbed'[q] PROVE SeekOK(b, q)'
      <3>1. /\ found'[q] = found[q] /\ asked'[q] = asked[q] /\ queued'[q] = queued[q]
            /\ inflight'[q] = inflight[q] /\ pc'[q] = pc[q] /\ results'[q] = results[q]
        BY <2>1, <2>2 DEF TypeInv
      <3> QED  BY <1>same, <2>4, <3>1
    <2> QED  BY <2>3, <2>4 DEF SeekInv
  <1>3. ASSUME NEW o \in Op, EndLookUp(o) PROVE SeekInv(b)'
    <2>1. /\ UNCHANGED <<found, asked, queued, results, disturbed, held>>
          /\ pc[o] = "lookup" /\ inflight[o] = {}
      BY <1>3 DEF EndLookUp, lookupVars, historyVars
    <2>2. /\ pc' = [pc EXCEPT ![o] = "done"] \/ pc' = [pc EXCEPT ![o] = "gather"]
          /\ \A q \in Op \ {o} : inflight'[q] = inflight[q]
      <3>1. CASE Kind[o] = "join"
        BY <1>3, <3>1 DEF EndLookUp
      <3>2. CASE Kind[o] = "put"
        BY <1>3, <3>2 DEF EndLookUp
      <3>3. CASE Kind[o] = "get"
        BY <1>3, <3>3 DEF EndLookUp, TypeInv
      <3> QED  BY <3>1, <3>2, <3>3
    <2>3. ASSUME Seeking(o)', ~disturbed'[o] PROVE SeekOK(b, o)'
      <3>1. SeekOK(b, o)
        BY <1>was, <2>1, <2>3
      <3>2. asked[o] # {} /\ found[o] = asked[o]
        BY <2>1, <3>1 DEF SeekOK
      <3>3. By[o] \in asked[o]
        BY <2>1, <3>1, <3>2 DEF SeekOK
      <3>4. b \in asked[o]
        BY <2>1, <3>1, <3>2, <3>3 DEF SeekOK
      <3>5. held[o] \subseteq found[o]
        BY <2>1, <3>1, <3>4 DEF SeekOK
      <3>6. results[o] = <<>>
        BY <2>1 DEF ResultsInv, ResultsOK
      <3>7. pc'[o] # "lookup"
        BY <2>2 DEF TypeInv
      <3> QED  BY <2>1, <3>5, <3>6, <3>7 DEF SeekOK
    <2>4. ASSUME NEW q \in Op \ {o}, Seeking(q)', ~disturbed'[q] PROVE SeekOK(b, q)'
      <3>1. pc'[q] = pc[q]
        BY <2>2 DEF TypeInv
      <3> QED  BY <1>same, <2>1, <2>2, <2>4, <3>1
    <2> QED  BY <2>3, <2>4 DEF SeekInv
  <1>4. ASSUME NEW o \in Op, EndGather(o) \/ PingFails(o) PROVE SeekInv(b)'
    <2>1. /\ UNCHANGED <<found, asked, queued, inflight, results>>
          /\ \/ pc' = [pc EXCEPT ![o] = "failed"]
             \/ pc[o] = "gather" /\ pc' = [pc EXCEPT ![o] = "done"]
      BY <1>4 DEF EndGather, PingFails, lookupVars
    <2> QED  BY <1>same, <2>1 DEF SeekInv, TypeInv
  <1>5. ASSUME NEW o \in Op, LookUpTimesOut(o) \/ \E n \in Node : LookUpFails(o, n)
        PROVE SeekInv(b)'
    <2>1. /\ UNCHANGED <<found, asked, queued, pc, results>> /\ disturbed'[o]
          /\ \A q \in Op \ {o} : inflight'[q] = inflight[q]
      BY <1>5 DEF LookUpTimesOut, LookUpFails, lookupVars, TypeInv
    <2> QED  BY <1>same, <2>1 DEF SeekInv
  \* One more answer of a get, which has the value if its node is still held.
  <1>6. ASSUME NEW o \in Op, NEW n \in Node, NEW has, pc[o] = "gather",
               UNCHANGED <<found, asked, queued, pc>>,
               results' = [results EXCEPT ![o] = Collected(o, n, has)],
               inflight' = [inflight EXCEPT ![o] = @ \ {n}],
               Seeking(o)' /\ ~disturbed'[o] /\ n \in held'[o] => has
        PROVE  SeekInv(b)'
    <2>1. ASSUME Seeking(o)', ~disturbed'[o] PROVE SeekOK(b, o)'
      <3>1. held'[o] \subseteq held[o] /\ SeekOK(b, o)
        BY <1>was, <1>6, <2>1
      <3> DEFINE s == results[o]
                 r == [from |-> n, has |-> has]
      <3>2. s \in Seq(Answer) /\ results'[o] = Append(s, r)
        BY <1>6 DEF ResultsInv, Collected
      <3>3. /\ DOMAIN Append(s, r) = DOMAIN s \cup {Len(s) + 1}
            /\ Append(s, r)[Len(s) + 1] = r
            /\ \A i \in DOMAIN s : Append(s, r)[i] = s[i]
        BY <3>2
      <3>4. r.from \in held'[o] => r.has
        BY <1>6, <2>1
      <3>5. \A i \in DOMAIN s : s[i].from \in held[o] => s[i].has
        BY <1>6, <3>1 DEF SeekOK
      <3> HIDE DEF s, r
      <3>6. \A i \in DOMAIN results'[o] : results'[o][i].from \in held'[o] => results'[o][i].has
        BY <3>1, <3>2, <3>3, <3>4, <3>5
      <3> QED  BY <1>6, <3>1, <3>6 DEF SeekOK
    <2>2. ASSUME NEW q \in Op \ {o}, Seeking(q)', ~disturbed'[q] PROVE SeekOK(b, q)'
      <3>1. inflight'[q] = inflight[q] /\ results'[q] = results[q]
        BY <1>6 DEF TypeInv, ResultsInv
      <3> QED  BY <1>6, <1>same, <2>2, <3>1
    <2> QED  BY <2>1, <2>2 DEF SeekInv
  <1>7. ASSUME NEW o \in Op, NEW n \in Node, GatherFails(o, n) PROVE SeekInv(b)'
    <2>1. n \notin held'[o]
      BY <1>7, <1>held DEF GatherFails
    <2> QED  BY <1>6, <1>7, <2>1 DEF GatherFails, lookupVars
  <1>8. ASSUME NEW m \in wire, ReceiveId(m) PROVE SeekInv(b)'
    <2>1. /\ UNCHANGED <<found, asked, queued, inflight, results>>
          /\ pc' = [pc EXCEPT ![m.op] = "start"]
      BY <1>8 DEF ReceiveId, lookupVars
    <2> QED  BY <1>same, <2>1 DEF SeekInv, TypeInv
  <1>9. ASSUME NEW m \in wire, ReceiveNodes(m) PROVE SeekInv(b)'
    <2>1. m.op \in Op /\ m.node \in Node /\ m.list \in SUBSET Node
      BY <1>9, MessageTypes DEF ReceiveNodes, Received, TypeInv
    <2>2. /\ pc' = pc /\ pc[m.op] = "lookup" /\ LookUpAnswered(m.op, m.node, m.list)
          /\ UNCHANGED <<results, disturbed, held>> /\ m.rpc = "reply" /\ m.re = "find_node"
          /\ m.node \in inflight[m.op]
      BY <1>9 DEF ReceiveNodes, Received, Awaited, historyVars
    <2> DEFINE o == m.op
    <2>3. /\ \A q \in Op \ {o} : /\ found'[q] = found[q] /\ asked'[q] = asked[q]
                                 /\ queued'[q] = queued[q] /\ inflight'[q] = inflight[q]
          /\ found'[o] = found[o] \cup m.list
          /\ asked'[o] \cup queued'[o] = asked[o] \cup queued[o] \cup m.list
          /\ asked[o] \subseteq asked'[o]
          /\ asked'[o] \ inflight'[o] \subseteq (asked[o] \ inflight[o]) \cup {m.node}
          /\ inflight'[o] = {} => queued'[o] = {}
      BY <2>1, <2>2, AnswerMerged, NodeAssumption, AlphaAssumption
    <2>4. ASSUME Seeking(o)', ~disturbed'[o] PROVE SeekOK(b, o)'
      <3>1. SeekOK(b, o) /\ Seeking(o)
        BY <1>was, <2>1, <2>2, <2>4
      <3>2. /\ By[o] \in m.list
            /\ m.node = By[o] => b \in m.list \cup {By[o]}
            /\ m.node = b => held[o] \subseteq m.list \cup {b}
        BY <2>2, <3>1 DEF WireInv, SeekWire, SeekMsg
      <3>3. m.node \in found[o]
        BY <2>1, <2>2 DEF ResultsInv, SetsOK
      <3>4. ASSUME NEW n \in asked'[o] \ inflight'[o]
            PROVE  /\ By[o] \in found'[o]
                   /\ n = By[o] => b \in found'[o]
                   /\ n = b => held'[o] \subseteq found'[o]
        <4>1. CASE n = m.node
          BY <2>2, <2>3, <3>2, <3>3, <4>1
        <4>2. CASE n \in asked[o] \ inflight[o]
          BY <2>2, <2>3, <3>1, <4>2 DEF SeekOK
        <4> QED  BY <2>3, <4>1, <4>2
      <3>5. asked'[o] # {} /\ found'[o] = asked'[o] \cup queued'[o] /\ pc'[o] = "lookup"
        BY <2>2, <2>3, <3>1 DEF SeekOK
      <3> QED  BY <2>3, <3>4, <3>5 DEF SeekOK
    <2>5. ASSUME NEW q \in Op \ {o}, Seeking(q)', ~disturbed'[q] PROVE SeekOK(b, q)'
      BY <1>same, <2>2, <2>3, <2>5
    <2> HIDE DEF o
    <2> QED  BY <2>4, <2>5 DEF SeekInv
  <1>10. ASSUME NEW m \in wire, ReceiveValue(m) PROVE SeekInv(b)'
    <2>1. m.op \in Op /\ m.node \in Node
      BY <1>10, MessageTypes DEF ReceiveValue, Received, TypeInv
    <2>2. /\ m.rpc = "reply" /\ m.re = "find_value" /\ pc[m.op] = "gather"
          /\ UNCHANGED <<found, asked, queued, pc, held>>
          /\ results' = [results EXCEPT ![m.op] = Collected(m.op, m.node, m.has)]
          /\ inflight' = [inflight EXCEPT ![m.op] = @ \ {m.node}]
      BY <1>10 DEF ReceiveValue, Received, Awaited, lookupVars, historyVars
    <2>3. Seeking(m.op)' /\ m.node \in held'[m.op] => m.has
      BY <2>2 DEF SeekWire, SeekMsg, Seeking
    <2> QED  BY <1>6, <2>1, <2>2, <2>3
  <1>11. CASE UNCHANGED <<found, asked, queued, inflight, results, pc>>
    BY <1>same, <1>11 DEF SeekInv
  <1> QED
    BY <1>1, <1>2, <1>3, <1>4, <1>5, <1>7, <1>8, <1>9, <1>10, <1>11
    DEF Next, Local, Timeout, Receive, ReceiveUnawaited, Received, Serve, Lose, Expire,
        Exit, Finished, vars, lookupVars

\* Where all nodes join through one, a get of a member finds the value if some
\* member holds it all the time and answers, and its lookup lost no query.
THEOREM HeldIsFound ==
    ASSUME NEW b \in Node, OneBootstrap(b)
    PROVE  Spec => []FoundIfHeld
  <1> DEFINE FoundInv == /\ TypeInv /\ BootInv /\ WireInv /\ LookInv /\ ResultsInv
                         /\ HeldInv(b) /\ SeekWire(b) /\ SeekInv(b)
  <1>1. Init => FoundInv
    BY TypeInit, KnownInit, LookInit, ResultsInit, HeldInit
  <1>2. FoundInv /\ [Next]_vars => FoundInv'
    BY TypeStep, KnownStep, LookStep, ResultsStep, HeldStep, SeekWireStep, SeekStep
  <1>3. ASSUME FoundInv PROVE FoundIfHeld
    <2> SUFFICES ASSUME NEW o \in Op, Kind[o] = "get", pc[o] = "done", ~disturbed[o],
                        held[o] # {}
                 PROVE  \E i \in DOMAIN results[o] : results[o][i].has
      BY DEF FoundIfHeld, ValueFound
    <2> DEFINE s == results[o]
               from == [i \in DOMAIN s |-> s[i].from]
    <2>1. /\ held[o] \subseteq found[o]
          /\ \A i \in DOMAIN s : s[i].from \in held[o] => s[i].has
      BY <1>3 DEF SeekInv, Seeking, SeekOK
    <2>2. /\ \A i, j \in DOMAIN s : s[i].from = s[j].from => i = j
          /\ Answered(o) \subseteq found[o]
          /\ Len(s) = Cardinality(found[o]) /\ s \in Seq(Answer)
      BY <1>3 DEF ResultsInv, ResultsOK
    <2>3. IsFiniteSet(found[o])
      BY <1>3, FS_Subset, NodeAssumption DEF NodeAssumption, TypeInv
    <2>4. Answered(o) = {from[i] : i \in DOMAIN s}
      BY DEF Answered
    <2>5. DOMAIN s = 1..Cardinality(found[o]) /\ Cardinality(found[o]) \in Nat
      BY <2>2, <2>3, FS_CardinalityType
    <2>6. IsFiniteSet(DOMAIN s) /\ Cardinality(DOMAIN s) = Cardinality(found[o])
      BY <2>5, FS_Interval
    <2>7. Cardinality(Answered(o)) = Cardinality(found[o])
      <3>1. \A i, j \in DOMAIN s : from[i] = from[j] => i = j
        BY <2>2
      <3> HIDE DEF s, from
      <3> QED  BY <2>4, <2>6, <3>1, ImageSize
    <2>8. Answered(o) = found[o]
      BY <2>2, <2>3, <2>7, FS_Subset
    <2>9. PICK n \in held[o] : TRUE
      OBVIOUS
    <2>10. PICK i \in DOMAIN s : s[i].from = n
      BY <2>1, <2>8, <2>9 DEF Answered
    <2> QED  BY <2>1, <2>9, <2>10
  <1>4. FoundInv => FoundIfHeld
    BY <1>3
  <1> QED  BY <1>1, <1>2, <1>4, PTL DEF Spec
=============================================================================
