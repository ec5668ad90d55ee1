-------------------------------- MODULE Rpc --------------------------------
(***************************************************************************)
(* Remote calls between nodes: KademliaNode.SendAndAwaitResponse, the      *)
(* listener and the dispatch of a Node (pkg/node/node.go), and the mock    *)
(* network they run on (pkg/network/mockNetwork.go).  A call registers a   *)
(* handler for "reply" messages, sends its request, and waits for a        *)
(* response on a channel or for a timeout.  The listener of a node         *)
(* snapshots the handlers of each message it receives; a goroutine per     *)
(* message adds its sender to the routing table and only then starts the   *)
(* handlers.                                                               *)
(*                                                                         *)
(* Every node runs this program, so a reply always parses.  RPC ids are    *)
(* unique: a call stands for its id.                                       *)
(***************************************************************************)
EXTENDS Naturals, Sequences, FiniteSets, SequencesExt

CONSTANTS
    Node,           \* the addresses
    Call,           \* the calls, each made at most once
    Caller, Callee, \* Call -> Node
    Introduces,     \* the calls of type find_value, find_node, store or ping,
                    \* which have a first-handler and may be dropped; the
                    \* others are put, get and exit
    QueueMax        \* messages a listener's channel holds, 100 in the code

ASSUME EndsAssumption == Caller \in [Call -> Node] /\ Callee \in [Call -> Node]
ASSUME IntroducesAssumption == Introduces \subseteq Call
ASSUME QueueMaxAssumption == QueueMax \in Nat \ {0}

VARIABLES
    pc,             \* where each call is
    outcome,        \* what it returns
    response,       \* the number of messages in its responseCh
    handlers,       \* the calls whose reply handler is registered
    queue,          \* the channel of each listener
    listed,         \* the addresses in the listeners map of the network
    hungUp,         \* the addresses whose channel is closed
    closed,         \* the nodes on which Close was called
    listener,       \* what the listener goroutine of each node does
    dispatched,     \* the messages whose goroutine waits for first-handlers
    serving,        \* the requests whose handler runs
    delivering,     \* the reply handlers that run: a call and a message
    met,            \* the nodes each node has added to its routing table
    executed        \* history: the requests whose handler was started

callVars == <<pc, outcome, response, handlers>>
netVars == <<queue, listed, hungUp>>
nodeVars == <<closed, listener, dispatched, serving, delivering, met, executed>>
vars == <<callVars, netVars, nodeVars>>

Message == [type : {"request", "reply"}, call : Call]

Request(c) == [type |-> "request", call |-> c]
Reply(c) == [type |-> "reply", call |-> c]

From(m) == IF m.type = "request" THEN Caller[m.call] ELSE Callee[m.call]
To(m) == IF m.type = "request" THEN Callee[m.call] ELSE Caller[m.call]

\* Message types with AddToContactsFromMsg as first-handler.  The same ones
\* may be dropped by the mock network.
Introducing(m) == m.type = "reply" \/ m.call \in Introduces

-----------------------------------------------------------------------------
(* The network.                                                            *)

\* The send succeeds: the message is in the channel.
Pushed(m) ==
    /\ To(m) \in listed
    /\ Len(queue[To(m)]) < QueueMax
    /\ queue' = [queue EXCEPT ![To(m)] = Append(@, m)]

\* "Pretend the message was sent successfully".
Dropped(m) == To(m) \in listed /\ Introducing(m) /\ UNCHANGED queue

\* The address is not listened on, or "message queue full".
Refused(m) ==
    /\ To(m) \notin listed \/ Len(queue[To(m)]) >= QueueMax
    /\ UNCHANGED queue

-----------------------------------------------------------------------------
(* The caller.                                                             *)

\* Mutant of Begin: the handler is not registered.
BeginUnregistered(c) ==
    /\ pc[c] = "new"
    /\ pc' = [pc EXCEPT ![c] = "registered"]
    /\ UNCHANGED <<outcome, response, handlers, netVars, nodeVars>>

\* The reply handler is registered before anything is sent.
Begin(c) ==
    /\ pc[c] = "new"
    /\ pc' = [pc EXCEPT ![c] = "registered"]
    /\ handlers' = handlers \cup {c}
    /\ UNCHANGED <<outcome, response, netVars, nodeVars>>

\* The call returns, and the deferred RemoveHandler runs.
Return(c, o) ==
    /\ pc' = [pc EXCEPT ![c] = "returned"]
    /\ outcome' = [outcome EXCEPT ![c] = o]
    /\ handlers' = handlers \ {c}

\* A send error is returned at once.
SendRequest(c) ==
    /\ pc[c] = "registered"
    /\ \/ /\ Pushed(Request(c)) \/ Dropped(Request(c))
          /\ pc' = [pc EXCEPT ![c] = "waiting"]
          /\ UNCHANGED <<outcome, handlers>>
       \/ Refused(Request(c)) /\ Return(c, "failed")
    /\ UNCHANGED <<response, listed, hungUp, nodeVars>>

TakeResponse(c) ==
    /\ pc[c] = "waiting"
    /\ response[c] > 0
    /\ response' = [response EXCEPT ![c] = @ - 1]
    /\ Return(c, "answered")
    /\ UNCHANGED <<netVars, nodeVars>>

Timeout(c) ==
    /\ pc[c] = "waiting"
    /\ Return(c, "failed")
    /\ UNCHANGED <<response, netVars, nodeVars>>

-----------------------------------------------------------------------------
(* The node.                                                               *)

\* The listener looks at the closed flags, of the node and its connection.
Check(n) ==
    /\ listener[n] = "check"
    /\ listener' = [listener EXCEPT ![n] = IF n \in closed THEN "stopped" ELSE "recv"]
    /\ UNCHANGED <<callVars, netVars, closed, dispatched, serving, delivering, met, executed>>

\* A message is received, also one that was in the channel when it was closed,
\* and the reply handlers of the node are copied.
Receive(n) ==
    /\ listener[n] = "recv"
    /\ queue[n] # <<>>
    /\ LET m == Head(queue[n])
           copy == IF m.type = "reply" THEN {c \in handlers : Caller[c] = n} ELSE {}
       IN  dispatched' = dispatched \cup {[msg |-> m, waiters |-> copy, added |-> FALSE]}
    /\ queue' = [queue EXCEPT ![n] = Tail(@)]
    /\ listener' = [listener EXCEPT ![n] = "check"]
    /\ UNCHANGED <<callVars, listed, hungUp, closed, serving, delivering, met, executed>>

\* The channel is closed and empty: Recv fails.
HangUp(n) ==
    /\ listener[n] = "recv"
    /\ queue[n] = <<>> /\ n \in hungUp
    /\ listener' = [listener EXCEPT ![n] = "stopped"]
    /\ UNCHANGED <<callVars, netVars, closed, dispatched, serving, delivering, met, executed>>

\* The first-handler ends: NewContact of the sender has returned, which may
\* take a ping of its own.
AddToContacts(d) ==
    /\ Introducing(d.msg) /\ ~d.added
    /\ dispatched' = (dispatched \ {d}) \cup {[d EXCEPT !.added = TRUE]}
    /\ met' = [met EXCEPT ![To(d.msg)] = @ \cup {From(d.msg)}]
    /\ UNCHANGED <<callVars, netVars, closed, listener, serving, delivering, executed>>

\* Mutant of FirstHandlersDone: they are not waited for.
FirstHandlersIgnored(d) == d \in dispatched

\* "Run first-handlers concurrently then wait for completion."
FirstHandlersDone(d) == Introducing(d.msg) => d.added

\* The handlers are started: the one of the request's type, or those that
\* were waiting for a reply when the message was received.
Launch(d) ==
    /\ FirstHandlersDone(d)
    /\ dispatched' = dispatched \ {d}
    /\ delivering' = delivering \cup {[waiter |-> c, msg |-> d.msg] : c \in d.waiters}
    /\ IF d.msg.type = "request"
       THEN /\ serving' = serving \cup {d.msg.call}
            /\ executed' = executed \cup {d.msg.call}
       ELSE UNCHANGED <<serving, executed>>
    /\ UNCHANGED <<callVars, netVars, closed, listener, met>>

\* The handler of a request sends one reply and ignores whether it could.
Serve(c) ==
    /\ c \in serving
    /\ serving' = serving \ {c}
    /\ Pushed(Reply(c)) \/ Dropped(Reply(c)) \/ Refused(Reply(c))
    /\ UNCHANGED <<callVars, listed, hungUp, closed, listener, dispatched, delivering, met, executed>>

\* Mutant of Matches: the RPC id is not compared.
MatchesAny(c, m) == m.type = "reply" /\ c \in Call

Matches(c, m) == m.call = c

\* Mutant of Room: an unbuffered channel.
RoomIfWaiting(c) == response[c] = 0 /\ pc[c] \in {"registered", "waiting"}

\* responseCh has a buffer of one.
Room(c) == response[c] < 1

\* A reply handler runs; it blocks when it has the response and no room.
Deliver(d) ==
    /\ d \in delivering
    /\ IF Matches(d.waiter, d.msg)
       THEN /\ Room(d.waiter)
            /\ response' = [response EXCEPT ![d.waiter] = @ + 1]
       ELSE UNCHANGED response
    /\ delivering' = delivering \ {d}
    /\ UNCHANGED <<pc, outcome, handlers, netVars, closed, listener, dispatched, serving, met, executed>>

\* Node.Close, on its own or for an exit message: the flags are set first.
Close(n) ==
    /\ n \notin closed
    /\ closed' = closed \cup {n}
    /\ UNCHANGED <<callVars, netVars, listener, dispatched, serving, delivering, met, executed>>

\* Mutant of EndConnection: the channel is left open.
EndUnclosed(n) == listed' = listed \ {n} /\ UNCHANGED hungUp

EndConnection(n) == listed' = listed \ {n} /\ hungUp' = hungUp \cup {n}

\* Then the channel is closed and the address released, under the network's
\* lock, which a sender holds from its look-up of the channel to its send.
Unlisten(n) ==
    /\ n \in closed /\ n \in listed
    /\ EndConnection(n)
    /\ UNCHANGED <<callVars, queue, nodeVars>>

-----------------------------------------------------------------------------
Init ==
    /\ pc = [c \in Call |-> "new"]
    /\ outcome = [c \in Call |-> "none"]
    /\ response = [c \in Call |-> 0]
    /\ handlers = {}
    /\ queue = [n \in Node |-> <<>>]
    /\ listed = Node /\ hungUp = {} /\ closed = {}
    /\ listener = [n \in Node |-> "check"]
    /\ dispatched = {} /\ serving = {} /\ delivering = {}
    /\ met = [n \in Node |-> {}]
    /\ executed = {}

CallerStep(c) == SendRequest(c) \/ TakeResponse(c)

ListenerStep(n) == Check(n) \/ Receive(n) \/ HangUp(n)

\* The goroutines of a call's request and of its reply.
MessageStep(c) ==
    \/ \E d \in dispatched : d.msg.call = c /\ (AddToContacts(d) \/ Launch(d))
    \/ Serve(c)

HandlerStep(c) == \E d \in delivering : d.waiter = c /\ Deliver(d)

Next ==
    \/ \E c \in Call : \/ Begin(c) \/ CallerStep(c) \/ Timeout(c)
                       \/ MessageStep(c) \/ HandlerStep(c)
    \/ \E n \in Node : ListenerStep(n) \/ Close(n) \/ Unlisten(n)

Spec == Init /\ [][Next]_vars

\* Every goroutine that can run does, a Close that has begun ends, and no
\* call needs to be made, to be dropped or to time out.
Fairness ==
    /\ \A c \in Call : /\ WF_vars(CallerStep(c)) /\ WF_vars(MessageStep(c))
                       /\ WF_vars(HandlerStep(c))
    /\ \A n \in Node : WF_vars(ListenerStep(n)) /\ WF_vars(Unlisten(n))

FairSpec == Spec /\ Fairness

-----------------------------------------------------------------------------
TypeOK ==
    /\ pc \in [Call -> {"new", "registered", "waiting", "returned"}]
    /\ outcome \in [Call -> {"none", "answered", "failed"}]
    /\ response \in [Call -> 0 .. 1]
    /\ handlers = {c \in Call : pc[c] \in {"registered", "waiting"}}
    /\ queue \in [Node -> Seq(Message)]
    /\ \A n \in Node : Len(queue[n]) <= QueueMax
    /\ listed = Node \ hungUp /\ hungUp \subseteq closed /\ closed \subseteq Node
    /\ listener \in [Node -> {"check", "recv", "stopped"}]
    /\ dispatched \subseteq [msg : Message, waiters : SUBSET Call, added : BOOLEAN]
    /\ serving \subseteq executed /\ executed \subseteq Call
    /\ delivering \subseteq [waiter : Call, msg : Message]
    /\ met \in [Node -> SUBSET Node]

\* "Handle before to ensure new contacts are added before any other handler
\* is run" (kademlia_node.go:82): when a call returns a response, and when a
\* request of a type with a first-handler is executed, the other end is in
\* the routing table already.
OtherEndIsContact ==
    \A c \in Call :
        /\ outcome[c] = "answered" => Callee[c] \in met[Caller[c]]
        /\ c \in executed \cap Introduces => Caller[c] \in met[Callee[c]]

\* A reply handler never blocks on its channel, although it may run before
\* its call waits, or after the call gave up and nobody will receive.
HandlerNeverBlocks ==
    \A d \in delivering : Matches(d.waiter, d.msg) => Room(d.waiter)

\* A reply that reaches its node while the call waits for it ends the call,
\* without a timeout, unless the node is closed: the handler was registered
\* when the listener copied the handlers, whatever else was removed.
ReplyEndsCall ==
    \A c \in Call :
        (pc[c] = "waiting" /\ Reply(c) \in ToSet(queue[Caller[c]]))
            ~> (pc[c] # "waiting" \/ Caller[c] \in closed)

\* A node that was closed stops listening, whether its listener was waiting
\* for a message or not.
ClosedNodeStops ==
    \A n \in Node : n \in closed ~> listener[n] = "stopped"

\* What a caller knows of its call.
Status ==
    [c \in Call |-> CASE pc[c] = "new" -> "idle"
                      [] outcome[c] = "none" /\ pc[c] # "new" -> "pending"
                      [] OTHER -> outcome[c]]

Abstract == INSTANCE RequestReply WITH status <- Status

\* Calls implement request and reply: every request is executed at most once,
\* and a response is that of the caller's own request.
ImplementsRequestReply == Abstract!Spec
=============================================================================
