---------------------------- MODULE UdpNetwork ----------------------------
(***************************************************************************)
(* The network of the real program: udpNetwork and udpConnection           *)
(* (network/udp_network.go), one network for each process, with the        *)
(* listener of each node that is started on it (Start and Close of         *)
(* node/node.go).  Nodes send requests and answer those they receive.      *)
(*                                                                         *)
(* Datagrams are lost, duplicated and reordered: that is UDP.  wire is     *)
(* what the network and the buffers of the sockets hold.  A socket is      *)
(* never closed, so ReadFromUDP reports no error.                          *)
(***************************************************************************)
EXTENDS Naturals, Sequences, FiniteSets

CONSTANTS
    Net,            \* the networks, one for each process
    Addr,           \* the addresses of the nodes
    NetOf,          \* Addr -> Net: the network a node is started on
    Request,        \* the requests, each sent once
    Source, Target, \* Request -> Addr: the node that sends it, and where to
    Long,           \* SUBSET Content: those of more than 1024 bytes
    ChanMax,        \* capacity of recvCh
    Repeated,       \* a bound: SUBSET Content: what the network may duplicate
    Mortal,         \* a bound: the nodes that may be closed
    Cuttable        \* a bound: the <<net, addr>> that are partitioned, once each

\* What a datagram carries: a request, or the answer to it.
Content == Request \X {"request", "answer"}

ASSUME NetAssumption == NetOf \in [Addr -> Net]
ASSUME RequestAssumption ==
    /\ Source \in [Request -> Addr] /\ Target \in [Request -> Addr]
    /\ Long \subseteq Content /\ Repeated \subseteq Content
ASSUME BoundAssumption ==
    ChanMax \in Nat \ {0} /\ Mortal \subseteq Addr /\ Cuttable \subseteq Net \X Addr

VARIABLES
    listeners,      \* the addresses in use on each network
    partitions,     \* the addresses each network has partitioned
    nodeClosed,     \* the nodes whose closed flag is set
    closed,         \* the connections whose closed flag is set
    recvCh,         \* the channel of each connection: its messages
    hungUp,         \* the connections whose channel is closed
    reader,         \* where listen() of each connection is, with what it has read
    listener,       \* where the loop of Start of each node is
    handling,       \* the requests each node has received and not yet answered
    wire,           \* the datagrams under way
    sent,           \* the requests that Send was called with
    cut,            \* history: the <<net, addr>> partitioned so far
    late            \* history: how many messages a node received after its flag

connVars == <<closed, recvCh, hungUp, reader>>
nodeVars == <<nodeClosed, listener, handling, late>>
netVars == <<listeners, partitions, cut>>
vars == <<connVars, nodeVars, netVars, wire, sent>>

\* What listen() has read and not yet handed on: nothing.
NoMessage == [content |-> "none"]

Datagram(content, to, from) == [content |-> content, to |-> to, from |-> from]

Parses(d) == d.content \notin Long

Partitioned(a) == a \in partitions[NetOf[a]]

-----------------------------------------------------------------------------
(* The network.                                                            *)

\* "address already in use" unless it is new.  NewNode and Start.
Listen(a) ==
    /\ a \notin listeners[NetOf[a]]
    /\ listeners' = [listeners EXCEPT ![NetOf[a]] = @ \cup {a}]
    /\ reader' = [reader EXCEPT ![a] = [at |-> "read", msg |-> NoMessage]]
    /\ listener' = [listener EXCEPT ![a] = "check"]
    /\ UNCHANGED <<closed, recvCh, hungUp, nodeClosed, handling, late,
                   partitions, cut, wire, sent>>

\* Mutant of ReplyAddresses: the address that is dialled.
ReplyAddressesDialled(a, to) == {to}

\* "If there are any listeners, add the first one as a reply address": in the
\* order of a map, that is any one, whichever node dials.
ReplyAddresses(a, to) == listeners[NetOf[a]]

\* Dial and Send by node a.  The address it gives as From is not sent.
Transmit(a, content, to) ==
    IF to \in partitions[NetOf[a]]
        THEN UNCHANGED wire
        ELSE \E from \in ReplyAddresses(a, to) :
                wire' = wire \cup {Datagram(content, to, from)}

Send(r) ==
    /\ r \notin sent
    /\ Source[r] \in listeners[NetOf[Source[r]]]
    /\ Transmit(Source[r], <<r, "request">>, Target[r])
    /\ sent' = sent \cup {r}
    /\ UNCHANGED <<connVars, nodeVars, netVars>>

\* A handler answers a request to the address it came from.
Answer(a, d) ==
    /\ d \in handling[a]
    /\ handling' = [handling EXCEPT ![a] = @ \ {d}]
    /\ Transmit(a, <<d.content[1], "answer">>, d.from)
    /\ UNCHANGED <<connVars, nodeClosed, listener, late, netVars, sent>>

Partition(n, group) ==
    /\ group # {} /\ {n} \X group \subseteq Cuttable \ cut
    /\ partitions' = [partitions EXCEPT ![n] = @ \cup group]
    /\ cut' = cut \cup ({n} \X group)
    /\ UNCHANGED <<connVars, nodeVars, listeners, wire, sent>>

Heal(n) ==
    /\ partitions[n] # {}
    /\ partitions' = [partitions EXCEPT ![n] = {}]
    /\ UNCHANGED <<connVars, nodeVars, listeners, cut, wire, sent>>

Lose(d) ==
    /\ wire' = wire \ {d}
    /\ UNCHANGED <<connVars, nodeVars, netVars, sent>>

-----------------------------------------------------------------------------
(* listen(), the goroutine of a connection.                                *)

\* Mutant of Unreadable: listen() returns.
UnreadableEnds(a) ==
    /\ reader' = [reader EXCEPT ![a].at = "exited"]
    /\ hungUp' = hungUp \cup {a}

\* A datagram that is cut at 1024 bytes, or no message: continue.
Unreadable(a) == UNCHANGED <<reader, hungUp>>

\* The datagram may come once more.
Read(a, d) ==
    /\ reader[a].at = "read" /\ d.to = a
    /\ wire' \in {wire \ {d}} \cup {w \in {wire} : d.content \in Repeated}
    /\ IF Parses(d)
        THEN /\ reader' = [reader EXCEPT ![a] = [at |-> "closed?", msg |-> d]]
             /\ UNCHANGED hungUp
        ELSE Unreadable(a)
    /\ UNCHANGED <<closed, recvCh, nodeVars, netVars, sent>>

\* Mutant of CheckClosed: the flag ends Recv only.
CheckClosedNot(a) ==
    /\ reader[a].at = "closed?"
    /\ reader' = [reader EXCEPT ![a].at = "push"]
    /\ UNCHANGED hungUp
    /\ UNCHANGED <<closed, recvCh, nodeVars, netVars, wire, sent>>

\* The flag is looked at with a message in hand, which is given up if it is
\* set.
CheckClosed(a) ==
    /\ reader[a].at = "closed?"
    /\ IF a \in closed
        THEN /\ reader' = [reader EXCEPT ![a] = [at |-> "exited", msg |-> NoMessage]]
             /\ hungUp' = hungUp \cup {a}
        ELSE /\ reader' = [reader EXCEPT ![a].at = "push"]
             /\ UNCHANGED hungUp
    /\ UNCHANGED <<closed, recvCh, nodeVars, netVars, wire, sent>>

\* "Drop message to prevent stalling" if the channel is full.
Push(a) ==
    /\ reader[a].at = "push"
    /\ recvCh' = IF Len(recvCh[a]) < ChanMax
                    THEN [recvCh EXCEPT ![a] = Append(@, reader[a].msg)]
                    ELSE recvCh
    /\ reader' = [reader EXCEPT ![a] = [at |-> "read", msg |-> NoMessage]]
    /\ UNCHANGED <<closed, hungUp, nodeVars, netVars, wire, sent>>

-----------------------------------------------------------------------------
(* The loop of Start, and Recv, which it calls.                            *)

\* Mutant of CheckNode: the loop relies on Recv to fail.
CheckNodeNot(a) ==
    /\ listener[a] = "check"
    /\ listener' = [listener EXCEPT ![a] = "recv"]
    /\ UNCHANGED <<connVars, nodeClosed, handling, late, netVars, wire, sent>>

CheckNode(a) ==
    /\ listener[a] = "check"
    /\ listener' = [listener EXCEPT ![a] = IF a \in nodeClosed THEN "stopped" ELSE "recv"]
    /\ UNCHANGED <<connVars, nodeClosed, handling, late, netVars, wire, sent>>

\* "Connection not listening".
Recv(a) ==
    /\ listener[a] = "recv"
    /\ listener' = [listener EXCEPT ![a] = IF a \in closed THEN "stopped" ELSE "partition"]
    /\ UNCHANGED <<connVars, nodeClosed, handling, late, netVars, wire, sent>>

\* "Check if network is partitioned": then Recv fails, and the loop ends.
CheckPartition(a) ==
    /\ listener[a] = "partition"
    /\ listener' = [listener EXCEPT ![a] = IF Partitioned(a) THEN "stopped" ELSE "wait"]
    /\ UNCHANGED <<connVars, nodeClosed, handling, late, netVars, wire, sent>>

\* A message is received, and its handlers are started.
Take(a) ==
    /\ listener[a] = "wait" /\ recvCh[a] # <<>>
    /\ recvCh' = [recvCh EXCEPT ![a] = Tail(@)]
    /\ listener' = [listener EXCEPT ![a] = "check"]
    /\ LET d == Head(recvCh[a])
       IN  handling' = IF d.content[2] = "request"
                         THEN [handling EXCEPT ![a] = @ \cup {d}]
                         ELSE handling
    /\ late' = IF a \in nodeClosed THEN [late EXCEPT ![a] = @ + 1] ELSE late
    /\ UNCHANGED <<closed, hungUp, reader, nodeClosed, netVars, wire, sent>>

\* "Connection closed".
ChannelClosed(a) ==
    /\ listener[a] = "wait" /\ recvCh[a] = <<>> /\ a \in hungUp
    /\ listener' = [listener EXCEPT ![a] = "stopped"]
    /\ UNCHANGED <<connVars, nodeClosed, handling, late, netVars, wire, sent>>

-----------------------------------------------------------------------------
(* Close of a node: its flag, then its connection.  The address is not     *)
(* given back, and the socket stays open.                                  *)

Close(a) ==
    /\ a \in (Mortal \cap listeners[NetOf[a]]) \ nodeClosed
    /\ nodeClosed' = nodeClosed \cup {a}
    /\ UNCHANGED <<connVars, listener, handling, late, netVars, wire, sent>>

\* Mutant of CloseConnection: it closes the channel as well.
CloseConnectionAndChannel(a) ==
    /\ a \in nodeClosed \ closed
    /\ closed' = closed \cup {a}
    /\ hungUp' = hungUp \cup {a}
    /\ UNCHANGED <<recvCh, reader, nodeVars, netVars, wire, sent>>

\* "Just set closed parameter and let listen() exit gracefully".
CloseConnection(a) ==
    /\ a \in nodeClosed \ closed
    /\ closed' = closed \cup {a}
    /\ UNCHANGED <<recvCh, hungUp, reader, nodeVars, netVars, wire, sent>>

-----------------------------------------------------------------------------
Init ==
    /\ listeners = [n \in Net |-> {}] /\ partitions = [n \in Net |-> {}]
    /\ nodeClosed = {} /\ closed = {} /\ hungUp = {}
    /\ recvCh = [a \in Addr |-> <<>>]
    /\ reader = [a \in Addr |-> [at |-> "none", msg |-> NoMessage]]
    /\ listener = [a \in Addr |-> "none"]
    /\ handling = [a \in Addr |-> {}]
    /\ wire = {} /\ sent = {} /\ cut = {}
    /\ late = [a \in Addr |-> 0]

\* What listen() does once it has read a message.
ReaderStep(a) == CheckClosed(a) \/ Push(a)

ListenerStep(a) ==
    \/ CheckNode(a) \/ Recv(a) \/ CheckPartition(a) \/ Take(a) \/ ChannelClosed(a)

Next ==
    \/ \E a \in Addr :
         \/ Listen(a) \/ Close(a) \/ CloseConnection(a)
         \/ ReaderStep(a) \/ ListenerStep(a)
         \/ \E d \in handling[a] : Answer(a, d)
         \/ \E d \in wire : Read(a, d)
    \/ \E r \in Request : Send(r)
    \/ \E d \in wire : Lose(d)
    \/ \E n \in Net : Heal(n) \/ \E group \in SUBSET Addr : Partition(n, group)

Spec == Init /\ [][Next]_vars

\* The two goroutines of a node go on.  Nothing is assumed of the network,
\* nor that a reader waiting in ReadFromUDP ever gets a message.
FairSpec == Spec /\ \A a \in Addr : WF_vars(ReaderStep(a)) /\ WF_vars(ListenerStep(a))

-----------------------------------------------------------------------------
Datagrams == [content : Content, to : Addr, from : Addr]

\* A channel is closed by its reader only, as the last thing it does: a send
\* on a closed channel would end the process.
TypeOK ==
    /\ listeners \in [Net -> SUBSET Addr] /\ partitions \in [Net -> SUBSET Addr]
    /\ closed \subseteq nodeClosed
    /\ nodeClosed \subseteq {a \in Mortal : a \in listeners[NetOf[a]]}
    /\ \A a \in Addr :
         /\ Len(recvCh[a]) <= ChanMax
         /\ \A i \in DOMAIN recvCh[a] : recvCh[a][i] \in Datagrams /\ Parses(recvCh[a][i])
         /\ reader[a].at \in {"none", "read", "closed?", "push", "exited"}
         /\ reader[a].msg \in (IF reader[a].at \in {"closed?", "push"} THEN Datagrams ELSE {NoMessage})
         /\ listener[a] \in {"none", "check", "recv", "partition", "wait", "stopped"}
         /\ handling[a] \subseteq {d \in Datagrams : d.content[2] = "request"}
         /\ a \in hungUp <=> reader[a].at = "exited"
    /\ wire \subseteq Datagrams /\ sent \subseteq Request /\ cut \subseteq Cuttable

\* The node alone listens on its network.
Sole(a) == \A b \in Addr : NetOf[b] = NetOf[a] => b = a

\* The answer to a request of a node is sent to that node, if no other one
\* listens on its network, as in the program; with several it may go to any of
\* them, which then also stands in the routing table for the one that asked.
AnswerGoesBack ==
    \A d \in wire :
        d.content[2] = "answer" /\ Sole(Source[d.content[1]])
            => d.to = Source[d.content[1]]

\* A node receives at most one message after Close has set its flag, however
\* many are queued, and although the flag of its connection is set later.
AtMostOneAfterClose == \A a \in Addr : late[a] <= 1

\* Nothing that arrives stops a node: its listener ends only after a Close of
\* the node, or after a partition of its address, which Heal does not undo.
OnlyCloseOrPartitionStops ==
    \A a \in Addr :
        listener[a] = "stopped" => a \in nodeClosed \/ <<NetOf[a], a>> \in cut

\* "Just set closed parameter and let listen() exit gracefully": both
\* goroutines of a closed node end with the next message listen() reads,
\* wherever the listener is; it reads one more only if something is sent.
ClosedEndsAtNextMessage ==
    \A a \in Mortal :
        (a \in closed /\ reader[a].at = "closed?")
            ~> (reader[a].at = "exited" /\ listener[a] = "stopped")
=============================================================================
