-------------------------- MODULE UdpNetworkProofs --------------------------
(***************************************************************************)
(* Proofs, for every number of networks, nodes and requests and every      *)
(* capacity of the channels, of the safety properties of UdpNetwork.       *)
(***************************************************************************)
EXTENDS UdpNetwork, TLAPS

Readable == {d \in Datagrams : Parses(d)}

Requests == {d \in Datagrams : d.content[2] = "request"}

\* TypeOK, and that each variable is a function on the addresses.  A reader
\* has a message in hand just where it looks at the flag and pushes.
ReaderInv ==
    /\ reader \in [Addr -> [at : {"none", "read", "closed?", "push", "exited"},
                            msg : Readable \cup {NoMessage}]]
    /\ \A a \in Addr :
         /\ reader[a].at \in {"closed?", "push"} => reader[a].msg \in Readable
         /\ reader[a].at \notin {"closed?", "push"} => reader[a].msg = NoMessage
         /\ a \in hungUp <=> reader[a].at = "exited"

TypeInv ==
    /\ listeners \in [Net -> SUBSET Addr] /\ partitions \in [Net -> SUBSET Addr]
    /\ closed \subseteq nodeClosed
    /\ nodeClosed \subseteq {a \in Mortal : a \in listeners[NetOf[a]]}
    /\ hungUp \subseteq closed
    /\ recvCh \in [Addr -> Seq(Readable)]
    /\ \A a \in Addr : Len(recvCh[a]) <= ChanMax
    /\ ReaderInv
    /\ listener \in [Addr -> {"none", "check", "recv", "partition", "wait", "stopped"}]
    /\ handling \in [Addr -> SUBSET Requests]
    /\ late \in [Addr -> Nat]
    /\ wire \subseteq Datagrams /\ sent \subseteq Request /\ cut \subseteq Cuttable

\* What has ended a listener: the channel is closed for a Close only, and the
\* addresses partitioned now have been partitioned.
StopsInv ==
    /\ \A n \in Net, a \in Addr : a \in partitions[n] => <<n, a>> \in cut
    /\ OnlyCloseOrPartitionStops

\* A listener that took a message after the flag was set is at the check of
\* the flag, which ends it.
LateInv ==
    \A a \in Addr :
        /\ late[a] <= 1
        /\ late[a] = 1 => a \in nodeClosed /\ listener[a] \in {"check", "stopped"}

\* A request names as its origin an address on the network of the node that
\* sent it, and an answer goes to such an address.
Genuine(d) ==
    LET origin == NetOf[Source[d.content[1]]]
    IN  /\ d.content[2] = "request" => NetOf[d.from] = origin
        /\ d.content[2] = "answer" => NetOf[d.to] = origin

\* Wherever a datagram is.
GenuineInv ==
    /\ \A n \in Net : \A a \in listeners[n] : NetOf[a] = n
    /\ \A d \in wire : Genuine(d)
    /\ \A a \in Addr :
         /\ reader[a].at \in {"closed?", "push"} => Genuine(reader[a].msg)
         /\ \A i \in DOMAIN recvCh[a] : Genuine(recvCh[a][i])
         /\ \A d \in handling[a] : Genuine(d)

-----------------------------------------------------------------------------
(* What the operators return.                                              *)

\* A node puts one datagram on the wire at most, with a listener of its
\* network as the address to reply to.
LEMMA Transmitted ==
    ASSUME TypeInv, NEW a \in Addr, NEW content \in Content, NEW to \in Addr,
           Transmit(a, content, to)
    PROVE  /\ wire' \subseteq Datagrams
           /\ \A d \in wire' : d \in wire \/ \E from \in listeners[NetOf[a]] :
                d = Datagram(content, to, from)
  <1>1. CASE UNCHANGED wire
    BY <1>1 DEF TypeInv
  <1>2. CASE \E from \in ReplyAddresses(a, to) :
                wire' = wire \cup {Datagram(content, to, from)}
    <2>1. PICK from \in listeners[NetOf[a]] :
              wire' = wire \cup {Datagram(content, to, from)}
      BY <1>2 DEF ReplyAddresses
    <2>2. from \in Addr
      BY NetAssumption DEF TypeInv
    <2>3. Datagram(content, to, from) \in Datagrams
      BY <2>2 DEF Datagram, Datagrams
    <2> QED  BY <2>1, <2>3 DEF TypeInv
  <1> QED  BY <1>1, <1>2 DEF Transmit

LEMMA ContentTypes ==
    /\ \A r \in Request : <<r, "request">> \in Content /\ <<r, "answer">> \in Content
    /\ \A d \in Datagrams : /\ d.content[1] \in Request
                            /\ d.content[2] \in {"request", "answer"}
                            /\ d.from \in Addr /\ d.to \in Addr
  BY DEF Content, Datagrams

\* What the head and the tail of a channel are.
LEMMA HeadOfChannel ==
    ASSUME TypeInv, NEW a \in Addr, recvCh[a] # <<>>
    PROVE  /\ Head(recvCh[a]) \in Readable
           /\ Tail(recvCh[a]) \in Seq(Readable)
           /\ Len(Tail(recvCh[a])) = Len(recvCh[a]) - 1
           /\ Len(recvCh[a]) \in Nat
           /\ Head(recvCh[a]) = recvCh[a][1] /\ 1 \in DOMAIN recvCh[a]
           /\ \A i \in DOMAIN Tail(recvCh[a]) :
                i + 1 \in DOMAIN recvCh[a] /\ Tail(recvCh[a])[i] = recvCh[a][i + 1]
  <1>1. recvCh[a] \in Seq(Readable)
    BY DEF TypeInv
  <1> QED  BY <1>1

-----------------------------------------------------------------------------
(* Types.                                                                  *)

LEMMA TypeInit == Init => TypeInv
  <1> SUFFICES ASSUME Init PROVE TypeInv
    OBVIOUS
  <1> USE BoundAssumption DEF Init
  <1>1. ReaderInv
    BY DEF ReaderInv
  <1>2. recvCh \in [Addr -> Seq(Readable)] /\ \A a \in Addr : Len(recvCh[a]) <= ChanMax
    <2>1. <<>> \in Seq(Readable) /\ Len(<<>>) = 0
      OBVIOUS
    <2> QED  BY <2>1
  <1> QED  BY <1>1, <1>2 DEF TypeInv

LEMMA TypeStep == TypeInv /\ [Next]_vars => TypeInv'
  <1> SUFFICES ASSUME TypeInv, [Next]_vars PROVE TypeInv'
    OBVIOUS
  <1> USE NetAssumption, RequestAssumption, BoundAssumption
  <1>1. ASSUME NEW a \in Addr, Listen(a) PROVE TypeInv'
    <2>1. a \notin hungUp
      BY <1>1 DEF Listen, TypeInv
    <2> QED  BY <1>1, <2>1 DEF Listen, TypeInv, ReaderInv
  <1>2. ASSUME NEW a \in Addr, Close(a) PROVE TypeInv'
    BY <1>2 DEF Close, TypeInv, ReaderInv, connVars, netVars
  <1>3. ASSUME NEW a \in Addr, CloseConnection(a) PROVE TypeInv'
    BY <1>3 DEF CloseConnection, TypeInv, ReaderInv, nodeVars, netVars
  <1>4. ASSUME NEW a \in Addr, CheckClosed(a) PROVE TypeInv'
    <2>1. ReaderInv'
      <3>1. CASE a \in closed
        <4>1. /\ reader' = [reader EXCEPT ![a] = [at |-> "exited", msg |-> NoMessage]]
              /\ hungUp' = hungUp \cup {a}
          BY <1>4, <3>1 DEF CheckClosed
        <4> QED  BY <4>1 DEF TypeInv, ReaderInv
      <3>2. CASE a \notin closed
        <4>1. hungUp' = hungUp /\ reader[a].at = "closed?"
          BY <1>4, <3>2 DEF CheckClosed
        <4>2. reader[a].msg \in Readable
          BY <4>1 DEF TypeInv, ReaderInv
        <4>3. [reader[a] EXCEPT !.at = "push"] = [at |-> "push", msg |-> reader[a].msg]
          BY DEF TypeInv, ReaderInv
        <4>4. reader' = [reader EXCEPT ![a] = [at |-> "push", msg |-> reader[a].msg]]
          BY <1>4, <3>2, <4>3 DEF CheckClosed
        <4> QED  BY <4>1, <4>2, <4>4 DEF TypeInv, ReaderInv
      <3> QED  BY <3>1, <3>2
    <2> QED  BY <1>4, <2>1 DEF CheckClosed, TypeInv, nodeVars, netVars
  <1>5. ASSUME NEW a \in Addr, Push(a) PROVE TypeInv'
    <2>1. ReaderInv'
      <3>1. /\ reader' = [reader EXCEPT ![a] = [at |-> "read", msg |-> NoMessage]]
            /\ hungUp' = hungUp /\ reader[a].at = "push"
        BY <1>5 DEF Push
      <3> QED  BY <3>1 DEF TypeInv, ReaderInv
    <2>2. recvCh' \in [Addr -> Seq(Readable)] /\ \A b \in Addr : Len(recvCh'[b]) <= ChanMax
      BY <1>5 DEF Push, TypeInv, ReaderInv
    <2> QED  BY <1>5, <2>1, <2>2 DEF Push, TypeInv, nodeVars, netVars
  <1>6. ASSUME NEW a \in Addr, CheckNode(a) \/ Recv(a) \/ CheckPartition(a) \/ ChannelClosed(a)
        PROVE TypeInv'
    <2>1. listener' \in [Addr -> {"none", "check", "recv", "partition", "wait", "stopped"}]
      BY <1>6 DEF CheckNode, Recv, CheckPartition, ChannelClosed, TypeInv
    <2>2. UNCHANGED <<connVars, nodeClosed, handling, late, netVars, wire, sent>>
      BY <1>6 DEF CheckNode, Recv, CheckPartition, ChannelClosed
    <2> QED  BY <2>1, <2>2 DEF TypeInv, ReaderInv, connVars, netVars
  <1>7. ASSUME NEW a \in Addr, Take(a) PROVE TypeInv'
    <2> DEFINE d == Head(recvCh[a])
    <2>1. /\ d \in Readable /\ Tail(recvCh[a]) \in Seq(Readable)
          /\ Len(Tail(recvCh[a])) = Len(recvCh[a]) - 1 /\ Len(recvCh[a]) \in Nat
      BY <1>7, HeadOfChannel DEF Take
    <2>2. handling' \in [Addr -> SUBSET Requests]
      <3>1. CASE d.content[2] = "request"
        BY <1>7, <2>1, <3>1 DEF Take, TypeInv, Readable, Requests
      <3>2. CASE d.content[2] # "request"
        BY <1>7, <3>2 DEF Take, TypeInv
      <3> QED  BY <3>1, <3>2
    <2>3. recvCh' \in [Addr -> Seq(Readable)] /\ \A b \in Addr : Len(recvCh'[b]) <= ChanMax
      BY <1>7, <2>1 DEF Take, TypeInv
    <2>4. late' \in [Addr -> Nat]
      BY <1>7 DEF Take, TypeInv
    <2>5. listener' \in [Addr -> {"none", "check", "recv", "partition", "wait", "stopped"}]
      BY <1>7 DEF Take, TypeInv
    <2>6. UNCHANGED <<closed, hungUp, reader, nodeClosed, netVars, wire, sent>>
      BY <1>7 DEF Take
    <2> QED  BY <2>2, <2>3, <2>4, <2>5, <2>6 DEF TypeInv, ReaderInv, netVars
  <1>8. ASSUME NEW a \in Addr, NEW d \in handling[a], Answer(a, d) PROVE TypeInv'
    <2>1. d \in Datagrams
      BY DEF TypeInv, Requests
    <2>2. wire' \subseteq Datagrams
      BY <1>8, <2>1, Transmitted, ContentTypes DEF Answer
    <2> QED  BY <1>8, <2>2 DEF Answer, TypeInv, ReaderInv, connVars, netVars
  <1>9. ASSUME NEW a \in Addr, NEW d \in wire, Read(a, d) PROVE TypeInv'
    <2>1. Parses(d) => d \in Readable
      BY DEF TypeInv, Readable
    <2>2. ReaderInv'
      <3>1. CASE Parses(d)
        <4>1. /\ reader' = [reader EXCEPT ![a] = [at |-> "closed?", msg |-> d]]
              /\ hungUp' = hungUp /\ reader[a].at = "read" /\ d \in Readable
          BY <1>9, <2>1, <3>1 DEF Read
        <4> QED  BY <4>1 DEF TypeInv, ReaderInv
      <3>2. CASE ~Parses(d)
        BY <1>9, <3>2 DEF Read, Unreadable, TypeInv, ReaderInv
      <3> QED  BY <3>1, <3>2
    <2>3. hungUp' = hungUp /\ wire' \subseteq wire
      BY <1>9 DEF Read, Unreadable
    <2> QED  BY <1>9, <2>2, <2>3 DEF Read, TypeInv, nodeVars, netVars
  <1>10. ASSUME NEW r \in Request, Send(r) PROVE TypeInv'
    <2>1. wire' \subseteq Datagrams
      BY <1>10, Transmitted, ContentTypes DEF Send
    <2> QED  BY <1>10, <2>1 DEF Send, TypeInv, ReaderInv, connVars, nodeVars, netVars
  <1>11. ASSUME NEW d \in wire, Lose(d) PROVE TypeInv'
    BY <1>11 DEF Lose, TypeInv, ReaderInv, connVars, nodeVars, netVars
  <1>12. ASSUME NEW n \in Net, Heal(n) PROVE TypeInv'
    BY <1>12 DEF Heal, TypeInv, ReaderInv, connVars, nodeVars
  <1>13. ASSUME NEW n \in Net, NEW group \in SUBSET Addr, Partition(n, group) PROVE TypeInv'
    BY <1>13 DEF Partition, TypeInv, ReaderInv, connVars, nodeVars
  <1>14. CASE UNCHANGED vars
    BY <1>14 DEF TypeInv, ReaderInv, vars, connVars, nodeVars, netVars
  <1> QED
    BY <1>1, <1>2, <1>3, <1>4, <1>5, <1>6, <1>7, <1>8, <1>9, <1>10, <1>11, <1>12, <1>13, <1>14
    DEF Next, ReaderStep, ListenerStep

\* TypeOK holds for every value of the constants: among others, no channel
\* holds more than ChanMax messages or one that does not parse, and a channel
\* is closed exactly when its reader has ended.
THEOREM TypeCorrect == Spec => []TypeOK
  <1>1. ASSUME TypeInv PROVE TypeOK
    <2>1. ASSUME NEW a \in Addr
          PROVE  /\ \A i \in DOMAIN recvCh[a] : recvCh[a][i] \in Datagrams /\ Parses(recvCh[a][i])
                 /\ handling[a] \subseteq {d \in Datagrams : d.content[2] = "request"}
      <3>1. recvCh[a] \in Seq(Readable) /\ handling[a] \subseteq Requests
        BY <1>1 DEF TypeInv
      <3>2. \A i \in DOMAIN recvCh[a] : recvCh[a][i] \in Readable
        BY <3>1
      <3> QED  BY <3>1, <3>2 DEF Readable, Requests
    <2>2. ASSUME NEW a \in Addr
          PROVE  /\ reader[a].at \in {"none", "read", "closed?", "push", "exited"}
                 /\ reader[a].msg \in (IF reader[a].at \in {"closed?", "push"}
                                          THEN Datagrams ELSE {NoMessage})
                 /\ a \in hungUp <=> reader[a].at = "exited"
      BY <1>1 DEF TypeInv, ReaderInv, Readable
    <2>3. \A a \in Addr : Len(recvCh[a]) <= ChanMax
                 /\ listener[a] \in {"none", "check", "recv", "partition", "wait", "stopped"}
      BY <1>1 DEF TypeInv
    <2> QED  BY <1>1, <2>1, <2>2, <2>3 DEF TypeInv, TypeOK
  <1> QED  BY <1>1, TypeInit, TypeStep, PTL DEF Spec

-----------------------------------------------------------------------------
(* What stops a listener.                                                  *)

LEMMA StopsInit == Init => StopsInv
  BY DEF Init, StopsInv, OnlyCloseOrPartitionStops

LEMMA StopsStep == TypeInv /\ StopsInv /\ [Next]_vars => StopsInv'
  <1> SUFFICES ASSUME TypeInv, StopsInv, [Next]_vars PROVE StopsInv'
    OBVIOUS
  <1> USE NetAssumption DEF StopsInv, OnlyCloseOrPartitionStops
  <1>1. ASSUME NEW a \in Addr, Listen(a) PROVE StopsInv'
    BY <1>1 DEF Listen, TypeInv
  <1>2. ASSUME NEW a \in Addr, Close(a) PROVE StopsInv'
    BY <1>2 DEF Close, connVars, netVars
  <1>3. ASSUME NEW a \in Addr, CheckNode(a) PROVE StopsInv'
    BY <1>3 DEF CheckNode, TypeInv, connVars, netVars
  <1>4. ASSUME NEW a \in Addr, Recv(a) PROVE StopsInv'
    BY <1>4 DEF Recv, TypeInv, connVars, netVars
  <1>5. ASSUME NEW a \in Addr, CheckPartition(a) PROVE StopsInv'
    BY <1>5 DEF CheckPartition, Partitioned, TypeInv, connVars, netVars
  <1>6. ASSUME NEW a \in Addr, ChannelClosed(a) PROVE StopsInv'
    BY <1>6 DEF ChannelClosed, TypeInv, connVars, netVars
  <1>7. ASSUME NEW a \in Addr, Take(a) PROVE StopsInv'
    BY <1>7 DEF Take, TypeInv, netVars
  <1>8. ASSUME NEW n \in Net, Heal(n) PROVE StopsInv'
    BY <1>8 DEF Heal, TypeInv, connVars, nodeVars
  <1>9. ASSUME NEW n \in Net, NEW group \in SUBSET Addr, Partition(n, group) PROVE StopsInv'
    BY <1>9 DEF Partition, TypeInv, connVars, nodeVars
  <1>10. CASE UNCHANGED <<nodeClosed, listener, partitions, cut>>
    BY <1>10
  <1> QED
    BY <1>1, <1>2, <1>3, <1>4, <1>5, <1>6, <1>7, <1>8, <1>9, <1>10
    DEF Next, ReaderStep, ListenerStep, CloseConnection, CheckClosed, Push, Read, Answer,
        Send, Lose, vars, connVars, nodeVars, netVars

\* Only a Close of the node or a partition of its address ends its listener,
\* whatever arrives.
THEOREM OnlyStops == Spec => []OnlyCloseOrPartitionStops
  <1>1. StopsInv => OnlyCloseOrPartitionStops
    BY DEF StopsInv
  <1> QED  BY <1>1, TypeInit, TypeStep, StopsInit, StopsStep, PTL DEF Spec

-----------------------------------------------------------------------------
(* What is received after the flag of the node is set.                     *)

LEMMA LateInit == Init => LateInv
  BY DEF Init, LateInv

LEMMA LateStep == TypeInv /\ LateInv /\ [Next]_vars => LateInv'
  <1> SUFFICES ASSUME TypeInv, LateInv, [Next]_vars PROVE LateInv'
    OBVIOUS
  <1> USE DEF LateInv
  <1>1. ASSUME NEW a \in Addr, Listen(a) PROVE LateInv'
    BY <1>1 DEF Listen, TypeInv
  <1>2. ASSUME NEW a \in Addr, Close(a) PROVE LateInv'
    BY <1>2 DEF Close
  <1>3. ASSUME NEW a \in Addr, CheckNode(a) PROVE LateInv'
    BY <1>3 DEF CheckNode, TypeInv
  <1>4. ASSUME NEW a \in Addr, Recv(a) PROVE LateInv'
    BY <1>4 DEF Recv, TypeInv
  <1>5. ASSUME NEW a \in Addr, CheckPartition(a) PROVE LateInv'
    BY <1>5 DEF CheckPartition, TypeInv
  <1>6. ASSUME NEW a \in Addr, ChannelClosed(a) PROVE LateInv'
    BY <1>6 DEF ChannelClosed, TypeInv
  <1>7. ASSUME NEW a \in Addr, Take(a) PROVE LateInv'
    <2>0. listener[a] = "wait" /\ late[a] \in Nat /\ late[a] <= 1
      BY <1>7 DEF Take, TypeInv
    <2>1. late[a] = 0
      BY <2>0
    <2>2. UNCHANGED nodeClosed /\ listener' = [listener EXCEPT ![a] = "check"]
      BY <1>7 DEF Take
    <2>3. CASE a \in nodeClosed
      <3>1. late' = [late EXCEPT ![a] = @ + 1]
        BY <1>7, <2>3 DEF Take
      <3> QED  BY <2>0, <2>1, <2>2, <2>3, <3>1 DEF TypeInv
    <2>4. CASE a \notin nodeClosed
      <3>1. late' = late
        BY <1>7, <2>4 DEF Take
      <3> QED  BY <2>0, <2>1, <2>2, <3>1 DEF TypeInv
    <2> QED  BY <2>3, <2>4
  <1>8. CASE UNCHANGED <<nodeClosed, listener, late>>
    BY <1>8
  <1> QED
    BY <1>1, <1>2, <1>3, <1>4, <1>5, <1>6, <1>7, <1>8
    DEF Next, ReaderStep, ListenerStep, CloseConnection, CheckClosed, Push, Read, Answer,
        Send, Lose, Heal, Partition, vars, connVars, nodeVars, netVars

\* A node receives at most one message once Close has set its flag.
THEOREM AtMostOneLate == Spec => []AtMostOneAfterClose
  <1>1. LateInv => AtMostOneAfterClose
    BY DEF LateInv, AtMostOneAfterClose
  <1> QED  BY <1>1, TypeInit, TypeStep, LateInit, LateStep, PTL DEF Spec

-----------------------------------------------------------------------------
(* Where answers go.                                                       *)

LEMMA GenuineInit == Init => GenuineInv
  <1> SUFFICES ASSUME Init PROVE GenuineInv
    OBVIOUS
  <1>1. ASSUME NEW a \in Addr
        PROVE  /\ reader[a].at = "none"
               /\ DOMAIN recvCh[a] = {}
               /\ handling[a] = {}
    BY DEF Init
  <1> QED  BY <1>1 DEF Init, GenuineInv

LEMMA GenuineStep == TypeInv /\ GenuineInv /\ [Next]_vars => GenuineInv'
  <1> SUFFICES ASSUME TypeInv, GenuineInv, [Next]_vars PROVE GenuineInv'
    OBVIOUS
  <1> USE NetAssumption
  <1>1. ASSUME NEW a \in Addr, Listen(a) PROVE GenuineInv'
    <2>1. \A n \in Net : \A b \in listeners'[n] : NetOf[b] = n
      BY <1>1 DEF Listen, TypeInv, GenuineInv
    <2>2. \A b \in Addr : reader'[b].at \in {"closed?", "push"} => Genuine(reader'[b].msg)
      BY <1>1 DEF Listen, TypeInv, ReaderInv, GenuineInv
    <2>3. UNCHANGED <<recvCh, handling, wire>>
      BY <1>1 DEF Listen
    <2> QED  BY <2>1, <2>2, <2>3 DEF GenuineInv, Genuine
  <1>2. ASSUME NEW r \in Request, Send(r) PROVE GenuineInv'
    <2>1. Source[r] \in Addr /\ Target[r] \in Addr /\ <<r, "request">> \in Content
      BY RequestAssumption, ContentTypes
    <2>2. \A d \in wire' : d \in wire \/ \E from \in listeners[NetOf[Source[r]]] :
              d = Datagram(<<r, "request">>, Target[r], from)
      BY <1>2, <2>1, Transmitted DEF Send
    <2>3. \A from \in listeners[NetOf[Source[r]]] :
              Genuine(Datagram(<<r, "request">>, Target[r], from))
      BY <2>1 DEF GenuineInv, Genuine, Datagram
    <2>4. \A d \in wire' : Genuine(d)
      BY <2>2, <2>3 DEF GenuineInv
    <2>5. UNCHANGED <<listeners, reader, recvCh, handling>>
      BY <1>2 DEF Send, connVars, nodeVars, netVars
    <2> QED  BY <2>4, <2>5 DEF GenuineInv, Genuine
  <1>3. ASSUME NEW a \in Addr, NEW d \in handling[a], Answer(a, d) PROVE GenuineInv'
    <2>1. d \in Datagrams /\ d.content[2] = "request"
      BY DEF TypeInv, Requests
    <2>2. NetOf[d.from] = NetOf[Source[d.content[1]]]
      BY <2>1 DEF GenuineInv, Genuine
    <2>3. \A e \in wire' : e \in wire \/ \E from \in listeners[NetOf[a]] :
              e = Datagram(<<d.content[1], "answer">>, d.from, from)
      BY <1>3, <2>1, Transmitted, ContentTypes DEF Answer
    <2>4. \A from \in Addr : Genuine(Datagram(<<d.content[1], "answer">>, d.from, from))
      BY <2>2 DEF Genuine, Datagram
    <2>5. \A e \in wire' : Genuine(e)
      <3>1. listeners[NetOf[a]] \subseteq Addr
        BY DEF TypeInv
      <3> QED  BY <2>3, <2>4, <3>1 DEF GenuineInv
    <2>6. \A b \in Addr : handling'[b] \subseteq handling[b]
      BY <1>3 DEF Answer, TypeInv
    <2>7. UNCHANGED <<listeners, reader, recvCh>>
      BY <1>3 DEF Answer, connVars, netVars
    <2> QED  BY <2>5, <2>6, <2>7 DEF GenuineInv, Genuine
  <1>4. ASSUME NEW a \in Addr, NEW d \in wire, Read(a, d) PROVE GenuineInv'
    <2>1. wire' \subseteq wire /\ UNCHANGED <<listeners, recvCh, handling>>
      BY <1>4 DEF Read, nodeVars, netVars
    <2>2. \/ reader' = reader
          \/ reader' = [reader EXCEPT ![a] = [at |-> "closed?", msg |-> d]]
      BY <1>4 DEF Read, Unreadable
    <2>3. \A b \in Addr : reader'[b].at \in {"closed?", "push"} => Genuine(reader'[b].msg)
      <3>1. CASE reader' = reader
        BY <3>1 DEF GenuineInv
      <3>2. CASE reader' = [reader EXCEPT ![a] = [at |-> "closed?", msg |-> d]]
        <4>1. Genuine(d)
          BY DEF GenuineInv
        <4>2. \A b \in Addr : reader'[b] = reader[b] \/ reader'[b].msg = d
          BY <3>2 DEF TypeInv, ReaderInv
        <4> QED  BY <4>1, <4>2 DEF GenuineInv
      <3> QED  BY <2>2, <3>1, <3>2
    <2> QED  BY <2>1, <2>3 DEF GenuineInv, Genuine
  <1>5. ASSUME NEW a \in Addr, CheckClosed(a) PROVE GenuineInv'
    <2>1. UNCHANGED <<listeners, wire, recvCh, handling>>
      BY <1>5 DEF CheckClosed, nodeVars, netVars
    <2>2. \A b \in Addr :
            \/ reader'[b].at = "exited"
            \/ reader[b].at = "closed?" /\ reader'[b].msg = reader[b].msg
            \/ reader'[b] = reader[b]
      <3>1. CASE a \in closed
        BY <1>5, <3>1 DEF CheckClosed, TypeInv, ReaderInv
      <3>2. CASE a \notin closed
        <4>1. reader' = [reader EXCEPT ![a] = [reader[a] EXCEPT !.at = "push"]]
              /\ reader[a].at = "closed?"
          BY <1>5, <3>2 DEF CheckClosed
        <4>2. [reader[a] EXCEPT !.at = "push"] = [at |-> "push", msg |-> reader[a].msg]
          BY DEF TypeInv, ReaderInv
        <4>3. reader' = [reader EXCEPT ![a] = [at |-> "push", msg |-> reader[a].msg]]
          BY <4>1, <4>2
        <4>4. reader[a].at = "closed?"
          BY <4>1
        <4> QED  BY <4>3, <4>4 DEF TypeInv, ReaderInv
      <3> QED  BY <3>1, <3>2
    <2>3. \A b \in Addr : reader'[b].at \in {"closed?", "push"} => Genuine(reader'[b].msg)
      BY <2>2 DEF GenuineInv
    <2> QED  BY <2>1, <2>3 DEF GenuineInv, Genuine
  <1>6. ASSUME NEW a \in Addr, Push(a) PROVE GenuineInv'
    <2>1. UNCHANGED <<listeners, wire, handling>>
      BY <1>6 DEF Push, nodeVars, netVars
    <2>2. \A b \in Addr : reader'[b].at \in {"closed?", "push"} => Genuine(reader'[b].msg)
      <3>1. reader' = [reader EXCEPT ![a] = [at |-> "read", msg |-> NoMessage]]
        BY <1>6 DEF Push
      <3> QED  BY <3>1 DEF TypeInv, ReaderInv, GenuineInv
    <2>3. reader[a].msg \in Readable /\ Genuine(reader[a].msg)
      BY <1>6 DEF Push, TypeInv, ReaderInv, GenuineInv
    <2>4. ASSUME NEW b \in Addr, NEW i \in DOMAIN recvCh'[b] PROVE Genuine(recvCh'[b][i])
      <3>1. recvCh[a] \in Seq(Readable) /\ recvCh[b] \in Seq(Readable)
        BY DEF TypeInv
      <3>2. CASE recvCh'[b] = recvCh[b]
        BY <3>2, <2>4 DEF GenuineInv
      <3>3. CASE b = a /\ recvCh'[a] = Append(recvCh[a], reader[a].msg)
        <4>1. \/ i \in DOMAIN recvCh[a] /\ recvCh'[a][i] = recvCh[a][i]
              \/ recvCh'[a][i] = reader[a].msg
          BY <2>3, <2>4, <3>1, <3>3
        <4> QED  BY <4>1, <3>3, <2>3 DEF GenuineInv
      <3> QED  BY <1>6, <3>2, <3>3 DEF Push, TypeInv
    <2> QED  BY <2>1, <2>2, <2>4 DEF GenuineInv, Genuine
  <1>7. ASSUME NEW a \in Addr, Take(a) PROVE GenuineInv'
    <2>1. UNCHANGED <<listeners, wire, reader>>
      BY <1>7 DEF Take, netVars
    <2>2. recvCh[a] # <<>>
      BY <1>7 DEF Take
    <2>3. ASSUME NEW b \in Addr, NEW i \in DOMAIN recvCh'[b] PROVE Genuine(recvCh'[b][i])
      <3>1. CASE recvCh'[b] = recvCh[b]
        BY <3>1, <2>3 DEF GenuineInv
      <3>2. CASE b = a /\ recvCh'[a] = Tail(recvCh[a])
        BY <2>2, <2>3, <3>2, HeadOfChannel DEF GenuineInv
      <3> QED  BY <1>7, <3>1, <3>2 DEF Take, TypeInv
    <2>4. Genuine(Head(recvCh[a]))
      BY <2>2, HeadOfChannel DEF GenuineInv
    <2>5. \A b \in Addr : \A d \in handling'[b] : d \in handling[b] \/ d = Head(recvCh[a])
      <3>1. CASE handling' = handling
        BY <3>1
      <3>2. CASE handling' = [handling EXCEPT ![a] = @ \cup {Head(recvCh[a])}]
        BY <3>2 DEF TypeInv
      <3> QED  BY <1>7, <3>1, <3>2 DEF Take
    <2> QED  BY <2>1, <2>3, <2>4, <2>5 DEF GenuineInv, Genuine
  <1>8. CASE UNCHANGED <<listeners, reader, recvCh, handling>> /\ wire' \subseteq wire
    BY <1>8 DEF GenuineInv, Genuine
  <1> QED
    BY <1>1, <1>2, <1>3, <1>4, <1>5, <1>6, <1>7, <1>8
    DEF Next, ReaderStep, ListenerStep, Close, CloseConnection, CheckNode, Recv,
        CheckPartition, ChannelClosed, Lose, Heal, Partition, vars, connVars, nodeVars, netVars

\* An answer goes to the node that asked, if it alone listens on its network.
THEOREM AnswersGoBack == Spec => []AnswerGoesBack
  <1>1. TypeInv /\ GenuineInv => AnswerGoesBack
    <2> SUFFICES ASSUME TypeInv, GenuineInv, NEW d \in wire,
                        d.content[2] = "answer", Sole(Source[d.content[1]])
                 PROVE  d.to = Source[d.content[1]]
      BY DEF AnswerGoesBack
    <2>1. d.to \in Addr
      BY ContentTypes DEF TypeInv
    <2>2. NetOf[d.to] = NetOf[Source[d.content[1]]]
      BY DEF GenuineInv, Genuine
    <2> QED  BY <2>1, <2>2 DEF Sole
  <1> QED  BY <1>1, TypeInit, TypeStep, GenuineInit, GenuineStep, PTL DEF Spec
=============================================================================
