----------------------------- MODULE RpcProofs -----------------------------
(***************************************************************************)
(* Proofs, for every number of nodes and calls and every capacity of the   *)
(* queues, of the safety properties of Rpc, and that its calls implement   *)
(* RequestReply.                                                           *)
(***************************************************************************)
EXTENDS Rpc, TLAPS

\* The messages in the channels of their receivers.
Queued == {m \in Message : \E i \in DOMAIN queue[To(m)] : queue[To(m)][i] = m}

\* The messages whose goroutine waits for first-handlers.
Dispatching == {d.msg : d \in dispatched}

\* The calls with a reply handler that holds their own reply.
Answering == {c \in Call : [waiter |-> c, msg |-> Reply(c)] \in delivering}

\* A message is in a channel once, and one goroutine has it in hand; only
\* replies go to waiting calls.
PlacesInv ==
    /\ \A n \in Node : \A i \in DOMAIN queue[n] :
         /\ To(queue[n][i]) = n
         /\ \A j \in DOMAIN queue[n] : queue[n][j] = queue[n][i] => i = j
    /\ \A d, e \in dispatched : d.msg = e.msg => d = e
    /\ \A d \in dispatched : d.msg.type = "request" => d.waiters = {}
    /\ \A d \in delivering : d.msg.type = "reply"

\* What a call has on its way is in one place: its request, its handler, its
\* reply or the response.
PhaseOK(c) ==
    /\ outcome[c] = "none" <=> pc[c] # "returned"
    /\ pc[c] \in {"new", "registered"} =>
         Request(c) \notin Queued \cup Dispatching /\ c \notin executed
    /\ Request(c) \in Queued => Request(c) \notin Dispatching /\ c \notin executed
    /\ Request(c) \in Dispatching => c \notin executed
    /\ c \notin executed \/ c \in serving =>
         /\ Reply(c) \notin Queued \cup Dispatching
         /\ c \notin Answering /\ response[c] = 0 /\ outcome[c] # "answered"
    /\ Reply(c) \in Queued => Reply(c) \notin Dispatching
    /\ Reply(c) \in Queued \cup Dispatching => c \notin Answering /\ response[c] = 0
    /\ c \in Answering => response[c] = 0

PhaseInv == PlacesInv /\ \A c \in Call : PhaseOK(c)

\* Whoever has gone through the first-handlers has added the sender.
MetInv ==
    /\ \A d \in dispatched : d.added => From(d.msg) \in met[To(d.msg)]
    /\ \A d \in delivering : d.msg.type = "reply" /\ From(d.msg) \in met[To(d.msg)]
    /\ \A d \in dispatched : d.msg.type = "request" => d.waiters = {}
    /\ \A c \in Call : response[c] > 0 => Callee[c] \in met[Caller[c]]
    /\ OtherEndIsContact

-----------------------------------------------------------------------------
(* Messages and channels.                                                  *)

LEMMA MessageFacts ==
    /\ \A c \in Call : /\ Request(c) \in Message /\ Reply(c) \in Message
                       /\ To(Request(c)) = Callee[c] /\ From(Request(c)) = Caller[c]
                       /\ To(Reply(c)) = Caller[c] /\ From(Reply(c)) = Callee[c]
                       /\ Request(c).type = "request" /\ Request(c).call = c
                       /\ Reply(c).type = "reply" /\ Reply(c).call = c
    /\ \A c, d \in Call : Request(c) # Reply(d)
    /\ \A m \in Message : /\ m.call \in Call /\ To(m) \in Node /\ From(m) \in Node
                          /\ \/ m.type = "request" /\ m = Request(m.call)
                             \/ m.type = "reply" /\ m = Reply(m.call)
  BY EndsAssumption DEF Message, Request, Reply, To, From

\* The channels after a successful send of a message that was in none.
LEMMA PushedFacts ==
    ASSUME TypeOK, PlacesInv, NEW m \in Message, Pushed(m), m \notin Queued
    PROVE  /\ queue' \in [Node -> Seq(Message)]
           /\ Queued' = Queued \cup {m}
           /\ \A n \in Node : \A i \in DOMAIN queue'[n] :
                /\ To(queue'[n][i]) = n
                /\ \A j \in DOMAIN queue'[n] : queue'[n][j] = queue'[n][i] => i = j
  <1> DEFINE q == queue[To(m)]
  <1>1. To(m) \in Node /\ \A x \in Message : To(x) \in Node
    BY MessageFacts
  <1>2. q \in Seq(Message) /\ queue' = [queue EXCEPT ![To(m)] = Append(q, m)]
    BY <1>1 DEF TypeOK, Pushed
  <1>3. queue' \in [Node -> Seq(Message)]
    BY <1>1, <1>2 DEF TypeOK
  <1>4. /\ DOMAIN Append(q, m) = DOMAIN q \cup {Len(q) + 1} /\ Len(q) + 1 \notin DOMAIN q
        /\ Append(q, m)[Len(q) + 1] = m
        /\ \A i \in DOMAIN q : Append(q, m)[i] = q[i]
    BY <1>2
  <1>5. /\ \A n \in Node \ {To(m)} : queue'[n] = queue[n]
        /\ queue'[To(m)] = Append(q, m)
    BY <1>1, <1>2 DEF TypeOK
  <1>6. PICK p : /\ p \notin DOMAIN queue[To(m)]
                 /\ DOMAIN queue'[To(m)] = DOMAIN queue[To(m)] \cup {p}
                 /\ queue'[To(m)][p] = m
                 /\ \A i \in DOMAIN queue[To(m)] : /\ queue'[To(m)][i] = queue[To(m)][i]
                                                   /\ queue[To(m)][i] # m
    BY <1>4, <1>5 DEF Queued
  <1> HIDE DEF q
  <1>7. Queued' = Queued \cup {m}
    <2>1. ASSUME NEW x \in Message
          PROVE  (\E i \in DOMAIN queue'[To(x)] : queue'[To(x)][i] = x)
                     <=> x = m \/ \E i \in DOMAIN queue[To(x)] : queue[To(x)][i] = x
      <3>1. CASE To(x) = To(m)
        BY <1>6, <3>1
      <3>2. CASE To(x) # To(m)
        BY <1>1, <1>5, <3>2
      <3> QED  BY <3>1, <3>2
    <2> QED  BY <2>1 DEF Queued
  <1>8. ASSUME NEW n \in Node, NEW i \in DOMAIN queue'[n]
        PROVE  /\ To(queue'[n][i]) = n
               /\ \A j \in DOMAIN queue'[n] : queue'[n][j] = queue'[n][i] => i = j
    <2>1. CASE n = To(m)
      <3>1. \A j \in DOMAIN queue'[n] : j = p \/ j \in DOMAIN queue[n]
        BY <1>6, <2>1
      <3>2. CASE i = p
        BY <1>6, <2>1, <3>1, <3>2
      <3>3. CASE i \in DOMAIN queue[n]
        BY <1>6, <2>1, <3>1, <3>3 DEF PlacesInv
      <3> QED  BY <1>8, <3>1, <3>2, <3>3
    <2>2. CASE n # To(m)
      BY <1>5, <1>8, <2>2 DEF PlacesInv
    <2> QED  BY <2>1, <2>2
  <1> QED  BY <1>3, <1>7, <1>8

\* The channels after a message was received.
LEMMA ReceivedFacts ==
    ASSUME TypeOK, PlacesInv, NEW n \in Node, queue[n] # <<>>,
           queue' = [queue EXCEPT ![n] = Tail(@)]
    PROVE  /\ Head(queue[n]) \in Message /\ To(Head(queue[n])) = n
           /\ Head(queue[n]) \in Queued
           /\ queue' \in [Node -> Seq(Message)]
           /\ \A b \in Node : Len(queue'[b]) <= QueueMax
           /\ Queued' = Queued \ {Head(queue[n])}
           /\ \A b \in Node : \A i \in DOMAIN queue'[b] :
                /\ To(queue'[b][i]) = b
                /\ \A j \in DOMAIN queue'[b] : queue'[b][j] = queue'[b][i] => i = j
  <1> DEFINE q == queue[n]  m == Head(q)
  <1>1. q \in Seq(Message) /\ q # <<>> /\ \A x \in Message : To(x) \in Node
    BY MessageFacts DEF TypeOK
  <1>2. /\ m \in Message /\ m = q[1] /\ 1 \in DOMAIN q /\ Tail(q) \in Seq(Message)
        /\ Len(Tail(q)) <= Len(q) /\ Len(q) \in Nat /\ Len(Tail(q)) \in Nat
        /\ \A i \in DOMAIN Tail(q) : i + 1 \in DOMAIN q /\ i + 1 # 1 /\ i \in Nat
                                     /\ Tail(q)[i] = q[i + 1]
        /\ \A i \in DOMAIN q : i = 1 \/ (i - 1 \in DOMAIN Tail(q) /\ Tail(q)[i - 1] = q[i])
    BY <1>1
  <1>3. queue'[n] = Tail(q) /\ \A b \in Node \ {n} : queue'[b] = queue[b]
    BY DEF TypeOK
  <1>4. To(m) = n /\ \A i \in DOMAIN Tail(q) : Tail(q)[i] # m
    BY <1>2 DEF PlacesInv
  <1>5. queue' \in [Node -> Seq(Message)] /\ \A b \in Node : Len(queue'[b]) <= QueueMax
    <2>1. Len(Tail(q)) <= QueueMax
      BY <1>2, QueueMaxAssumption DEF TypeOK
    <2> QED  BY <1>2, <1>3, <2>1 DEF TypeOK
  <1>6. m \in Queued
    BY <1>2, <1>4 DEF Queued
  <1>7. ASSUME NEW b \in Node, NEW i \in DOMAIN queue'[b]
        PROVE  /\ To(queue'[b][i]) = b
               /\ \A j \in DOMAIN queue'[b] : queue'[b][j] = queue'[b][i] => i = j
    <2>1. CASE b = n
      <3>1. i \in Nat /\ i + 1 \in DOMAIN q /\ queue'[b][i] = q[i + 1]
        BY <1>2, <1>3, <1>7, <2>1
      <3>2. ASSUME NEW j \in DOMAIN queue'[b], queue'[b][j] = queue'[b][i] PROVE i = j
        <4>1. j \in Nat /\ j + 1 \in DOMAIN q /\ queue'[b][j] = q[j + 1]
          BY <1>2, <1>3, <2>1
        <4>2. i + 1 = j + 1
          BY <3>1, <3>2, <4>1 DEF PlacesInv
        <4> QED  BY <3>1, <4>1, <4>2
      <3> QED  BY <2>1, <3>1, <3>2 DEF PlacesInv
    <2>2. CASE b # n
      BY <1>3, <1>7, <2>2 DEF PlacesInv
    <2> QED  BY <2>1, <2>2
  <1> HIDE DEF q, m
  <1>8. Queued' = Queued \ {m}
    <2>1. ASSUME NEW x \in Message
          PROVE  (\E i \in DOMAIN queue'[To(x)] : queue'[To(x)][i] = x)
                     <=> x # m /\ \E i \in DOMAIN queue[To(x)] : queue[To(x)][i] = x
      <3>1. CASE To(x) = n
        <4>1. ASSUME NEW i \in DOMAIN Tail(q), Tail(q)[i] = x
              PROVE  x # m /\ \E j \in DOMAIN q : q[j] = x
          BY <1>2, <1>4, <4>1
        <4>2. ASSUME NEW j \in DOMAIN q, q[j] = x, x # m
              PROVE  \E i \in DOMAIN Tail(q) : Tail(q)[i] = x
          BY <1>2, <4>2
        <4> QED  BY <1>3, <3>1, <4>1, <4>2 DEF q
      <3>2. CASE To(x) # n
        BY <1>1, <1>3, <1>4, <3>2
      <3> QED  BY <3>1, <3>2
    <2> QED  BY <2>1 DEF Queued
  <1> QED  BY <1>2, <1>4, <1>5, <1>6, <1>7, <1>8 DEF q, m

-----------------------------------------------------------------------------
(* Types.                                                                  *)

LEMMA TypeInit == Init => TypeOK
  <1> SUFFICES ASSUME Init PROVE TypeOK
    OBVIOUS
  <1>1. queue \in [Node -> Seq(Message)] /\ \A n \in Node : Len(queue[n]) <= QueueMax
    <2>1. <<>> \in Seq(Message) /\ Len(<<>>) = 0
      OBVIOUS
    <2> QED  BY <2>1, QueueMaxAssumption DEF Init
  <1>2. response \in [Call -> 0 .. 1]
    BY DEF Init
  <1>3. handlers = {c \in Call : pc[c] \in {"registered", "waiting"}}
    BY DEF Init
  <1> QED  BY <1>1, <1>2, <1>3 DEF Init, TypeOK

\* A send leaves the channels within their capacity.
LEMMA SendTypes ==
    ASSUME TypeOK, NEW m \in Message, Pushed(m) \/ Dropped(m) \/ Refused(m)
    PROVE  queue' \in [Node -> Seq(Message)] /\ \A n \in Node : Len(queue'[n]) <= QueueMax
  <1>1. CASE Pushed(m)
    <2>1. To(m) \in Node /\ queue[To(m)] \in Seq(Message)
      BY MessageFacts DEF TypeOK
    <2>2. /\ Len(Append(queue[To(m)], m)) <= QueueMax
          /\ Append(queue[To(m)], m) \in Seq(Message)
      BY <1>1, <2>1, QueueMaxAssumption DEF Pushed
    <2> QED  BY <1>1, <2>1, <2>2 DEF Pushed, TypeOK
  <1>2. CASE Dropped(m) \/ Refused(m)
    BY <1>2 DEF Dropped, Refused, TypeOK
  <1> QED  BY <1>1, <1>2

LEMMA TypeStep == TypeOK /\ [Next]_vars => TypeOK'
  <1> SUFFICES ASSUME TypeOK, [Next]_vars PROVE TypeOK'
    OBVIOUS
  <1> DEFINE QueueOK == /\ queue \in [Node -> Seq(Message)]
                        /\ \A n \in Node : Len(queue[n]) <= QueueMax
  <1>0. QueueOK
    BY DEF TypeOK
  <1>1. ASSUME NEW c \in Call, Begin(c) PROVE TypeOK'
    BY <1>1 DEF Begin, TypeOK, netVars, nodeVars
  <1>2. ASSUME NEW c \in Call, SendRequest(c) PROVE TypeOK'
    <2>1. QueueOK'
      BY <1>2, SendTypes, MessageFacts DEF SendRequest
    <2>2. UNCHANGED <<response, listed, hungUp, nodeVars>> /\ pc[c] = "registered"
      BY <1>2 DEF SendRequest
    <2>3. \/ pc' = [pc EXCEPT ![c] = "waiting"] /\ UNCHANGED <<outcome, handlers>>
          \/ Return(c, "failed")
      BY <1>2 DEF SendRequest
    <2>4. /\ pc' \in [Call -> {"new", "registered", "waiting", "returned"}]
          /\ outcome' \in [Call -> {"none", "answered", "failed"}]
          /\ handlers' = {d \in Call : pc'[d] \in {"registered", "waiting"}}
      BY <2>2, <2>3 DEF Return, TypeOK
    <2> QED  BY <2>1, <2>2, <2>4 DEF TypeOK, nodeVars
  <1>3. ASSUME NEW c \in Call, TakeResponse(c) \/ Timeout(c) PROVE TypeOK'
    <2>1. UNCHANGED <<netVars, nodeVars>> /\ response' \in [Call -> 0 .. 1]
      BY <1>3 DEF TakeResponse, Timeout, TypeOK
    <2>2. Return(c, "answered") \/ Return(c, "failed")
      BY <1>3 DEF TakeResponse, Timeout
    <2> QED  BY <2>1, <2>2 DEF Return, TypeOK, netVars, nodeVars
  <1>4. ASSUME NEW n \in Node, Check(n) \/ HangUp(n) PROVE TypeOK'
    BY <1>4 DEF Check, HangUp, TypeOK, callVars, netVars
  <1>5. ASSUME NEW n \in Node, Receive(n) PROVE TypeOK'
    <2>1. queue[n] \in Seq(Message) /\ queue[n] # <<>>
      BY <1>5 DEF Receive, TypeOK
    <2>2. /\ Head(queue[n]) \in Message /\ Tail(queue[n]) \in Seq(Message)
          /\ Len(Tail(queue[n])) <= Len(queue[n])
          /\ Len(queue[n]) \in Nat /\ Len(Tail(queue[n])) \in Nat
      BY <2>1
    <2>3. queue' = [queue EXCEPT ![n] = Tail(@)]
      BY <1>5 DEF Receive
    <2>4. QueueOK'
      BY <2>2, <2>3, QueueMaxAssumption DEF TypeOK
    <2>5. dispatched' \subseteq [msg : Message, waiters : SUBSET Call, added : BOOLEAN]
      <3>1. PICK copy \in SUBSET Call :
               dispatched' = dispatched \cup
                   {[msg |-> Head(queue[n]), waiters |-> copy, added |-> FALSE]}
        <4>1. {c \in handlers : Caller[c] = n} \in SUBSET Call /\ {} \in SUBSET Call
          BY DEF TypeOK
        <4> QED  BY <1>5, <4>1 DEF Receive
      <3>2. ASSUME NEW m \in Message
            PROVE  [msg |-> m, waiters |-> copy, added |-> FALSE]
                       \in [msg : Message, waiters : SUBSET Call, added : BOOLEAN]
        OBVIOUS
      <3> QED  BY <2>2, <3>1, <3>2 DEF TypeOK
    <2>6. listener' \in [Node -> {"check", "recv", "stopped"}]
      BY <1>5 DEF Receive, TypeOK
    <2> QED  BY <1>5, <2>4, <2>5, <2>6 DEF Receive, TypeOK, callVars
  <1>6. ASSUME NEW d \in dispatched, AddToContacts(d) PROVE TypeOK'
    <2>1. d \in [msg : Message, waiters : SUBSET Call, added : BOOLEAN]
      BY DEF TypeOK
    <2>2. From(d.msg) \in Node /\ To(d.msg) \in Node
      BY <2>1, MessageFacts
    <2> QED  BY <1>6, <2>1, <2>2 DEF AddToContacts, TypeOK, callVars, netVars
  <1>7. ASSUME NEW d \in dispatched, Launch(d) PROVE TypeOK'
    <2>1. d.msg \in Message /\ d.waiters \subseteq Call /\ d.msg.call \in Call
      BY MessageFacts DEF TypeOK
    <2>2. delivering' \subseteq [waiter : Call, msg : Message]
      BY <1>7, <2>1 DEF Launch, TypeOK
    <2>3. serving' \subseteq executed' /\ executed' \subseteq Call
      BY <1>7, <2>1 DEF Launch, TypeOK
    <2> QED  BY <1>7, <2>2, <2>3 DEF Launch, TypeOK, callVars, netVars
  <1>8. ASSUME NEW c \in Call, Serve(c) PROVE TypeOK'
    <2>1. QueueOK'
      BY <1>8, SendTypes, MessageFacts DEF Serve
    <2> QED  BY <1>8, <2>1 DEF Serve, TypeOK, callVars
  <1>9. ASSUME NEW d \in delivering, Deliver(d) PROVE TypeOK'
    <2>1. d.waiter \in Call
      BY DEF TypeOK
    <2>2. response' \in [Call -> 0 .. 1]
      <3>1. CASE Matches(d.waiter, d.msg)
        <4>1. response[d.waiter] \in 0 .. 1 /\ response[d.waiter] < 1
          BY <1>9, <2>1, <3>1 DEF Deliver, Room, TypeOK
        <4>2. response[d.waiter] + 1 \in 0 .. 1
          BY <4>1
        <4>3. response' = [response EXCEPT ![d.waiter] = @ + 1]
          BY <1>9, <3>1 DEF Deliver
        <4> QED  BY <2>1, <4>2, <4>3 DEF TypeOK
      <3>2. CASE ~Matches(d.waiter, d.msg)
        BY <1>9, <3>2 DEF Deliver, TypeOK
      <3> QED  BY <3>1, <3>2
    <2> QED  BY <1>9, <2>2 DEF Deliver, TypeOK, netVars
  <1>10. ASSUME NEW n \in Node, Close(n) PROVE TypeOK'
    BY <1>10 DEF Close, TypeOK, callVars, netVars
  <1>11. ASSUME NEW n \in Node, Unlisten(n) PROVE TypeOK'
    BY <1>11 DEF Unlisten, EndConnection, TypeOK, callVars, nodeVars
  <1>12. CASE UNCHANGED vars
    BY <1>12 DEF TypeOK, vars, callVars, netVars, nodeVars
  <1> QED
    BY <1>1, <1>2, <1>3, <1>4, <1>5, <1>6, <1>7, <1>8, <1>9, <1>10, <1>11, <1>12
    DEF Next, CallerStep, MessageStep, HandlerStep, ListenerStep

\* TypeOK holds for every value of the constants: among others, exactly the
\* calls that have begun and not returned have a handler registered.
THEOREM TypeCorrect == Spec => []TypeOK
  BY TypeInit, TypeStep, PTL DEF Spec

-----------------------------------------------------------------------------
(* Where the messages of a call are.                                       *)

LEMMA PhaseInit == Init => PhaseInv
  <1> SUFFICES ASSUME Init PROVE PhaseInv
    OBVIOUS
  <1>1. /\ Dispatching = {} /\ Answering = {}
        /\ \A n \in Node : DOMAIN queue[n] = {}
    BY DEF Init, Dispatching, Answering
  <1>2. Queued = {}
    BY <1>1, MessageFacts DEF Queued
  <1>3. PlacesInv
    BY <1>1 DEF Init, PlacesInv
  <1>4. \A c \in Call : PhaseOK(c)
    BY <1>1, <1>2 DEF Init, PhaseOK
  <1> QED  BY <1>3, <1>4 DEF PhaseInv

\* What a send does, successful or not.
LEMMA SendFacts ==
    ASSUME TypeOK, PlacesInv, NEW m \in Message, m \notin Queued,
           Pushed(m) \/ Dropped(m) \/ Refused(m), UNCHANGED <<dispatched, delivering>>
    PROVE  PlacesInv' /\ (Queued' = Queued \/ Queued' = Queued \cup {m})
  <1>1. CASE Pushed(m)
    BY <1>1, PushedFacts DEF PlacesInv
  <1>2. CASE Dropped(m) \/ Refused(m)
    BY <1>2 DEF Dropped, Refused, PlacesInv, Queued
  <1> QED  BY <1>1, <1>2

LEMMA PhaseStep == TypeOK /\ PhaseInv /\ [Next]_vars => PhaseInv'
  <1> SUFFICES ASSUME TypeOK, PhaseInv, [Next]_vars PROVE PhaseInv'
    OBVIOUS
  <1>places. PlacesInv
    BY DEF PhaseInv
  <1>phase. \A x \in Call : PhaseOK(x)
    BY DEF PhaseInv
  <1>msg. \A x \in Call : response[x] \in 0 .. 1
    BY DEF TypeOK
  <1>1. ASSUME NEW c \in Call, Begin(c) PROVE PhaseInv'
    <2>1. /\ UNCHANGED <<outcome, response, queue, dispatched, serving, delivering, executed>>
          /\ pc' = [pc EXCEPT ![c] = "registered"] /\ pc[c] = "new"
      BY <1>1 DEF Begin, netVars, nodeVars
    <2>2. PlacesInv' /\ Queued' = Queued /\ Dispatching' = Dispatching /\ Answering' = Answering
      BY <2>1, <1>places DEF PlacesInv, Queued, Dispatching, Answering
    <2>3. \A x \in Call : PhaseOK(x)'
      BY <2>1, <2>2, <1>phase DEF PhaseOK, TypeOK
    <2> QED  BY <2>2, <2>3 DEF PhaseInv
  <1>2. ASSUME NEW c \in Call, SendRequest(c) PROVE PhaseInv'
    <2>1. /\ UNCHANGED <<response, dispatched, serving, delivering, executed>>
          /\ pc[c] = "registered"
          /\ Pushed(Request(c)) \/ Dropped(Request(c)) \/ Refused(Request(c))
      BY <1>2 DEF SendRequest, nodeVars
    <2>2. \/ pc' = [pc EXCEPT ![c] = "waiting"] /\ outcome' = outcome
          \/ /\ pc' = [pc EXCEPT ![c] = "returned"]
             /\ outcome' = [outcome EXCEPT ![c] = "failed"]
      BY <1>2 DEF SendRequest, Return
    <2>3. Request(c) \in Message /\ Request(c) \notin Queued
      BY <2>1, <1>phase, MessageFacts DEF PhaseOK
    <2>4. PlacesInv' /\ (Queued' = Queued \/ Queued' = Queued \cup {Request(c)})
      BY <2>1, <2>3, <1>places, SendFacts
    <2>5. Dispatching' = Dispatching /\ Answering' = Answering
      BY <2>1 DEF Dispatching, Answering
    <2>6. ASSUME NEW x \in Call PROVE PhaseOK(x)'
      <3>1. Reply(x) # Request(c) /\ (Request(x) = Request(c) => x = c)
        BY MessageFacts
      <3> QED  BY <2>1, <2>2, <2>4, <2>5, <3>1, <1>phase DEF PhaseOK, TypeOK
    <2> QED  BY <2>4, <2>6 DEF PhaseInv
  <1>3. ASSUME NEW c \in Call, TakeResponse(c) \/ Timeout(c) PROVE PhaseInv'
    <2>1. /\ UNCHANGED <<queue, dispatched, serving, delivering, executed>>
          /\ pc[c] = "waiting"
          /\ pc' = [pc EXCEPT ![c] = "returned"]
      BY <1>3 DEF TakeResponse, Timeout, Return, netVars, nodeVars
    <2>2. \/ /\ response[c] > 0 /\ response' = [response EXCEPT ![c] = @ - 1]
             /\ outcome' = [outcome EXCEPT ![c] = "answered"]
          \/ response' = response /\ outcome' = [outcome EXCEPT ![c] = "failed"]
      BY <1>3 DEF TakeResponse, Timeout, Return
    <2>3. PlacesInv' /\ Queued' = Queued /\ Dispatching' = Dispatching /\ Answering' = Answering
      BY <2>1, <1>places DEF PlacesInv, Queued, Dispatching, Answering
    <2>4. ASSUME NEW x \in Call PROVE PhaseOK(x)'
      BY <2>1, <2>2, <2>3, <1>phase, <1>msg DEF PhaseOK, TypeOK
    <2> QED  BY <2>3, <2>4 DEF PhaseInv
  <1>4. ASSUME NEW n \in Node, Receive(n) PROVE PhaseInv'
    <2> DEFINE m == Head(queue[n])
    <2>1. /\ queue[n] # <<>> /\ queue' = [queue EXCEPT ![n] = Tail(@)]
          /\ UNCHANGED <<pc, outcome, response, serving, delivering, executed>>
      BY <1>4 DEF Receive, callVars
    <2>2. PICK copy : /\ dispatched' = dispatched \cup
                             {[msg |-> m, waiters |-> copy, added |-> FALSE]}
                      /\ m.type = "request" => copy = {}
      BY <1>4 DEF Receive
    <2>3. /\ m \in Message /\ m \in Queued
          /\ Queued' = Queued \ {m}
          /\ \A b \in Node : \A i \in DOMAIN queue'[b] :
               /\ To(queue'[b][i]) = b
               /\ \A j \in DOMAIN queue'[b] : queue'[b][j] = queue'[b][i] => i = j
      BY <2>1, <1>places, ReceivedFacts
    <2> HIDE DEF m
    <2>4. PICK c \in Call : m = Request(c) \/ m = Reply(c)
      BY <2>3, MessageFacts
    <2>5. m \notin Dispatching
      BY <2>3, <2>4, <1>phase DEF PhaseOK
    <2>6. \A d \in dispatched : d.msg # m
      BY <2>5 DEF Dispatching
    <2> DEFINE new == [msg |-> m, waiters |-> copy, added |-> FALSE]
    <2>7. new.msg = m /\ new.waiters = copy /\ dispatched' = dispatched \cup {new}
      BY <2>2
    <2> HIDE DEF new
    <2>8. PlacesInv'
      BY <2>1, <2>2, <2>3, <2>6, <2>7, <1>places DEF PlacesInv
    <2>9. Dispatching' = Dispatching \cup {m} /\ Answering' = Answering
      BY <2>1, <2>7 DEF Dispatching, Answering
    <2>10. ASSUME NEW x \in Call PROVE PhaseOK(x)'
      <3>1. \/ m = Request(c) /\ m # Reply(x) /\ (m = Request(x) => x = c)
            \/ m = Reply(c) /\ m # Request(x) /\ (m = Reply(x) => x = c)
        BY <2>4, MessageFacts
      <3> QED  BY <2>1, <2>3, <2>5, <2>9, <3>1, <1>phase DEF PhaseOK
    <2> QED  BY <2>8, <2>10 DEF PhaseInv
  <1>5. ASSUME NEW d \in dispatched, AddToContacts(d) PROVE PhaseInv'
    <2> DEFINE new == [d EXCEPT !.added = TRUE]
    <2>1. /\ dispatched' = (dispatched \ {d}) \cup {new}
          /\ UNCHANGED <<pc, outcome, response, queue, serving, delivering, executed>>
      BY <1>5 DEF AddToContacts, callVars, netVars
    <2>2. new.msg = d.msg /\ new.waiters = d.waiters
      BY DEF TypeOK
    <2> HIDE DEF new
    <2>3. PlacesInv'
      BY <2>1, <2>2, <1>places DEF PlacesInv
    <2>4. Dispatching' = Dispatching
      BY <2>1, <2>2 DEF Dispatching
    <2>5. Queued' = Queued /\ Answering' = Answering
      BY <2>1 DEF Queued, Answering
    <2>6. \A x \in Call : PhaseOK(x)'
      BY <2>1, <2>4, <2>5, <1>phase DEF PhaseOK
    <2> QED  BY <2>3, <2>6 DEF PhaseInv
  <1>6. ASSUME NEW d \in dispatched, Launch(d) PROVE PhaseInv'
    <2>1. /\ dispatched' = dispatched \ {d}
          /\ delivering' = delivering \cup {[waiter |-> w, msg |-> d.msg] : w \in d.waiters}
          /\ UNCHANGED <<pc, outcome, response, queue>>
      BY <1>6 DEF Launch, callVars, netVars
    <2>2. d.msg \in Message /\ d.msg \in Dispatching
      BY DEF TypeOK, Dispatching
    <2>3. Dispatching' = Dispatching \ {d.msg} /\ Queued' = Queued
      BY <2>1, <1>places DEF Dispatching, PlacesInv, Queued
    <2>4. ASSUME NEW e \in delivering' PROVE e.msg.type = "reply"
      <3>1. CASE e \in delivering
        BY <3>1, <1>places DEF PlacesInv
      <3>2. CASE e \notin delivering
        <4>1. PICK w \in d.waiters : e = [waiter |-> w, msg |-> d.msg]
          BY <2>1, <3>2
        <4>2. d.msg.type = "reply"
          BY <2>2, <4>1, <1>places, MessageFacts DEF PlacesInv
        <4> QED  BY <4>1, <4>2
      <3> QED  BY <3>1, <3>2
    <2>5. PlacesInv'
      BY <2>1, <2>4, <1>places DEF PlacesInv
    <2>6. CASE d.msg.type = "request"
      <3> DEFINE c == d.msg.call
      <3>1. c \in Call /\ d.msg = Request(c)
        BY <2>2, <2>6, MessageFacts
      <3>2. /\ serving' = serving \cup {c} /\ executed' = executed \cup {c}
            /\ delivering' = delivering
        BY <1>6, <2>1, <2>6, <1>places DEF Launch, PlacesInv
      <3>3. Answering' = Answering
        BY <3>2 DEF Answering
      <3> HIDE DEF c
      <3>4. ASSUME NEW x \in Call PROVE PhaseOK(x)'
        <4>1. Reply(x) # Request(c) /\ (Request(x) = Request(c) => x = c)
          BY <3>1, MessageFacts
        <4>2. c \notin executed
          BY <2>2, <3>1, <1>phase DEF PhaseOK
        <4>3. pc[c] \notin {"new", "registered"}
          BY <2>2, <3>1, <1>phase DEF PhaseOK
        <4> QED  BY <2>1, <2>2, <2>3, <3>1, <3>2, <3>3, <4>1, <4>2, <4>3, <1>phase DEF PhaseOK
      <3> QED  BY <2>5, <3>4 DEF PhaseInv
    <2>7. CASE d.msg.type # "request"
      <3> DEFINE c == d.msg.call
      <3>1. c \in Call /\ d.msg = Reply(c)
        BY <2>2, <2>7, MessageFacts
      <3>2. serving' = serving /\ executed' = executed
        BY <1>6, <2>7 DEF Launch
      <3>3. \A x \in Call : x \in Answering' => x \in Answering \/ x = c
        <4>1. \A x \in Call : Reply(x).call = x
          BY MessageFacts
        <4> QED  BY <2>1, <3>1, <4>1 DEF Answering
      <3>4. Answering \subseteq Answering' /\ Answering' \subseteq Call
        BY <2>1 DEF Answering
      <3> HIDE DEF c
      <3>5. ASSUME NEW x \in Call PROVE PhaseOK(x)'
        <4>1. Request(x) # Reply(c) /\ (Reply(x) = Reply(c) => x = c)
          <5>1. Reply(x).call = x /\ Reply(c).call = c /\ Request(x) # Reply(c)
            BY <3>1, MessageFacts
          <5> QED  BY <5>1
        <4> QED  BY <2>1, <2>2, <2>3, <3>1, <3>2, <3>3, <3>4, <4>1, <1>phase DEF PhaseOK
      <3> QED  BY <2>5, <3>5 DEF PhaseInv
    <2> QED  BY <2>6, <2>7
  <1>7. ASSUME NEW c \in Call, Serve(c) PROVE PhaseInv'
    <2>1. /\ UNCHANGED <<pc, outcome, response, dispatched, delivering, executed>>
          /\ c \in serving /\ serving' = serving \ {c}
          /\ Pushed(Reply(c)) \/ Dropped(Reply(c)) \/ Refused(Reply(c))
      BY <1>7 DEF Serve, callVars
    <2>2. Reply(c) \in Message /\ Reply(c) \notin Queued
      BY <2>1, <1>phase, MessageFacts DEF PhaseOK
    <2>3. PlacesInv' /\ (Queued' = Queued \/ Queued' = Queued \cup {Reply(c)})
      BY <2>1, <2>2, <1>places, SendFacts
    <2>4. Dispatching' = Dispatching /\ Answering' = Answering
      BY <2>1 DEF Dispatching, Answering
    <2>5. ASSUME NEW x \in Call PROVE PhaseOK(x)'
      <3>1. Request(x) # Reply(c) /\ (Reply(x) = Reply(c) => x = c)
        <4>1. Reply(x).call = x /\ Reply(c).call = c /\ Request(x) # Reply(c)
          BY MessageFacts
        <4> QED  BY <4>1
      <3>2. c \in executed
        BY <2>1 DEF TypeOK
      <3> QED  BY <2>1, <2>3, <2>4, <3>1, <3>2, <1>phase DEF PhaseOK
    <2> QED  BY <2>3, <2>5 DEF PhaseInv
  <1>8. ASSUME NEW d \in delivering, Deliver(d) PROVE PhaseInv'
    <2>1. /\ UNCHANGED <<pc, outcome, queue, dispatched, serving, executed>>
          /\ delivering' = delivering \ {d}
      BY <1>8 DEF Deliver, netVars
    <2>2. /\ d.waiter \in Call /\ d.msg \in Message /\ d.msg.type = "reply"
          /\ d = [waiter |-> d.waiter, msg |-> d.msg]
      BY <1>places DEF TypeOK, PlacesInv
    <2>3. d.msg = Reply(d.msg.call) /\ d.msg.call \in Call
      BY <2>2, MessageFacts
    <2>4. PlacesInv' /\ Queued' = Queued /\ Dispatching' = Dispatching
      BY <2>1, <1>places DEF PlacesInv, Queued, Dispatching
    <2>5. CASE Matches(d.waiter, d.msg)
      <3> DEFINE c == d.waiter
      <3>1. d = [waiter |-> c, msg |-> Reply(c)] /\ response' = [response EXCEPT ![c] = @ + 1]
        BY <1>8, <2>2, <2>3, <2>5 DEF Deliver, Matches
      <3>2. c \in Answering /\ Answering' = Answering \ {c}
        BY <2>1, <2>2, <3>1 DEF Answering
      <3> HIDE DEF c
      <3>3. ASSUME NEW x \in Call PROVE PhaseOK(x)'
        BY <2>1, <2>4, <3>1, <3>2, <1>phase DEF PhaseOK, TypeOK
      <3> QED  BY <2>4, <3>3 DEF PhaseInv
    <2>6. CASE ~Matches(d.waiter, d.msg)
      <3>1. response' = response /\ d.msg.call # d.waiter
        BY <1>8, <2>6 DEF Deliver, Matches
      <3>2. \A x \in Call : d # [waiter |-> x, msg |-> Reply(x)]
        <4>1. \A x \in Call : Reply(x).call = x
          BY MessageFacts
        <4>2. ASSUME NEW x \in Call, d = [waiter |-> x, msg |-> Reply(x)] PROVE FALSE
          BY <3>1, <4>1, <4>2
        <4> QED  BY <4>2
      <3>3. Answering' = Answering
        BY <2>1, <3>2 DEF Answering
      <3>4. \A x \in Call : PhaseOK(x)'
        BY <2>1, <2>4, <3>1, <3>3, <1>phase DEF PhaseOK
      <3> QED  BY <2>4, <3>4 DEF PhaseInv
    <2> QED  BY <2>5, <2>6
  <1>9. CASE UNCHANGED <<pc, outcome, response, queue, dispatched, serving, delivering, executed>>
    <2>1. PlacesInv' /\ Queued' = Queued /\ Dispatching' = Dispatching /\ Answering' = Answering
      BY <1>9, <1>places DEF PlacesInv, Queued, Dispatching, Answering
    <2>2. \A x \in Call : PhaseOK(x)'
      BY <1>9, <2>1, <1>phase DEF PhaseOK
    <2> QED  BY <2>1, <2>2 DEF PhaseInv
  <1> QED
    BY <1>1, <1>2, <1>3, <1>4, <1>5, <1>6, <1>7, <1>8, <1>9
    DEF Next, CallerStep, MessageStep, HandlerStep, ListenerStep, Check, HangUp, Close,
        Unlisten, vars, callVars, netVars, nodeVars

\* A reply handler never waits for room in its channel: the one reply a call
\* can get finds it empty, whether the call still waits or not.
THEOREM NeverBlocks == Spec => []HandlerNeverBlocks
  <1>1. TypeOK /\ PhaseInv => HandlerNeverBlocks
    <2> SUFFICES ASSUME TypeOK, PhaseInv, NEW d \in delivering, Matches(d.waiter, d.msg)
                 PROVE  Room(d.waiter)
      BY DEF HandlerNeverBlocks
    <2>1. /\ d.waiter \in Call /\ d.msg \in Message /\ d.msg.type = "reply"
          /\ d = [waiter |-> d.waiter, msg |-> d.msg]
      BY DEF TypeOK, PhaseInv, PlacesInv
    <2>2. d.msg = Reply(d.waiter)
      BY <2>1, MessageFacts DEF Matches
    <2>3. d.waiter \in Answering
      BY <2>1, <2>2 DEF Answering
    <2> QED  BY <2>1, <2>3 DEF PhaseInv, PhaseOK, Room
  <1> QED  BY <1>1, TypeInit, TypeStep, PhaseInit, PhaseStep, PTL DEF Spec

-----------------------------------------------------------------------------
(* Contacts come first.                                                    *)

LEMMA MetInit == Init => MetInv
  BY DEF Init, MetInv, OtherEndIsContact

LEMMA MetStep == TypeOK /\ MetInv /\ [Next]_vars => MetInv'
  <1> SUFFICES ASSUME TypeOK, MetInv, [Next]_vars PROVE MetInv'
    OBVIOUS
  <1> USE DEF MetInv, OtherEndIsContact
  <1>1. ASSUME NEW c \in Call, TakeResponse(c) PROVE MetInv'
    <2>1. /\ response[c] > 0 /\ response' = [response EXCEPT ![c] = @ - 1]
          /\ outcome' = [outcome EXCEPT ![c] = "answered"]
          /\ UNCHANGED <<dispatched, delivering, met, executed>>
      BY <1>1 DEF TakeResponse, Return, nodeVars
    <2>2. \A x \in Call : response'[x] > 0 => response[x] > 0
      <3>1. response[c] \in 0 .. 1
        BY DEF TypeOK
      <3> QED  BY <2>1, <3>1 DEF TypeOK
    <2>3. \A x \in Call : outcome'[x] = "answered" => outcome[x] = "answered" \/ x = c
      BY <2>1 DEF TypeOK
    <2> QED  BY <2>1, <2>2, <2>3
  <1>2. ASSUME NEW c \in Call, Timeout(c) \/ SendRequest(c) PROVE MetInv'
    <2>1. UNCHANGED <<response, dispatched, delivering, met, executed>>
      BY <1>2 DEF Timeout, SendRequest, nodeVars
    <2>2. outcome' = outcome \/ outcome' = [outcome EXCEPT ![c] = "failed"]
      BY <1>2 DEF Timeout, SendRequest, Return
    <2> QED  BY <2>1, <2>2 DEF TypeOK
  <1>3. ASSUME NEW n \in Node, Receive(n) PROVE MetInv'
    <2>1. PICK new : /\ dispatched' = dispatched \cup {new} /\ ~new.added
                     /\ new.msg.type = "request" => new.waiters = {}
      <3> DEFINE m == Head(queue[n])
                 copy == IF m.type = "reply" THEN {c \in handlers : Caller[c] = n} ELSE {}
      <3>1. dispatched' = dispatched \cup {[msg |-> m, waiters |-> copy, added |-> FALSE]}
        BY <1>3 DEF Receive
      <3>2. m.type = "request" => copy = {}
        OBVIOUS
      <3> DEFINE e == [msg |-> m, waiters |-> copy, added |-> FALSE]
      <3>3. e.msg = m /\ e.waiters = copy /\ ~e.added
        OBVIOUS
      <3> HIDE DEF m, copy, e
      <3> QED  BY <3>1, <3>2, <3>3 DEF e
    <2>2. UNCHANGED <<response, outcome, delivering, met, executed>>
      BY <1>3 DEF Receive, callVars
    <2> QED  BY <2>1, <2>2
  <1>4. ASSUME NEW d \in dispatched, AddToContacts(d) PROVE MetInv'
    <2> DEFINE new == [d EXCEPT !.added = TRUE]
    <2>1. /\ dispatched' = (dispatched \ {d}) \cup {new}
          /\ met' = [met EXCEPT ![To(d.msg)] = @ \cup {From(d.msg)}]
          /\ UNCHANGED <<response, outcome, delivering, executed>>
      BY <1>4 DEF AddToContacts, callVars
    <2>2. d.msg \in Message /\ new.msg = d.msg /\ new.waiters = d.waiters
      BY DEF TypeOK
    <2> HIDE DEF new
    <2>3. /\ From(d.msg) \in met'[To(d.msg)]
          /\ \A n \in Node : met[n] \subseteq met'[n]
      BY <2>1, <2>2, MessageFacts DEF TypeOK
    <2>4. \A e \in delivering : To(e.msg) \in Node
      BY MessageFacts DEF TypeOK
    <2>5. \A e \in dispatched : To(e.msg) \in Node
      BY MessageFacts DEF TypeOK
    <2>6. \A c \in Call : Callee[c] \in Node /\ Caller[c] \in Node
      BY EndsAssumption
    <2> QED  BY <2>1, <2>2, <2>3, <2>4, <2>5, <2>6
  <1>5. ASSUME NEW d \in dispatched, Launch(d) PROVE MetInv'
    <2>1. /\ dispatched' = dispatched \ {d} /\ FirstHandlersDone(d)
          /\ delivering' = delivering \cup {[waiter |-> w, msg |-> d.msg] : w \in d.waiters}
          /\ UNCHANGED <<response, outcome, met>>
      BY <1>5 DEF Launch, callVars
    <2>2. d.msg \in Message /\ d.added \in BOOLEAN
      BY DEF TypeOK
    <2>3. Introducing(d.msg) => From(d.msg) \in met[To(d.msg)]
      BY <2>1 DEF FirstHandlersDone
    <2>4. ASSUME NEW e \in delivering' PROVE e.msg.type = "reply" /\ From(e.msg) \in met[To(e.msg)]
      <3>1. CASE e \in delivering
        BY <3>1
      <3>2. CASE e \notin delivering
        <4>1. e.msg = d.msg /\ d.waiters # {}
          BY <2>1, <3>2
        <4>2. d.msg.type = "reply"
          BY <2>2, <4>1, MessageFacts
        <4> QED  BY <2>3, <4>1, <4>2 DEF Introducing
      <3> QED  BY <3>1, <3>2
    <2>5. ASSUME NEW c \in executed' \cap Introduces PROVE Caller[c] \in met[Callee[c]]
      <3>1. CASE c \in executed
        <4>1. c \in Call
          BY <3>1 DEF TypeOK
        <4> QED  BY <3>1, <4>1
      <3>2. CASE c \notin executed
        <4>1. d.msg.type = "request" /\ c = d.msg.call
          BY <1>5, <3>2 DEF Launch
        <4>2. d.msg = Request(c) /\ c \in Call
          BY <2>2, <4>1, MessageFacts
        <4>3. From(d.msg) = Caller[c] /\ To(d.msg) = Callee[c]
          BY <4>2, MessageFacts
        <4> QED  BY <2>3, <4>1, <4>3 DEF Introducing
      <3> QED  BY <3>1, <3>2
    <2> QED  BY <2>1, <2>4, <2>5
  <1>6. ASSUME NEW d \in delivering, Deliver(d) PROVE MetInv'
    <2>1. UNCHANGED <<outcome, dispatched, met, executed>> /\ delivering' = delivering \ {d}
      BY <1>6 DEF Deliver
    <2>2. CASE Matches(d.waiter, d.msg)
      <3>1. response' = [response EXCEPT ![d.waiter] = @ + 1] /\ d.msg.call = d.waiter
        BY <1>6, <2>2 DEF Deliver, Matches
      <3>2. d.msg = Reply(d.waiter) /\ d.waiter \in Call
        <4>1. d.msg \in Message /\ d.msg.type = "reply" /\ d.waiter \in Call
          BY DEF TypeOK
        <4> QED  BY <3>1, <4>1, MessageFacts
      <3>3. Callee[d.waiter] \in met[Caller[d.waiter]]
        BY <3>2, MessageFacts
      <3>4. \A c \in Call : c # d.waiter => response'[c] = response[c]
        BY <3>1 DEF TypeOK
      <3> QED  BY <2>1, <3>3, <3>4
    <2>3. CASE ~Matches(d.waiter, d.msg)
      BY <1>6, <2>1, <2>3 DEF Deliver
    <2> QED  BY <2>2, <2>3
  <1>7. CASE UNCHANGED <<response, outcome, dispatched, delivering, met, executed>>
    BY <1>7
  <1> QED
    BY <1>1, <1>2, <1>3, <1>4, <1>5, <1>6, <1>7
    DEF Next, Begin, CallerStep, MessageStep, HandlerStep, ListenerStep, Check, HangUp,
        Serve, Close, Unlisten, vars, callVars, netVars, nodeVars

\* Whenever a call returns a response, or a request with a first-handler is
\* executed, the other end has been added to the routing table.
THEOREM ContactsFirst == Spec => []OtherEndIsContact
  <1>1. MetInv => OtherEndIsContact
    BY DEF MetInv
  <1> QED  BY <1>1, TypeInit, TypeStep, MetInit, MetStep, PTL DEF Spec

-----------------------------------------------------------------------------
(* Calls implement request and reply.                                      *)

LEMMA StatusStep ==
    ASSUME TypeOK, PhaseInv, [Next]_vars
    PROVE  [Abstract!Next]_<<Status, executed>>
  <1>1. ASSUME NEW c \in Call, Begin(c) PROVE Abstract!Request(c)
    <2>1. /\ pc[c] = "new" /\ pc' = [pc EXCEPT ![c] = "registered"]
          /\ UNCHANGED <<outcome, executed>>
      BY <1>1 DEF Begin, nodeVars
    <2>2. Status[c] = "idle" /\ Status' = [Status EXCEPT ![c] = "pending"]
      BY <2>1 DEF Status, TypeOK, PhaseInv, PhaseOK
    <2> QED  BY <2>1, <2>2 DEF Abstract!Request
  <1>2. ASSUME NEW c \in Call, SendRequest(c)
        PROVE  Abstract!GiveUp(c) \/ UNCHANGED <<Status, executed>>
    <2>1. /\ pc[c] = "registered" /\ executed' = executed /\ outcome[c] = "none"
          /\ \/ pc' = [pc EXCEPT ![c] = "waiting"] /\ outcome' = outcome
             \/ /\ pc' = [pc EXCEPT ![c] = "returned"]
                /\ outcome' = [outcome EXCEPT ![c] = "failed"]
      BY <1>2 DEF SendRequest, Return, nodeVars, PhaseInv, PhaseOK
    <2>2. CASE pc' = [pc EXCEPT ![c] = "waiting"] /\ outcome' = outcome
      <3>1. Status' = Status
        BY <2>1, <2>2 DEF Status, TypeOK
      <3> QED  BY <2>1, <3>1
    <2>3. CASE /\ pc' = [pc EXCEPT ![c] = "returned"]
               /\ outcome' = [outcome EXCEPT ![c] = "failed"]
      <3>1. Status[c] = "pending" /\ Status' = [Status EXCEPT ![c] = "failed"]
        BY <2>1, <2>3 DEF Status, TypeOK
      <3> QED  BY <2>1, <3>1 DEF Abstract!GiveUp
    <2> QED  BY <2>1, <2>2, <2>3
  <1>3. ASSUME NEW c \in Call, TakeResponse(c) PROVE Abstract!Succeed(c)
    <2>1. /\ pc[c] = "waiting" /\ pc' = [pc EXCEPT ![c] = "returned"] /\ response[c] > 0
          /\ outcome' = [outcome EXCEPT ![c] = "answered"] /\ executed' = executed
          /\ outcome[c] = "none"
      BY <1>3 DEF TakeResponse, Return, nodeVars, PhaseInv, PhaseOK
    <2>2. c \in executed
      BY <2>1 DEF PhaseInv, PhaseOK
    <2>3. Status[c] = "pending" /\ Status' = [Status EXCEPT ![c] = "answered"]
      BY <2>1 DEF Status, TypeOK
    <2> QED  BY <2>1, <2>2, <2>3 DEF Abstract!Succeed
  <1>4. ASSUME NEW c \in Call, Timeout(c) PROVE Abstract!GiveUp(c)
    <2>1. /\ pc[c] = "waiting" /\ pc' = [pc EXCEPT ![c] = "returned"]
          /\ outcome' = [outcome EXCEPT ![c] = "failed"] /\ executed' = executed
          /\ outcome[c] = "none"
      BY <1>4 DEF Timeout, Return, nodeVars, PhaseInv, PhaseOK
    <2>2. Status[c] = "pending" /\ Status' = [Status EXCEPT ![c] = "failed"]
      BY <2>1 DEF Status, TypeOK
    <2> QED  BY <2>1, <2>2 DEF Abstract!GiveUp
  <1>5. ASSUME NEW d \in dispatched, Launch(d)
        PROVE  (\E c \in Call : Abstract!Execute(c)) \/ UNCHANGED <<Status, executed>>
    <2>1. UNCHANGED <<pc, outcome>> /\ d.msg \in Message /\ d.msg \in Dispatching
      BY <1>5 DEF Launch, callVars, TypeOK, Dispatching
    <2>2. Status' = Status
      BY <2>1 DEF Status
    <2>3. CASE d.msg.type = "request"
      <3>1. PICK c \in Call : d.msg = Request(c) /\ c = d.msg.call
        BY <2>1, <2>3, MessageFacts
      <3>2. executed' = executed \cup {c}
        BY <1>5, <2>3, <3>1 DEF Launch
      <3>3. c \notin executed /\ pc[c] \notin {"new", "registered"}
        BY <2>1, <3>1 DEF PhaseInv, PhaseOK
      <3>4. Status[c] # "idle"
        BY <3>3 DEF Status, TypeOK
      <3> QED  BY <2>2, <3>2, <3>3, <3>4 DEF Abstract!Execute
    <2>4. CASE d.msg.type # "request"
      BY <1>5, <2>2, <2>4 DEF Launch
    <2> QED  BY <2>3, <2>4
  <1>6. ASSUME UNCHANGED <<pc, outcome, executed>> PROVE UNCHANGED <<Status, executed>>
    BY <1>6 DEF Status
  <1>7. CASE UNCHANGED <<pc, outcome, executed>>
    BY <1>6, <1>7
  <1> QED
    BY <1>1, <1>2, <1>3, <1>4, <1>5, <1>7
    DEF Next, CallerStep, MessageStep, HandlerStep, ListenerStep, AddToContacts, Serve,
        Deliver, Check, Receive, HangUp, Close, Unlisten, vars, callVars, netVars,
        nodeVars, Abstract!Next

\* Calls implement RequestReply: a request is executed at most once and not
\* before it is made, and a response is that of the caller's own request.
THEOREM Refinement == Spec => ImplementsRequestReply
  <1>1. Init => Abstract!Init
    BY DEF Init, Abstract!Init, Status
  <1> QED
    BY <1>1, TypeInit, TypeStep, PhaseInit, PhaseStep, StatusStep, PTL
    DEF Spec, ImplementsRequestReply, Abstract!Spec
=============================================================================
