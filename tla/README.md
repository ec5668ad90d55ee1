# A verification project for the Kademlia node

The repository is a Kademlia distributed hash table in Go: nodes with 160-bit
ids that keep routing tables, find the nodes closest to a key by iterative
lookups, and store, republish and refresh values on them. This directory holds
TLA+ models of its concurrent core, TLC configurations that check them on small
instances, and proofs that TLAPS checks for every value of the constants.

`PROJECT.json` is the index: components, runs, the source lines every
definition stands for (`map`), hazards, findings, theorems, and for every
checked property a mutation of the code that breaks it.

    tlc -workers 2 -config <run>.cfg <module>.tla      # one run
    tlapm <module>.tla                                 # the proofs of a module

Contents: [1 The system](#1-the-system) - [2 The
modules](#2-the-modules-and-the-code) - [3 The runs](#3-the-runs) - [4
Fairness](#4-fairness) - [5 The proofs](#5-the-proofs) - [6 What the code does
that its comments do not say](#6-findings) - [7 Not modelled](#7-not-modelled) -
[8 Plan](#8-plan)

## 1. The system

A process runs one node, and tests run many in one process. All of it is
goroutines: a listener per node, one per message received, one per query of a
lookup, one per value republished or refreshed, one per HTTP request.

    CLI / REST API
         |  StoreInNetwork, FindValueInNetwork, StopRefresh
         v
    KademliaNode --- LookUp --------- one goroutine per query --+
      |    |    \                                               v
      |    |     Values, republishers, refreshers    SendAndAwaitResponse
      |    |                                                    |
      |    RoutingTable <--- AddToContactsFromMsg ---+          |
      |         |                 (first-handler)    |          |
      |         +--- ping of the oldest contact -----|----------+
      v                                              |          v
    Node: listener -> snapshot of handlers -> first-handlers, handlers
      |                                                         |
      +---------------- Connection (mock or UDP) <--------------+

| component | state | operations | what is hard about it |
|---|---|---|---|
| **Routing table**, `common/routing_table.go` | 160 buckets of at most k contacts, a `LastSeen` per contact, one `bucketLock` | `NewContact`, `FindClosest` | `NewContact` gives up the lock while it pings the least recently seen contact, and then acts on a bucket others have changed; every message received calls it. `FindClosest` stops gathering before it has compared distances. |
| **Ids**, `utils/bit_array.go` | none | `Xor`, `ToBigInt`, `CloserTo`, constructors, conversions | the XOR metric and the index of a bucket are computed in separate loops |
| **Lookup**, `KademliaNode.LookUp` | `kClosestNodes`, a queue `unprobedNodes`, `probedMap`, a counter of running queries, `resultsCh` | one call: start, merge an answer, launch queries, fail, time out | answers and failures in any order, repeated nodes, an overall timeout that races the last answers |
| **Values and republishers**, `Store`, `FindValue`, `StartRepublish` | `Values` under `valueMutex`, `republishers` under `repubMutex`, a goroutine with ticker and channel per value | store, find, expire, republish, restart the timer | `Store` sends on an unbuffered channel with a lock held; check-then-act on the value and on its expiration |
| **Refreshers**, `StoreInNetwork`, `StartRefresh`, `StopRefresh` | `refreshers` under `refreshMutex`, a goroutine with ticker and exit channel per key | put into the network, stop | the check and the start are two critical sections; the channel is closed after the unlock; a mutex left locked |
| **RPC**, `SendAndAwaitResponse`, `SendRPC`, `AddToContactsFromMsg` | a reply handler and two channels with room for one message per call | call, time out, late reply | replies before the caller waits and after it gave up; every waiting call sees every reply |
| **Node**, `node/node.go` | handlers, first-handlers, a closed flag, a listener goroutine | `Handle`, `HandleFirst`, `RemoveHandler`, `Send`, `Close` | handlers are copied under the lock and run after it; contacts must be added before handlers run |
| **Mock network**, `network/mockNetwork.go` | a channel of 100 messages per address, listeners, partitions | `Listen`, `Dial`, `Send`, `Recv`, `Close`, drops | full queues, pretended sends, closing under a receiver |
| **UDP network**, `network/udp_network.go` | sockets, channels, a goroutine `listen` per address | the same | `Close` only sets a flag, which is looked at when a message has been read; a reply address picked in map order; datagrams lost, reordered, duplicated, cut at 1024 bytes |
| **Join**, **StoreInNetwork**, **FindValueInNetwork**, **Exit** | none of their own; the tables and values of many nodes | a lookup, then messages to what it found | operations of several nodes overlap; messages are lost and nodes exit in the middle; answers in arrival order paired with nodes in query order |
| **RPC handlers**, `rpc_handlers/` | none | one message: parse, one call of the above, one reply | run while operations of the same node are under way |
| **REST API, CLI, hashing, generated code** | none | parse, one call | - |

What makes each correct:

- routing table: bounded buckets without duplicates; a live contact is only
  dropped for a failed ping of it; the order by time last heard from survives;
  `FindClosest` returns k contacts and the nearest one.
- lookup: the result is the k closest of what was learned; nobody is asked
  again; at most alpha at a time; it ends; it leaves nobody unasked, unless
  its last alpha queries brought nothing.
- values: what has not expired is not removed; what is stored is republished;
  what has expired goes away; `Store` returns.
- refreshers: one per key, which can be stopped, ends when stopped, and whose
  channel is not closed twice.
- across nodes: nodes that join meet; a join that succeeds is known to the
  bootstrap node; a value that a node holds is found; every operation ends.
- RPC: a request is executed at most once; the answer returned is the answer to
  it; no goroutine is left blocked; a reply that comes in time ends the call;
  closing a node ends its listener.
- UDP: an answer goes to the node that asked; nothing that arrives stops a
  node; a closed node takes no more work and its goroutines can end.

`PROJECT.json` lists the hazards at their lines with the properties that watch
each of them, and says which are not covered yet.

## 2. The modules and the code

### RoutingTable - `NewContact`

State: `buckets` (each a sequence of entries with an id and a `LastSeen`),
`now` (the clock), and per goroutine the contact it is bringing in
(`incoming`) and the contact it is pinging (`victim`). The zero `LastSeen` of a
contact that was only added is `Never = 0`.

| code | action |
|---|---|
| known contact: `LastSeen` set, moved to the end (63-81) | `SeeKnown` |
| unknown contact, room (83-89) | `AddNew` |
| full: snapshot, oldest chosen, unlock, ping (91-113) | `PingLeastRecent` |
| ping failed: live bucket read again, victim removed if there, new contact appended (115-134) | `PingFails` |
| ping answered: victim rebuilt out of the bucket wherever it is, appended (136-151) | `PingAnswered` |

`bucketLock` covers each of these, so each is one action; between
`PingLeastRecent` and the outcome any other goroutine may run. Two behaviours
of the code that matter are kept: a victim is removed by id from whatever
bucket there is now, and a contact that answered is appended *even if it is no
longer in the bucket*. The second makes buckets overflow (section 6).

`overlapped` is history: it is set when a call begins to ping for a bucket for
which another call is pinging already. No step is excluded; `SerialInv` and
`RefinesKBucket` are claimed until it is set, and are exactly what overlapping
pings break.

**KBucket** is the abstract specification: buckets as lists of distinct
contacts with `Touch`, `Add` and `Replace`. `RoutingTable!RefinesKBucket` maps
each bucket to its ids.

### XorMetric, FindClosest

`XorMetric` is the part of `BitArray` that distances use. `FindClosest` extends
`KBucket`, so that the table it is evaluated on is one that calls of
`NewContact` can build as long as no two of them ping for one bucket at the same
time; `Closest(target)` is the function of the code: home
bucket, expansion to lower and higher indices with the loop that appends before
it compares, sort by distance, cut. Sorting is given by its outcome: the r-th
node is the one that r - 1 are closer than, which is one node because no two ids
are equally far. It reads the table at one instant, although the code gives up
the lock between buckets.

### LookUp

One lookup. `kClosest`, `unprobed`, `probed` and the counter `inflight` are the
variables of the code, `queries` the goroutines it launched, `rest` is the part
of an answer not yet merged; `learned`, `asked` and `lost` (how many queries in
a row brought nothing) are history. The list a lookup starts with is any one,
also one that holds a node twice, as `FindClosest` returns it after two pings
that overlapped: the code launches a query for each of its places without a
look at `probed` (582-592, 689-691), so a query is a node with the place it had
in that list. The main goroutine goes through the phases `select`,
`merge`, `launch`; answers and failures (`Answer`, `Fail`) come in any order
and answers are arbitrary lists. `LookupTimeout` leads to `drain`, the
`wg.Wait` after the loop. `Fail` covers a query's timeout, a send error and a
reply without a body: the code continues with the next iteration and launches
nothing, and so does the model. A query's goroutine always ends, because
`SendAndAwaitResponse` gives up after five seconds.

### ValueStore

`Store`, `FindValue`, `StartRepublish`. Every call of `Store` and the
republisher it may start have a name; `republishers` maps a key to the call
whose channel is entered. `repubMutex` is modelled as Go's `RWMutex`: a waiting
writer (`locking`) keeps new readers out. `StoreSend` is the rendezvous on the
unbuffered channel and needs a republisher in its `select`. `FindValue` is two
steps, a read and a re-check under the write lock, for `Store`, for the
republisher and for readers. The lookup and the sends of `Refresh` change
nothing at this node and are one step. `Empty` are the keys whose value is the
empty string, which the code also takes for "not found" (`IsFound`): a `Store`
of it puts it again (333), and its republisher exits at its first tick (470).

### Refresher

`StoreInNetwork` up to `StartRefresh`, the refresher goroutines, and
`StopRefresh` with its two branches; `locked` records that `StopRefresh` left
by the branch that does not unlock. `local` is whether the node itself stores
the value: a refresher whose value is not found exits at its first tick and
leaves its entry in the map.

### Rpc, RequestReply

Calls, listeners, message goroutines and the mock network, on two nodes. A
listener is modelled as `check` (of the closed flag), `recv`, `stopped`;
`dispatched` are the goroutines that run first-handlers, each with the copy of
the reply handlers taken when the message was received; `delivering` are the
reply handlers started from that copy, which may run after the call returned
and removed its handler. `Close` is two steps: the flags, then the channel and
the address. A call returns by a response, by a timeout at any moment, or by a
send error. `errCh` is left out: it takes a reply that does not parse, which no
node of this program sends.

**RequestReply** is what callers rely on: a request is executed at most once,
and only a call whose request was executed returns a response.
`Rpc!ImplementsRequestReply` maps `pc` and `outcome` to the state of a call.

### Overlay - operations across nodes

Each operation (`Op`) is a join, a put or a get of one node, executed once.
`pc` is where its goroutine is:

    join by address   new -> ping -> start -> lookup -> done
                                 \-> failed
    join with an id   new ---------> start -> lookup -> done
    put               new ---------> start -> lookup -> done
    get               new ---------> start -> lookup -> gather -> done

`contacts`, `stored` and `closed` are the state of the nodes; `found`, `asked`,
`queued`, `inflight` and `results` are the local variables of the operation's
goroutines; `wire` holds requests and replies, which arrive in any order.

| code | action |
|---|---|
| `Join` (292-319): ping of a bootstrap node without an id, its reply, `NewContact` | `JoinAddress`, `ReceiveId`, `PingFails`, `JoinNode` |
| `LookUp`: first alpha queries; answer merged and queries launched; failure; overall timeout; end | `BeginLookUp`, `ReceiveNodes` (`LookUpAnswered`), `LookUpFails`, `LookUpTimesOut`, `EndLookUp` |
| `StoreInNetwork` (372-394): stores sent to all that was found, without waiting | `EndLookUp` |
| `FindValueInNetwork` (200-290): one query per node, one result per query, the nodes that had the value | `EndLookUp`, `ReceiveValue`, `GatherFails`, `EndGather`, `ValueFound`, `StoringNodes` |
| a request at a node: first-handler, handler, one reply | `Serve` |
| a reply at a node: first-handler, and the call that waits for it | `Receive` |
| a put, get or exit message, or the same by HTTP | `Put`, `Get`, `Exit` |

It abstracts from what other modules are about: buckets are never full
(`RoutingTable`), k is at least the number of nodes, so `FindClosest` returns
the table and a lookup displaces nobody (`LookUp`), a store is one step
(`ValueStore`), a put has no refresher (`Refresher`), a call fails only when
nothing of it is under way (`Rpc` has answers that come too late). There is one
value, which is not empty, since a value determines its key. The order of lists is left open
wherever the code orders them by distance. `disturbed`, `held` and `faults` are
history. A goroutine per query sends one result each, so the send on the
buffered `resCh` is part of the step that ends the query.

### UdpNetwork

One `udpNetwork` per process (`Net`), with the nodes that listen on it.

| code | action |
|---|---|
| `Listen`, then `Start` of the node | `Listen` |
| `Dial` and `Send` by a node, for a request and for the reply of a handler | `Send`, `Answer` (`Transmit`, `ReplyAddresses`) |
| `listen()`: read and parse; look at `closed` with the message in hand; push or drop | `Read`, `CheckClosed`, `Push` |
| loop of `Start`, and `Recv`: node flag; connection flag; partition; wait on the channel | `CheckNode`, `Recv`, `CheckPartition`, `Take`, `ChannelClosed` |
| `Node.Close`: its flag, then that of the connection | `Close`, `CloseConnection` |
| `Partition`, `Heal` | the same |

Each lock region is one action. `Dial` and `Send` are one step: `Dial` reads
only which addresses listen, which never shrinks, and the node that dials is
one of them. `wire` is what the network and the socket buffers hold; a datagram
in it may be lost, read in any order, and read again. An address stays in use
and a socket open after `Close`: no action removes them, because no code does.

### Modules that hold no model

`MC<module>` gives constants their values for TLC. `<module>Proofs` holds the
proofs about a module (`RoutingTable`, `FindClosest` with `XorMetric`, `LookUp`,
`ValueStore`, `Refresher`, `Rpc`, `Overlay`, `UdpNetwork`).

Definitions whose comment says *mutant of X* are small bugs: each property of
a passing run fails when X is replaced by one of them, so no property holds
merely by the shape of its model.

## 3. The runs

| run | instance | shows |
|---|---|---|
| `table` | 4 contacts of one bucket, k = 2, 3 goroutines, clock to 2, symmetry | under every interleaving of calls and pings the recency order holds, contacts leave only for their failed ping, a full bucket loses no place; until pings first overlap, at most k, no duplicates, and the table implements `KBucket` |
| `table_overflow` | the same | **violation**: a bucket grows beyond k |
| `find_closest` | 10 contacts with 4-bit ids, the owner among them, k = 2, every target | k contacts or all, no repetition; the nearest contact is returned when the target's bucket is not empty; `CloserTo` is the XOR metric |
| `lookup` | 4 nodes, k = 2, alpha = 2, answers of up to 2 nodes, any start list of up to 2, with repetitions | the result, bounds, completeness and termination of a lookup |
| `value_store` | 3 calls of `Store`, 2 keys, one of them of the empty value, 1 reader | what holds of values and republishers, with and without overlapping calls |
| `store_restart` | the same | **violation**: a second `Store` sends to nobody |
| `refresher` | 3 calls, 2 stoppers, 1 key | refreshers are reachable, stopped, and closed once |
| `stop_refresh` | the same | **violation**: the mutex stays locked |
| `rpc` | 2 nodes, a `ping` and a `put` call, queues of 1 message | request and reply, contacts first, no blocked handler, closing |
| `overlay` | 3 nodes, any of which may exit; 2 joins, a put, a get; alpha = 2; 1 fault | joiners meet, a successful join is known, a held value is found, every operation ends |
| `get_names` | the same without faults | **violation**: a get names a node that does not have the value |
| `udp` | 2 processes with 1 and 2 nodes, 2 requests, channels of 1 message, one node closed and partitioned | where answers go, what stops a listener, what a closed node still receives, how it ends |

Why the bounds are enough for the interesting cases:

- *Routing table.* With k = 2 a bucket is full after two contacts; a third and
  a fourth compete for places, three goroutines give two overlapping pings and
  a third call that changes the bucket under them, and two clock values separate
  "never", "before" and "now". One bucket is enough, as calls for different
  buckets share nothing but the lock, which each step takes and gives up.
  `MaxTime` is the only bound in a guard. Symmetry is used only here, where no
  liveness is checked.
- *FindClosest.* Four bits give four buckets, with 4, 3, 2 and 1 contacts to
  choose from, from the farthest to the nearest, so both directions of the
  expansion, both ends of the table, the overshoot by one and the cut all
  happen; the owner's own id is a contact because the code files it with the
  farthest ids.
- *Lookup.* Four nodes exceed k by two, so nodes are displaced and come back;
  alpha = 2 makes two queries overlap, and lets the start list hold one node
  twice; answers of two nodes already contain repetitions, known nodes and
  displaced nodes.
- *ValueStore.* Two calls for one key overlap, a third stores the value again
  after it expired, or another key, whose republisher needs the same lock. The
  value of one key is empty, so every mix of calls with it occurs.
- *Refresher.* Two calls overlap and a third comes after a stop; two stoppers
  race for one entry.
- *Rpc.* One queue slot makes the queue full with one message; the two calls
  have handlers registered at the same time, so a reply reaches both; `put` has
  no first-handler and is never dropped, `ping` is the opposite.
- *Overlay.* Three nodes are the fewest with two that join through a third and
  need each other; one join is by address, one with an id. The get begins when
  its node has joined and the put has returned, which is before its stores
  arrive; both joins overlap with each other, and the second with the put. One
  fault (`MaxFaults`) at any moment is a lost request or reply, an expiration, an exit or
  a timeout of a whole lookup; an exit makes any number of calls fail.
  `Follows` and `Mortal` bound the instance as well.
- *Udp.* A channel of one message is full with one; the closed node has two
  messages on their way to it, one of which may be duplicated (`Repeated`); a
  message too long arrives at the other end. `Mortal` and `Cuttable` name
  the node that is closed and partitioned, once.

In `overlay` deadlock is checked with a step (`Finished`) that only the end of
all operations allows. Since no operation repeats a step, a state without
another step is the only way not to end.

Deadlock is checked except where the system ends: a lookup that is done, nodes
that are closed, all calls of `Store` made (`lookup`, `value_store`,
`store_restart`, `rpc`, `udp`).

Properties named `Calm...` hold while calls for a key do not overlap (and, for
`ValueStore`, no value expires under a call). `calm` is a history variable; the
state space is not restricted by it, and the runs for violations show that the
condition is needed.

## 4. Fairness

- A goroutine that can run runs: weak fairness of the steps of a lookup, of
  `Store`, republishers, refreshers, listeners, message goroutines and of a
  `Close` that has begun. This is Go's scheduler.
- A query ends (`QueryEnds` in `LookUp`): `SendAndAwaitResponse` returns after
  its timeout at the latest.
- `select` chooses among ready cases at random: strong fairness of `StoreSend`
  and `RefresherExit`, which compete with a ticker that ticks again and again.
- `UdpNetwork` has it for what `listen` does with a message it has read, and for
  the loop of `Start`; not for `Read`: nothing makes a datagram arrive.
- Tickers tick. Nothing makes a message arrive, a value expire, a call happen
  or a call time out: no property needs that, and `ReplyEndsCall` in particular
  does not rest on the timeout.

`table`, `find_closest` and `overlay` check safety only; that the operations of
`overlay` end is its deadlock check (section 3).

## 5. The proofs

All of it is for every value of the constants within the modules' named
assumptions: `BucketOf` maps contacts to buckets, K > 0, `NoContact` is no
contact, and so for the other names of nothing; distances are injective, which
the XOR metric is, and Alpha is between 1 and K, the code's own "alpha < k"; a
call, operation or request has a node at each end; there are finitely many
nodes; in `Overlay` a join is through another node; `FindClosest` has one bucket
per bit of an id and a contact in the bucket of its first difference from the
owner. Bounds that are
constants (`MaxFaults`, `Mortal`, `Follows`, `ChanMax`) may have any value.

**Routing table, all interleavings** (`RoutingTableProofs`, by `IInv`).
`RecencyOrder` alone is not inductive: an entry refreshed *now* is appended, so
the order survives only if nothing in the bucket was seen later than now.
`IInv` adds that (`BucketOK(s, now)`) and what a ping in flight has in hand
(`PingsOK`).

- `TypeCorrect`, `RecencyOrderHolds` follow from `IInv`.
- `EvictionFollows`, `FullStays` (`Spec => EvictionFollowsFailedPing`,
  `Spec => FullStaysFull`): one lemma, `StepKeeps`, says that a step keeps every
  contact and every place of every bucket unless it is a failed ping that
  replaces its victim; `ReplacedFacts` says what that changes.

**Routing table, until pings first overlap** (`SerialCorrect`,
`Spec => []SerialInv`). "At most K" and "no duplicates" are not inductive
either: `PingFails` and `PingAnswered` trust a decision made earlier.
`PingInFullBucket` says what they rely on: while a ping is under way its bucket
stays full, so nobody appends to it, its victim stays in it and its new contact
stays out of it. It is preserved only if no second ping for the bucket is under
way, which is why `NoOverlap` is needed, and what `table_overflow` shows to be
missing in the code. `overlapped` is never reset: after a first overlap nothing
more is claimed.

**The table implements k-buckets** (`RoutingTableProofs!Refinement`,
`Spec => RefinesKBucket`: every step that leaves `overlapped` false is one of
`KBucket` or leaves the buckets' order alone). `KBucket` speaks of positions,
the code rebuilds a bucket in a loop that skips an id. `WithoutIsRemoval`
connects them: in a bucket without duplicates the rebuilt list is the list with
one position removed. It rests on `OneEnumeration`: a set of numbers is listed
in increasing order in one way only.

`Without` picks its j-th index with `CHOOSE`, and `UpToFacts`, `NthExists` and
`WithoutIsSubsequence` establish by counting, without induction, that there is
exactly one such index, that order is kept and that nothing else is lost.

**FindClosest** (`FindClosestProofs`). The tables are those of `KBucket`, hence
of the code as long as no two calls ping for one bucket at the same time; after
that a bucket can hold a contact twice, or K + 1, and `FindClosest` return one
twice. The one invariant is `BucketsSound`: a bucket holds at most K contacts,
none twice, all with the first difference from the owner that gives the bucket
its index. The rest is about functions, of which
three are recursive over numbers: powers of two, sums of distances, and the
expansion around the home bucket. The prover has no induction rule it can
apply, so induction is done on a *set* of numbers (`NatInductionSet`: a set that
has 0 and with every number the next is all of `Nat`, because `<` is well
founded), and that 2^n is a sum of smaller powers plus one is read off the
number of subsets of a set.

- `FirstDifferenceDecides` (`CloserByFirstDifference`): the bits below the first
  difference together weigh less than it (`LowerBitsWeighLess`), so it decides
  (`FirstBitDecides`). For any number of bits `CloserTo` is a total order
  (`CloserIsTotalOrder`), hence sorting has one outcome (`SortedFacts`).
- `KContactsReturned` (`ReturnsKContacts`): after each step of the expansion the
  gathered list has no repetition and is either long enough or everything in the
  buckets within reach (`GatheredUpTo`, `GatheredFacts`). At the last step
  everything is within reach; so K contacts are returned or all.
- `ClosestContactReturned` (`ReturnsClosestContact`): an id of the target's
  bucket is closer to the target than any other (`HomeIsCloser`), and the home
  bucket is returned whole.
- No run checks the next four. `ReturnsFullBucket`: if the target's bucket is
  full the answer is exactly the K closest, which is as much as can be said of
  the case the code handles without gathering. `ReturnsSmallTable`: with at
  most K contacts all are returned, which is what `Overlay` takes `FindClosest`
  to do. `ReturnsKnownTarget`: a node asked for one it knows names it.
  `DistancesDiffer`: the assumption of `LookUp` on distances.

**Lookup** (`LookUpProofs`, by an `IInv` of its own). `ResultIsKClosest`:
whatever the nodes answer in whatever order, `kClosest` is the K closest of
everything learned. Displacing only the farthest node suffices because every
node outside `kClosest` is farther than all inside, which is the invariant
itself together with the cardinality. `BoundedParallelism`
(`AtMostAlphaQueries`): the counter is the number of queries, which holds
because a node that is asked later was not asked before, or two of its queries
would count as one. `TimeoutReturnsResult`: the code's error return on a timeout
is dead code. `CompleteUnlessLost` needs `QueueServed`: whenever the loop waits
and nodes are queued, the queries under way and those lost since the last answer
together are alpha, since after an answer the launch loop fills all slots; so a
lookup that ends with nodes unasked has lost alpha queries in a row.
`NotAskedAgain`: whoever was asked is in `probed`, also the nodes the lookup
started with. `LookupUsesUpWork` is the part of `Termination` that needs no
fairness: every step lowers `Work`, a natural number that counts the answers
still to come, each with `ListMax` nodes to merge and to take from the queue. A
node may be queued and named in answers many times; only a node not asked
before starts a query, but for the start, which launches at most alpha. A lookup
has at most (2 ListMax + 3) (|Node| + Alpha) + 5 steps. That none of these steps
waits for ever is what is left to TLC.

**Values** (`ValueStoreProofs`). `StoredRepublished` and `OnlyExpired` are
inductive with `TypeOK` alone: whoever removes a value or an entry does so in
the step that looks at it again under the write lock. That is the
argument for the second look, and it needs no `calm`. The empty value is left
out of `StoredIsRepublished`: the code does not see that it is there.

**Refreshers** (`RefresherProofs`). `ClosedOnce` needs `ChannelsInv`: an exit
channel is in one place, not made yet, in the map, with one stopper, or closed.
`RefresherReachable` needs `CalmInv`: while calls do not overlap, the one on its
way for a key still finds no entry, so it displaces no running refresher; the
check of `StoreInNetwork`, made in an earlier critical section, is still true.

**RPC** (`RpcProofs`). The safety properties and the refinement rest on
`PhaseInv`: the request, the handler, the reply and the response of a call are
in one place at a time. Although every waiting call runs its handler on every
reply, and a handler copied before its call returned runs after it, only one of
these handlers holds the call's own reply, and it is the first: so the channel with
room for one message has room (`NeverBlocks`), and the response is that of the
call's own request (`Refinement`, `Spec => ImplementsRequestReply`). `MetInv`
follows the sender through the first-handlers (`ContactsFirst`).

**Operations across nodes** (`OverlayProofs`). `WireInv` says what a message
under way tells of the tables: whoever has replied has the asker in its table
and in the list it replied with. `BootInv` says it of the join itself. `LookInv`
carries it to lookups that lost nothing: everything found is asked or queued,
nothing is queued when no answer is awaited, and whoever has answered
knows the joiner and is known to it. The joiner thereby learns of itself, asks
itself, and so, whatever its lookup started with, reaches its bootstrap node:
`JoinIsKnown`. For `JoinersDoMeet` the bootstrap node orders two joins: `MeetInv`
says that one of the two was told of the other by it, or has not been answered
yet. When the bootstrap node answers `i` without naming the node of `j`, it
does not know that node, hence has not answered `j`, and it will name `i` to it.

`TypeCorrect` is about what a get collects: `ResultsInv` says that it has one
answer of each node whose query has ended, and returns with as many as it asked.
`HeldIsFound` assumes that
all joins are through one node `b` (`OneBootstrap(b)`; with two networks that have
nothing in common no get leads from one to the other). The get's own node is in
the lists it is sent, so it asks itself and is told of `b`; `b` tells it of all
members; those that still hold the value answer with it. `HeldInv`, `SeekWire` and
`SeekInv` say this of the tables, of the messages under way and of the lookup.

**UDP** (`UdpNetworkProofs`). `TypeInv` relates the flags: a channel is closed
exactly when its reader has ended, and that implies the connection's flag,
which implies the node's. `OnlyStops` adds that what is partitioned has been
cut by a `Partition`; `AtMostOneLate` that a listener which took a message after
`Close` is on its way to the check of the flag (`LateInv`). `AnswersGoBack` needs `GenuineInv`, for
every datagram wherever it is, on the wire, with a reader, in a channel or with
a handler: a request names an address on the network of its sender.

Only model-checked: the liveness properties (`Termination`, `CalmStoreReturns`,
`CalmExpiredIsRemoved`, `StoppedRefresherEnds`, `ReplyEndsCall`,
`ClosedNodeStops`, `ClosedEndsAtNextMessage`), since neither fairness nor
`ENABLED` can be handled by this prover, and that every operation of `Overlay`
ends, which is a matter of deadlock. Every invariant and every action
property of the passing runs, and both refinements, are theorems.

## 6. Findings

Each is a violation run and an entry under `findings`.

1. *A bucket can exceed k* (`table_overflow`). Two goroutines ping the same
   oldest contact; one ping fails and replaces it, the other is answered and
   appends it again (`routing_table.go:149`; line 18: "max nodes per bucket").
2. *`Store` can block for ever with the lock held* (`store_restart`). Between
   putting a value and entering its channel, or after the republisher has
   exited, a second `Store` sends on a nil or abandoned channel
   (`kademlia_node.go:335`).
3. *`StopRefresh` of an unknown key leaves `refreshMutex` locked*
   (`stop_refresh`, `kademlia_node.go:548`).
4. *A get can name nodes that do not have the value* (`get_names`).
   `FindValueInNetwork` collects answers as they arrive and names the i-th node
   it asked for the i-th answer (`kademlia_node.go:285`; line 281: "Return the
   nodes that had the value", and `kademlia_network_test.go:378`). In the run
   the get overtakes the stores of a put, so one of three nodes has the value,
   and another one is named.

Noticed and not the subject of a run:

- `FindClosest` does not always return the closest k: it stops gathering by
  bucket index before it compares distances (`routing_table.go:190`;
  `find_node.go:40`). What remains true is `ReturnsClosestContact`, and
  `FullBucketIsKClosest` for a full home bucket.
- A failed query launches nothing: `continue` skips the launch loop
  (`kademlia_node.go:711`; line 738: "keep alpha parallelism"). If no other query
  succeeds the lookup ends with nodes it was told of and never asked.
  `CompleteUnlessAllLost` says how much that takes: the last alpha queries.
- A lookup asks a node twice at its start when its own table holds it twice
  (582-592, 689-691), in spite of "Track probed nodes to avoid re-querying" (578);
  no node is asked *again* later, which is `NeverAskedAgain`.
- The empty string is a value and also stands for "not found"
  (`kademlia_node.go:333`, 470). `put ""` on the command line stores it (the
  REST API refuses it, `kademlia_restapi.go:69`); its republishers exit at their
  first tick, a second `Store` of it starts another one, and once expired it stays
  until somebody asks for it. `StoredIsRepublished` and `CalmExpiredIsRemoved`
  are therefore about the other values.
- `JoinersMeet` needs a common bootstrap node. In a chain of joins that overlap,
  as the command line starts them, two nodes may not learn of each other.
- With several nodes on one `udpNetwork` an answer goes to any of them, and the
  other end files the address of one node under the id of another
  (`udp_network.go:62`). The command line has one node per process.
- After `Close` on UDP the address stays in use, the message that ends `listen`
  is lost, and without one neither goroutine ends. A node that meets a partition
  in `Recv` stops listening for good, and `Heal` does not restart it.
- The comment of `StartRepublish` (450) speaks of an immediate republish where the
  code resets the ticker; two overlapping `StoreInNetwork` of one key leave a
  refresher that nothing can stop; a refresher that ends by itself leaves its
  entry, so later calls for the key are refused; the forget handler is never
  registered.

## 7. Not modelled

- **`Partition` and `Heal` of the mock network, `InitBuckets`, handlers of type
  `default`, `ReplyString`**: only tests use them.
- **HTTP and the command line**: what a request starts is an operation of
  `Overlay` or `Refresher`; the parsing and the answer are left out, and so are
  the replies of put, get and exit, which change no node.
- **Errors of the operating system** on a socket, and a value whose bytes parse
  as a list of nodes (`kademlia_node.go:229`).
- **Byte and string conversions, protobuf encoding, hashing, logging, flags,
  HTTP parsing**: representation, without state; ids are model values or bit
  functions, and a value determines its key.
- **Data races on memory**: `FindClosest` returns pointers into live slices that
  `NewContact` later writes. The models read the table atomically; showing the
  race would need the backing arrays, below the level of the other models.
- **Time**: the clock of `RoutingTable` counts seconds; elsewhere timeouts and
  ticks may happen at any moment, which is more than the code can do.

## 8. Plan

Done, in this order: `RoutingTable` and `KBucket`, `FindClosest` and
`XorMetric`, `LookUp`, `ValueStore`, `Refresher`, `Rpc` and `RequestReply`,
`Overlay`, `UdpNetwork`; proofs of the safety of all of them and of both
refinements (section 5).

Next:

1. The ping of `NewContact` inside a first-handler, which delays a reply
   (`Rpc` composed with `RoutingTable`).
2. A lookup over a network with more than k nodes, in which nodes have full
   buckets (`Overlay` composed with `LookUp` and `RoutingTable`); today each of
   the three is checked with the others abstracted.
3. The theorems of `FindClosestProofs` carried to the tables of `RoutingTable`
   by its refinement, and to those with more than K contacts that overlapping
   pings leave (today `BucketsSound` has "at most K").
4. A measure like that of `LookUp` for the operations of `Overlay`.
