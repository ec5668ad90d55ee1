------------------------------ MODULE Refresher ------------------------------
(***************************************************************************)
(* The refreshers of the values a node has put into the network            *)
(* (KademliaNode.StoreInNetwork, StartRefresh, StopRefresh).  A POST on    *)
(* the REST API or a put message starts StoreInNetwork, a DELETE calls     *)
(* StopRefresh; each runs in a goroutine of its own.  The critical         *)
(* sections of refreshMutex are single steps, except that StopRefresh can  *)
(* return without unlocking.                                               *)
(*                                                                         *)
(* A call of StoreInNetwork happens once, and the refresher goroutine and  *)
(* the exit channel it makes are named after it.                           *)
(***************************************************************************)
EXTENDS Naturals, FiniteSets

CONSTANTS
    Key,            \* the keys of the values
    Call,           \* the calls of StoreInNetwork, each made at most once
    Stopper,        \* goroutines that call StopRefresh
    NoChannel       \* a key without an entry, a stopper without a channel

ASSUME NoChannelAssumption == NoChannel \notin Call

VARIABLES
    refreshers,     \* exitCh of each key, by the call that made it
    locked,         \* refreshMutex was left locked
    pc,             \* where each call of StoreInNetwork is
    arg,            \* the key of its value
    refresher,      \* where the refresher goroutine of each call is
    closes,         \* how often the exit channel of each call was closed
    stopping,       \* the channel a stopper has removed and is to close
    local,          \* the keys of which FindValue of this node itself
                    \* returns a value: it is stored and not empty
    calm            \* history: StoreInNetwork was not called for a key while
                    \* another call for it was on its way

vars == <<refreshers, locked, pc, arg, refresher, closes, stopping, local, calm>>

Running(c) == refresher[c] \in {"select", "refreshing"}

Closed(c) == closes[c] > 0

OnItsWay(c) == pc[c] = "unique"

Goto(c, next) == pc' = [pc EXCEPT ![c] = next]

-----------------------------------------------------------------------------
Init ==
    /\ refreshers = [k \in Key |-> NoChannel]
    /\ locked = FALSE
    /\ pc = [c \in Call |-> "new"]
    /\ arg \in [Call -> Key]
    /\ refresher = [c \in Call |-> "none"]
    /\ closes = [c \in Call |-> 0]
    /\ stopping = [s \in Stopper |-> NoChannel]
    /\ local = {}
    /\ calm = TRUE

HasRefresher(k) == refreshers[k] # NoChannel

\* "Check that theres no already a refresher for the key", under the read
\* lock, which is given up before the refresher is started.
CheckUnique(c) ==
    /\ pc[c] = "new"
    /\ ~locked
    /\ Goto(c, IF HasRefresher(arg[c]) THEN "refused" ELSE "unique")
    /\ calm' = (calm /\ \A d \in Call : arg[d] = arg[c] => ~OnItsWay(d))
    /\ UNCHANGED <<refreshers, locked, arg, refresher, closes, stopping, local>>

\* Mutant of Enter: the goroutine runs, its channel is not entered.
EnterNot(k, c) == UNCHANGED refreshers

Enter(k, c) == refreshers' = [refreshers EXCEPT ![k] = c]

\* Mutant of Spawn: the goroutine is not started.
SpawnNot(c) == UNCHANGED refresher

Spawn(c) == refresher' = [refresher EXCEPT ![c] = "select"]

\* StartRefresh: the channel is entered and the goroutine started.  What is
\* left of StoreInNetwork, the lookup and the stores it sends, changes
\* nothing here.
StartRefresh(c) ==
    /\ pc[c] = "unique"
    /\ ~locked
    /\ Enter(arg[c], c)
    /\ Spawn(c)
    /\ Goto(c, "started")
    /\ UNCHANGED <<locked, arg, closes, stopping, local, calm>>

\* Mutant of Remove: the entry is left in the map.
RemoveNot(k) == UNCHANGED refreshers

Remove(k) == refreshers' = [refreshers EXCEPT ![k] = NoChannel]

\* StopRefresh of a key with an entry: the entry is removed.
StopRefresh(s, k) ==
    /\ stopping[s] = NoChannel
    /\ ~locked
    /\ refreshers[k] # NoChannel
    /\ stopping' = [stopping EXCEPT ![s] = refreshers[k]]
    /\ Remove(k)
    /\ UNCHANGED <<locked, pc, arg, refresher, closes, local, calm>>

\* StopRefresh of a key without one: it returns with the mutex locked.
StopRefreshUnknown(s, k) ==
    /\ stopping[s] = NoChannel
    /\ ~locked
    /\ refreshers[k] = NoChannel
    /\ locked' = TRUE
    /\ UNCHANGED <<refreshers, pc, arg, refresher, closes, stopping, local, calm>>

\* After the unlock: close(ch).
CloseChannel(s) ==
    /\ stopping[s] # NoChannel
    /\ closes' = [closes EXCEPT ![stopping[s]] = @ + 1]
    /\ stopping' = [stopping EXCEPT ![s] = NoChannel]
    /\ UNCHANGED <<refreshers, locked, pc, arg, refresher, local, calm>>

\* The ticker ticks: the refresher ends for good when this node does not
\* store the value itself, and leaves its entry behind.
RefresherTick(c) ==
    /\ refresher[c] = "select"
    /\ refresher' = [refresher EXCEPT ![c] =
                        IF arg[c] \in local THEN "refreshing" ELSE "exited"]
    /\ UNCHANGED <<refreshers, locked, pc, arg, closes, stopping, local, calm>>

Refreshed(c) ==
    /\ refresher[c] = "refreshing"
    /\ refresher' = [refresher EXCEPT ![c] = "select"]
    /\ UNCHANGED <<refreshers, locked, pc, arg, closes, stopping, local, calm>>

\* Mutant of ExitSignalled: the select has no case for the channel.
NoExitCase(c) == FALSE

ExitSignalled(c) == Closed(c)

RefresherExit(c) ==
    /\ refresher[c] = "select"
    /\ ExitSignalled(c)
    /\ refresher' = [refresher EXCEPT ![c] = "exited"]
    /\ UNCHANGED <<refreshers, locked, pc, arg, closes, stopping, local, calm>>

\* The node stores a value, or removes an expired one (ValueStore).
LocalChange(k) ==
    /\ local' = IF k \in local THEN local \ {k} ELSE local \cup {k}
    /\ UNCHANGED <<refreshers, locked, pc, arg, refresher, closes, stopping, calm>>

RefresherStep(c) == RefresherTick(c) \/ Refreshed(c) \/ RefresherExit(c)

Next ==
    \/ \E c \in Call : CheckUnique(c) \/ StartRefresh(c) \/ RefresherStep(c)
    \/ \E s \in Stopper : \/ CloseChannel(s)
                          \/ \E k \in Key : StopRefresh(s, k) \/ StopRefreshUnknown(s, k)
    \/ \E k \in Key : LocalChange(k)

Spec == Init /\ [][Next]_vars

\* The goroutines run; select does not pass over the closed channel for ever
\* when the ticker ticks as well.
Fairness ==
    /\ \A c \in Call : /\ WF_vars(StartRefresh(c)) /\ WF_vars(RefresherStep(c))
                       /\ SF_vars(RefresherExit(c))
    /\ \A s \in Stopper : WF_vars(CloseChannel(s))

FairSpec == Spec /\ Fairness

-----------------------------------------------------------------------------
TypeOK ==
    /\ refreshers \in [Key -> Call \cup {NoChannel}]
    /\ locked \in BOOLEAN
    /\ pc \in [Call -> {"new", "refused", "unique", "started"}]
    /\ arg \in [Call -> Key]
    /\ refresher \in [Call -> {"none", "select", "refreshing", "exited"}]
    /\ closes \in [Call -> Nat]
    /\ stopping \in [Stopper -> Call \cup {NoChannel}]
    /\ local \subseteq Key
    /\ calm \in BOOLEAN
    /\ \A k \in Key : refreshers[k] # NoChannel =>
          arg[refreshers[k]] = k /\ refresher[refreshers[k]] # "none"

\* No exit channel is closed twice, which would panic, although StopRefresh
\* closes it after it gave up the lock and may be called many times at once.
ClosedAtMostOnce == \A c \in Call : closes[c] <= 1

\* A refresher can always be stopped, as long as calls for its key do not
\* overlap: it is in the map, or its channel is closed or about to be.
CalmRefresherIsReachable ==
    \A c \in Call : (calm /\ Running(c)) =>
        \/ refreshers[arg[c]] = c
        \/ Closed(c)
        \/ \E s \in Stopper : stopping[s] = c

\* A refresher that StopRefresh was called for ends, although it may be in
\* the middle of a refresh and its ticker may tick at the same time.
StoppedRefresherEnds ==
    \A c \in Call :
        (Running(c) /\ \E s \in Stopper : stopping[s] = c) ~> ~Running(c)

\* "This is not an error, just means theres no refresher for the key"
\* (kademlia_node.go:547): whatever keys StopRefresh was called for, a call of
\* StoreInNetwork starts its refresher and goes on.
StoreInNetworkGoesOn ==
    \A c \in Call : pc[c] = "unique" ~> pc[c] = "started"
=============================================================================
