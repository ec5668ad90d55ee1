----------------------------- MODULE ValueStore -----------------------------
(***************************************************************************)
(* The values a node keeps and their republishers (KademliaNode.Store,     *)
(* FindValue and StartRepublish, kademlia_node.go).  Each store message is *)
(* handled in a goroutine of its own.  A Store of a new value puts it into *)
(* Values and starts a republisher goroutine; a Store of a value that is   *)
(* there sends on the unbuffered channel of its republisher, holding the   *)
(* read lock of repubMutex.  A republisher exits when it finds the value   *)
(* gone.  valueMutex is only held for single steps and is not modelled;    *)
(* repubMutex is, with the order Go's RWMutex imposes: a waiting writer    *)
(* keeps new readers out.                                                  *)
(*                                                                         *)
(* A call of Store happens once, and the republisher and the channel a     *)
(* call starts are named after it.                                         *)
(***************************************************************************)
EXTENDS Naturals, FiniteSets

CONSTANTS
    Key,            \* the keys of the values: a value determines its key
    Empty,          \* those of them whose value is the empty string
    Call,           \* the calls of Store, each made at most once
    Reader,         \* goroutines that call FindValue to answer a message
    NoChannel,      \* the nil channel of a key without an entry
    NoKey           \* what a reader between two calls looks for

ASSUME EmptyAssumption == Empty \subseteq Key
ASSUME NoChannelAssumption == NoChannel \notin Call
ASSUME NoKeyAssumption == NoKey \notin Key

VARIABLES
    values,         \* Values: "absent", "valid", or "expired" but still there
    republishers,   \* restartCh of each key, by the call that made it
    pc,             \* where each call of Store is
    arg,            \* the key of its value
    channel,        \* the channel it read from republishers
    repub,          \* where the republisher each call started is
    cleaning,       \* the key a reader saw expired and is about to remove
    calm            \* history: no two Stores of a node overlapped, and no
                    \* value expired under one

vars == <<values, republishers, pc, arg, channel, repub, cleaning, calm>>

Waiting == {"new", "returned"}

Active(c) == pc[c] \notin Waiting

Live(c) == repub[c] \notin {"none", "exited"}

\* Calls that hold the read lock of repubMutex, and those that wait for the
\* write lock.
ReadLocked == {c \in Call : pc[c] = "sending"}
WriteWaiting == {c \in Call : pc[c] = "locking"}

Goto(c, next) == pc' = [pc EXCEPT ![c] = next]

-----------------------------------------------------------------------------
Init ==
    /\ values = [k \in Key |-> "absent"]
    /\ republishers = [k \in Key |-> NoChannel]
    /\ pc = [c \in Call |-> "new"]
    /\ arg \in [Call -> Key]
    /\ channel = [c \in Call |-> NoChannel]
    /\ repub = [c \in Call |-> "none"]
    /\ cleaning = [r \in Reader |-> NoKey]
    /\ calm = TRUE

\* Mutant of RemoveExpired: removed because it was seen expired.
RemoveSeen(k) == values' = [values EXCEPT ![k] = "absent"]

\* The second half of FindValue, under the write lock: the value is checked
\* again and removed only if it still is expired.
RemoveExpired(k) ==
    values' = [values EXCEPT ![k] = IF @ = "expired" THEN "absent" ELSE @]

\* FindValue returns "" for a value that is not there, and an empty value is
\* the same to its callers.
IsFound(k) == values[k] = "valid" /\ k \notin Empty

\* Store is called: the first half of FindValue, under the read lock.
StoreCall(c) ==
    LET k == arg[c] IN
    /\ pc[c] = "new"
    /\ Goto(c, CASE IsFound(k) -> "restart"
                 [] values[k] = "expired" -> "recheck"
                 [] OTHER -> "put")
    /\ calm' = (calm /\ \A d \in Call : ~Active(d))
    /\ UNCHANGED <<values, republishers, arg, channel, repub, cleaning>>

StoreRecheck(c) ==
    LET k == arg[c] IN
    /\ pc[c] = "recheck"
    /\ RemoveExpired(k)
    /\ Goto(c, IF IsFound(k) THEN "restart" ELSE "put")
    /\ UNCHANGED <<republishers, arg, channel, repub, cleaning, calm>>

\* The value is known: repubMutex.RLock, and the channel of its republisher
\* is looked up.
StoreReadLock(c) ==
    /\ pc[c] = "restart"
    /\ WriteWaiting = {}
    /\ channel' = [channel EXCEPT ![c] = republishers[arg[c]]]
    /\ Goto(c, "sending")
    /\ UNCHANGED <<values, republishers, arg, repub, cleaning, calm>>

\* The republisher waiting in its select receives and resets its ticker; the
\* call unlocks and returns.  A send on the nil channel, or on the channel of
\* a republisher that has exited, never happens.
StoreSend(c) ==
    /\ pc[c] = "sending"
    /\ channel[c] # NoChannel
    /\ repub[channel[c]] = "select"
    /\ Goto(c, "returned")
    /\ UNCHANGED <<values, republishers, arg, channel, repub, cleaning, calm>>

\* A new value: put into Values, and only then is its republisher started.
StorePut(c) ==
    /\ pc[c] = "put"
    /\ values' = [values EXCEPT ![arg[c]] = "valid"]
    /\ Goto(c, "register")
    /\ UNCHANGED <<republishers, arg, channel, repub, cleaning, calm>>

\* StartRepublish: repubMutex.Lock is called, and the channel entered and the
\* republisher started once no reader is left.
StoreLock(c) ==
    /\ pc[c] = "register"
    /\ Goto(c, "locking")
    /\ UNCHANGED <<values, republishers, arg, channel, repub, cleaning, calm>>

\* Mutant of Start: the goroutine is not started.
EnterOnly(c) ==
    /\ republishers' = [republishers EXCEPT ![arg[c]] = c]
    /\ UNCHANGED repub

\* The channel is entered, in the place of an earlier one, and the republisher
\* goroutine started.
Start(c) ==
    /\ republishers' = [republishers EXCEPT ![arg[c]] = c]
    /\ repub' = [repub EXCEPT ![c] = "select"]

StoreRegister(c) ==
    /\ pc[c] = "locking"
    /\ ReadLocked = {}
    /\ Start(c)
    /\ Goto(c, "returned")
    /\ UNCHANGED <<values, arg, channel, cleaning, calm>>

-----------------------------------------------------------------------------
\* Mutant of Found: a value that is not valid ends the republisher at once,
\* and stays.
FoundValid(c) ==
    repub' = [repub EXCEPT ![c] =
        IF IsFound(arg[c]) THEN "refreshing" ELSE "exited"]

\* What a republisher does with the first half of FindValue.  It exits when it
\* finds nothing, or the empty value, which stays.
Found(c) ==
    repub' = [repub EXCEPT ![c] =
        CASE IsFound(arg[c]) -> "refreshing"
          [] values[arg[c]] = "expired" -> "recheck"
          [] OTHER -> "exited"]

\* The ticker of a republisher ticks.
Tick(c) ==
    /\ repub[c] = "select"
    /\ Found(c)
    /\ UNCHANGED <<values, republishers, pc, arg, channel, cleaning, calm>>

TickRecheck(c) ==
    /\ repub[c] = "recheck"
    /\ RemoveExpired(arg[c])
    /\ repub' = [repub EXCEPT ![c] =
                    IF IsFound(arg[c]) THEN "refreshing" ELSE "exited"]
    /\ UNCHANGED <<republishers, pc, arg, channel, cleaning, calm>>

\* Mutant of Refreshed: the republisher ends with its first refresh.
RefreshedOnce(c) == repub' = [repub EXCEPT ![c] = "exited"]

\* The lookup of Refresh ends, well or not, and the stores are sent.
Refreshed(c) == repub' = [repub EXCEPT ![c] = "select"]

Refresh(c) ==
    /\ repub[c] = "refreshing"
    /\ Refreshed(c)
    /\ UNCHANGED <<values, republishers, pc, arg, channel, cleaning, calm>>

\* FindValue called for a message, in the case that changes something: the
\* value is seen expired, and removed in a second step.
ReaderFinds(r, k) ==
    /\ cleaning[r] = NoKey
    /\ values[k] = "expired"
    /\ cleaning' = [cleaning EXCEPT ![r] = k]
    /\ UNCHANGED <<values, republishers, pc, arg, channel, repub, calm>>

ReaderRecheck(r) ==
    /\ cleaning[r] # NoKey
    /\ RemoveExpired(cleaning[r])
    /\ cleaning' = [cleaning EXCEPT ![r] = NoKey]
    /\ UNCHANGED <<republishers, pc, arg, channel, repub, calm>>

\* The expiration date of a value passes.
Expire(k) ==
    /\ values[k] = "valid"
    /\ values' = [values EXCEPT ![k] = "expired"]
    /\ calm' = (calm /\ \A c \in Call : ~Active(c))
    /\ UNCHANGED <<republishers, pc, arg, channel, repub, cleaning>>

StoreStep(c) ==
    \/ StoreRecheck(c) \/ StoreReadLock(c) \/ StoreSend(c)
    \/ StorePut(c) \/ StoreLock(c) \/ StoreRegister(c)

RepublisherStep(c) == Tick(c) \/ TickRecheck(c) \/ Refresh(c)

Next ==
    \/ \E c \in Call : StoreCall(c) \/ StoreStep(c) \/ RepublisherStep(c)
    \/ \E r \in Reader : ReaderRecheck(r) \/ \E k \in Key : ReaderFinds(r, k)
    \/ \E k \in Key : Expire(k)

Spec == Init /\ [][Next]_vars

\* The goroutines of the node run: a call of Store goes on when it can, and
\* a ticker keeps ticking.  A send that is possible again and again is not
\* passed over for ever: select chooses at random among the cases that are
\* ready.  Nothing forces a message or an expiration.
Fairness ==
    /\ \A c \in Call : /\ WF_vars(StoreStep(c)) /\ SF_vars(StoreSend(c))
                       /\ WF_vars(RepublisherStep(c))
    /\ \A r \in Reader : WF_vars(ReaderRecheck(r))

FairSpec == Spec /\ Fairness

-----------------------------------------------------------------------------
TypeOK ==
    /\ values \in [Key -> {"absent", "valid", "expired"}]
    /\ republishers \in [Key -> Call \cup {NoChannel}]
    /\ pc \in [Call -> {"new", "recheck", "restart", "sending", "put",
                        "register", "locking", "returned"}]
    /\ arg \in [Call -> Key]
    /\ channel \in [Call -> Call \cup {NoChannel}]
    /\ repub \in [Call -> {"none", "select", "recheck", "refreshing", "exited"}]
    /\ cleaning \in [Reader -> Key \cup {NoKey}]
    /\ calm \in BOOLEAN
    /\ \A k \in Key : republishers[k] # NoChannel =>
          arg[republishers[k]] = k /\ repub[republishers[k]] # "none"

\* "Re-check to avoid TOCTOU" (kademlia_node.go:183): a value that has not
\* expired is never removed, whoever saw an expired one before.
OnlyExpiredIsRemoved ==
    [][\A k \in Key : values[k] = "valid" => values'[k] # "absent"]_vars

\* A value in Values, expired or not, has a republisher that will refresh or
\* remove it, or the call that put it has yet to start one; republishers that
\* exit, calls and removals may overlap in any way.  Not so the empty value:
\* its republisher takes it for gone.
StoredIsRepublished ==
    \A k \in Key \ Empty : values[k] # "absent" =>
        \E c \in Call : /\ arg[c] = k
                        /\ Live(c) \/ pc[c] \in {"register", "locking"}

\* While calls do not overlap, every Store returns.
CalmStoreReturns ==
    \A c \in Call : Active(c) ~> (pc[c] = "returned" \/ ~calm)

\* While calls do not overlap, an expired value does not stay, even if the
\* node never looks at it: its republisher removes it, unless it is the empty
\* value, which no republisher looks at any more.
CalmExpiredIsRemoved ==
    \A k \in Key \ Empty : values[k] = "expired" ~> (values[k] # "expired" \/ ~calm)

\* "Check if the key already exists, if so restart the republish timer"
\* (kademlia_node.go:325): a Store of a known value reaches a republisher.
RestartReachesRepublisher ==
    \A c \in Call : pc[c] = "sending" =>
        channel[c] # NoChannel /\ Live(channel[c])
=============================================================================
