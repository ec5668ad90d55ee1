-------------------------- MODULE RefresherProofs --------------------------
(***************************************************************************)
(* Proofs, for every number of keys, calls and stoppers, that no exit      *)
(* channel is closed twice and that a refresher can be stopped while calls *)
(* for its key do not overlap.                                             *)
(***************************************************************************)
EXTENDS Refresher, TLAPS

\* A channel is in one place: not made yet, in the map, with one stopper, or
\* closed.
ChannelsInv ==
    /\ \A c \in Call : pc[c] \in {"new", "refused", "unique"} =>
         refresher[c] = "none" /\ closes[c] = 0 /\ \A s \in Stopper : stopping[s] # c
    /\ \A k \in Key : refreshers[k] # NoChannel =>
         closes[refreshers[k]] = 0 /\ \A s \in Stopper : stopping[s] # refreshers[k]
    /\ \A s \in Stopper : stopping[s] # NoChannel =>
         closes[stopping[s]] = 0 /\ \A t \in Stopper : stopping[t] = stopping[s] => t = s
    /\ ClosedAtMostOnce

\* While calls do not overlap, the one on its way for a key still finds no
\* entry there, so it displaces no refresher.
CalmInv ==
    /\ calm => \A c \in Call : OnItsWay(c) =>
         /\ refreshers[arg[c]] = NoChannel
         /\ \A d \in Call : OnItsWay(d) /\ arg[d] = arg[c] => d = c
    /\ CalmRefresherIsReachable

-----------------------------------------------------------------------------
LEMMA TypeInit == Init => TypeOK
  <1> SUFFICES ASSUME Init PROVE TypeOK
    OBVIOUS
  <1>1. \A k \in Key : refreshers[k] = NoChannel
    BY DEF Init
  <1>2. closes \in [Call -> Nat]
    BY DEF Init
  <1> QED  BY <1>1, <1>2 DEF Init, TypeOK

LEMMA TypeStep == TypeOK /\ [Next]_vars => TypeOK'
  <1> SUFFICES ASSUME TypeOK, [Next]_vars PROVE TypeOK'
    OBVIOUS
  <1> USE NoChannelAssumption DEF TypeOK
  <1>1. ASSUME NEW c \in Call, CheckUnique(c) PROVE TypeOK'
    BY <1>1 DEF CheckUnique, Goto
  <1>2. ASSUME NEW c \in Call, StartRefresh(c) PROVE TypeOK'
    BY <1>2 DEF StartRefresh, Enter, Spawn, Goto
  <1>3. ASSUME NEW c \in Call, RefresherStep(c) PROVE TypeOK'
    BY <1>3 DEF RefresherStep, RefresherTick, Refreshed, RefresherExit
  <1>4. ASSUME NEW s \in Stopper, CloseChannel(s) PROVE TypeOK'
    BY <1>4 DEF CloseChannel
  <1>5. ASSUME NEW s \in Stopper, NEW k \in Key, StopRefresh(s, k) PROVE TypeOK'
    BY <1>5 DEF StopRefresh, Remove
  <1>6. ASSUME NEW s \in Stopper, NEW k \in Key, StopRefreshUnknown(s, k) PROVE TypeOK'
    BY <1>6 DEF StopRefreshUnknown
  <1>7. ASSUME NEW k \in Key, LocalChange(k) PROVE TypeOK'
    BY <1>7 DEF LocalChange
  <1>8. CASE UNCHANGED vars
    BY <1>8 DEF vars
  <1> QED  BY <1>1, <1>2, <1>3, <1>4, <1>5, <1>6, <1>7, <1>8 DEF Next

\* TypeOK holds for every value of the constants: among others, an entry of
\* the map is that of a refresher started for its key.
THEOREM TypeCorrect == Spec => []TypeOK
  BY TypeInit, TypeStep, PTL DEF Spec

-----------------------------------------------------------------------------
LEMMA ChannelsInit == Init => ChannelsInv
  BY NoChannelAssumption DEF Init, ChannelsInv, ClosedAtMostOnce

LEMMA ChannelsStep == TypeOK /\ ChannelsInv /\ [Next]_vars => ChannelsInv'
  <1> SUFFICES ASSUME TypeOK, ChannelsInv, [Next]_vars PROVE ChannelsInv'
    OBVIOUS
  <1> USE NoChannelAssumption DEF TypeOK, ChannelsInv, ClosedAtMostOnce
  <1>1. ASSUME NEW c \in Call, CheckUnique(c) PROVE ChannelsInv'
    BY <1>1 DEF CheckUnique, Goto
  <1>2. ASSUME NEW c \in Call, StartRefresh(c) PROVE ChannelsInv'
    BY <1>2 DEF StartRefresh, Enter, Spawn, Goto
  <1>3. ASSUME NEW c \in Call, RefresherStep(c) PROVE ChannelsInv'
    BY <1>3 DEF RefresherStep, RefresherTick, Refreshed, RefresherExit
  <1>4. ASSUME NEW s \in Stopper, CloseChannel(s) PROVE ChannelsInv'
    BY <1>4 DEF CloseChannel
  <1>5. ASSUME NEW s \in Stopper, NEW k \in Key, StopRefresh(s, k) PROVE ChannelsInv'
    BY <1>5 DEF StopRefresh, Remove
  <1>6. ASSUME NEW s \in Stopper, NEW k \in Key, StopRefreshUnknown(s, k) PROVE ChannelsInv'
    BY <1>6 DEF StopRefreshUnknown
  <1>7. ASSUME NEW k \in Key, LocalChange(k) PROVE ChannelsInv'
    BY <1>7 DEF LocalChange
  <1>8. CASE UNCHANGED vars
    BY <1>8 DEF vars
  <1> QED  BY <1>1, <1>2, <1>3, <1>4, <1>5, <1>6, <1>7, <1>8 DEF Next

\* No exit channel is closed twice, for any number of stoppers.
THEOREM ClosedOnce == Spec => []ClosedAtMostOnce
  <1>1. ChannelsInv => ClosedAtMostOnce
    BY DEF ChannelsInv
  <1> QED  BY <1>1, TypeInit, TypeStep, ChannelsInit, ChannelsStep, PTL DEF Spec

-----------------------------------------------------------------------------
LEMMA CalmInit == Init => CalmInv
  BY DEF Init, CalmInv, CalmRefresherIsReachable, OnItsWay, Running

LEMMA CalmStep == TypeOK /\ ChannelsInv /\ CalmInv /\ [Next]_vars => CalmInv'
  <1> SUFFICES ASSUME TypeOK, ChannelsInv, CalmInv, [Next]_vars PROVE CalmInv'
    OBVIOUS
  <1> USE NoChannelAssumption
      DEF TypeOK, CalmInv, CalmRefresherIsReachable, OnItsWay, Running, Closed
  <1>1. ASSUME NEW c \in Call, CheckUnique(c) PROVE CalmInv'
    BY <1>1 DEF CheckUnique, HasRefresher, Goto
  <1>2. ASSUME NEW c \in Call, StartRefresh(c) PROVE CalmInv'
    BY <1>2 DEF StartRefresh, Enter, Spawn, Goto
  <1>3. ASSUME NEW c \in Call, RefresherStep(c) PROVE CalmInv'
    BY <1>3 DEF RefresherStep, RefresherTick, Refreshed, RefresherExit
  <1>4. ASSUME NEW s \in Stopper, CloseChannel(s) PROVE CalmInv'
    <2>1. closes[stopping[s]] \in Nat /\ stopping[s] \in Call
      BY <1>4 DEF CloseChannel
    <2> QED  BY <1>4, <2>1 DEF CloseChannel, ChannelsInv
  <1>5. ASSUME NEW s \in Stopper, NEW k \in Key, StopRefresh(s, k) PROVE CalmInv'
    BY <1>5 DEF StopRefresh, Remove
  <1>6. ASSUME NEW s \in Stopper, NEW k \in Key, StopRefreshUnknown(s, k) PROVE CalmInv'
    BY <1>6 DEF StopRefreshUnknown
  <1>7. ASSUME NEW k \in Key, LocalChange(k) PROVE CalmInv'
    BY <1>7 DEF LocalChange
  <1>8. CASE UNCHANGED vars
    BY <1>8 DEF vars
  <1> QED  BY <1>1, <1>2, <1>3, <1>4, <1>5, <1>6, <1>7, <1>8 DEF Next

\* While calls of StoreInNetwork for a key do not overlap, every refresher that
\* runs can be stopped, or is about to be.
THEOREM RefresherReachable == Spec => []CalmRefresherIsReachable
  <1>1. CalmInv => CalmRefresherIsReachable
    BY DEF CalmInv
  <1> QED
    BY <1>1, TypeInit, TypeStep, ChannelsInit, ChannelsStep, CalmInit, CalmStep, PTL DEF Spec
=============================================================================
