-------------------------- MODULE ValueStoreProofs --------------------------
(***************************************************************************)
(* Proofs, for every number of keys, calls of Store and readers, that what *)
(* is stored and not empty is republished and that only an expired value   *)
(* is removed, however calls, republishers and readers overlap.            *)
(***************************************************************************)
EXTENDS ValueStore, TLAPS

LEMMA TypeInit == Init => TypeOK
  BY DEF Init, TypeOK

LEMMA TypeStep == TypeOK /\ [Next]_vars => TypeOK'
  <1> SUFFICES ASSUME TypeOK, [Next]_vars PROVE TypeOK'
    OBVIOUS
  <1> USE NoChannelAssumption, NoKeyAssumption DEF TypeOK
  <1>1. ASSUME NEW c \in Call, StoreCall(c) PROVE TypeOK'
    BY <1>1 DEF StoreCall, Goto, IsFound
  <1>2. ASSUME NEW c \in Call, StoreRecheck(c) PROVE TypeOK'
    BY <1>2 DEF StoreRecheck, RemoveExpired, Goto, IsFound
  <1>3. ASSUME NEW c \in Call, StoreReadLock(c) \/ StoreSend(c) PROVE TypeOK'
    BY <1>3 DEF StoreReadLock, StoreSend, Goto
  <1>4. ASSUME NEW c \in Call, StorePut(c) \/ StoreLock(c) PROVE TypeOK'
    BY <1>4 DEF StorePut, StoreLock, Goto
  <1>5. ASSUME NEW c \in Call, StoreRegister(c) PROVE TypeOK'
    BY <1>5 DEF StoreRegister, Start, Goto
  <1>6. ASSUME NEW c \in Call, RepublisherStep(c) PROVE TypeOK'
    BY <1>6 DEF RepublisherStep, Tick, Found, IsFound, TickRecheck, RemoveExpired, Refresh, Refreshed
  <1>7. ASSUME NEW r \in Reader, ReaderRecheck(r) PROVE TypeOK'
    BY <1>7 DEF ReaderRecheck, RemoveExpired
  <1>8. ASSUME NEW r \in Reader, NEW k \in Key, ReaderFinds(r, k) PROVE TypeOK'
    BY <1>8 DEF ReaderFinds
  <1>9. ASSUME NEW k \in Key, Expire(k) PROVE TypeOK'
    BY <1>9 DEF Expire
  <1>10. CASE UNCHANGED vars
    BY <1>10 DEF vars
  <1> QED
    BY <1>1, <1>2, <1>3, <1>4, <1>5, <1>6, <1>7, <1>8, <1>9, <1>10 DEF Next, StoreStep

\* TypeOK holds for every value of the constants: among others, the channel
\* entered for a key is that of a republisher started for it.
THEOREM TypeCorrect == Spec => []TypeOK
  BY TypeInit, TypeStep, PTL DEF Spec

-----------------------------------------------------------------------------
(* What is stored is republished.                                          *)

LEMMA RepublishedInit == Init => StoredIsRepublished
  BY DEF Init, StoredIsRepublished

\* The call that answers for a key, now and after the step.
LEMMA RepublishedStep == TypeOK /\ StoredIsRepublished /\ [Next]_vars => StoredIsRepublished'
  <1> SUFFICES ASSUME TypeOK, StoredIsRepublished, [Next]_vars PROVE StoredIsRepublished'
    OBVIOUS
  <1> USE NoChannelAssumption, NoKeyAssumption DEF TypeOK, StoredIsRepublished, Live
  <1>1. ASSUME NEW c \in Call, StoreCall(c) PROVE StoredIsRepublished'
    BY <1>1 DEF StoreCall, Goto, IsFound
  <1>2. ASSUME NEW c \in Call, StoreRecheck(c) PROVE StoredIsRepublished'
    BY <1>2 DEF StoreRecheck, RemoveExpired, Goto, IsFound
  <1>3. ASSUME NEW c \in Call, StoreReadLock(c) \/ StoreSend(c) PROVE StoredIsRepublished'
    BY <1>3 DEF StoreReadLock, StoreSend, Goto
  <1>4. ASSUME NEW c \in Call, StorePut(c) \/ StoreLock(c) PROVE StoredIsRepublished'
    BY <1>4 DEF StorePut, StoreLock, Goto
  <1>5. ASSUME NEW c \in Call, StoreRegister(c) PROVE StoredIsRepublished'
    BY <1>5 DEF StoreRegister, Start, Goto
  <1>6. ASSUME NEW c \in Call, Tick(c) PROVE StoredIsRepublished'
    BY <1>6 DEF Tick, Found, IsFound
  <1>7. ASSUME NEW c \in Call, TickRecheck(c) PROVE StoredIsRepublished'
    BY <1>7 DEF TickRecheck, RemoveExpired, IsFound
  <1>8. ASSUME NEW c \in Call, Refresh(c) PROVE StoredIsRepublished'
    BY <1>8 DEF Refresh, Refreshed
  <1>9. ASSUME NEW r \in Reader, ReaderRecheck(r) PROVE StoredIsRepublished'
    BY <1>9 DEF ReaderRecheck, RemoveExpired
  <1>10. ASSUME NEW r \in Reader, NEW k \in Key, ReaderFinds(r, k) PROVE StoredIsRepublished'
    BY <1>10 DEF ReaderFinds
  <1>11. ASSUME NEW k \in Key, Expire(k) PROVE StoredIsRepublished'
    BY <1>11 DEF Expire
  <1>12. CASE UNCHANGED vars
    BY <1>12 DEF vars
  <1> QED
    BY <1>1, <1>2, <1>3, <1>4, <1>5, <1>6, <1>7, <1>8, <1>9, <1>10, <1>11, <1>12
    DEF Next, StoreStep, RepublisherStep

\* Every value held, but the empty one, has a republisher or a call that is
\* about to start one.
THEOREM StoredRepublished == Spec => []StoredIsRepublished
  BY TypeInit, TypeStep, RepublishedInit, RepublishedStep, PTL DEF Spec

-----------------------------------------------------------------------------
(* Only what has expired is removed.                                       *)

LEMMA ValidKept ==
    ASSUME TypeOK, [Next]_vars, NEW k \in Key, values[k] = "valid"
    PROVE  values'[k] # "absent"
  <1> USE NoKeyAssumption DEF TypeOK
  <1>1. ASSUME NEW j \in Key, RemoveExpired(j) PROVE values'[k] # "absent"
    BY <1>1 DEF RemoveExpired
  <1>2. ASSUME NEW c \in Call, StorePut(c) PROVE values'[k] # "absent"
    BY <1>2 DEF StorePut
  <1>3. ASSUME NEW j \in Key, Expire(j) PROVE values'[k] # "absent"
    BY <1>3 DEF Expire
  <1>4. CASE UNCHANGED values
    BY <1>4
  <1>5. ASSUME NEW c \in Call, StoreRecheck(c) \/ TickRecheck(c) PROVE values'[k] # "absent"
    <2>1. RemoveExpired(arg[c])
      BY <1>5 DEF StoreRecheck, TickRecheck
    <2> QED  BY <1>1, <2>1
  <1>6. ASSUME NEW r \in Reader, ReaderRecheck(r) PROVE values'[k] # "absent"
    <2>1. cleaning[r] \in Key /\ RemoveExpired(cleaning[r])
      BY <1>6 DEF ReaderRecheck
    <2> QED  BY <1>1, <2>1
  <1> QED
    BY <1>2, <1>3, <1>4, <1>5, <1>6
    DEF Next, StoreCall, StoreStep, StoreReadLock, StoreSend, StoreLock, StoreRegister,
        RepublisherStep, Tick, Refresh, ReaderFinds, vars

\* A value that has not expired is never removed, whoever saw it expired before.
THEOREM OnlyExpired == Spec => OnlyExpiredIsRemoved
  <1>1. TypeOK /\ [Next]_vars =>
          [\A k \in Key : values[k] = "valid" => values'[k] # "absent"]_vars
    BY ValidKept
  <1> QED  BY <1>1, TypeInit, TypeStep, PTL DEF Spec, OnlyExpiredIsRemoved
=============================================================================
