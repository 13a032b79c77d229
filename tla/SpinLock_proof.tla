--------------------------- MODULE SpinLock_proof ---------------------------
(***************************************************************************)
(* Mutual exclusion of Locking::SpinLock, and that it implements Mutex,    *)
(* for any set of cores and any number of interrupts.                      *)
(***************************************************************************)
EXTENDS SpinLock, TLAPS

(* The initial state, with the lock free, satisfies the invariant.         *)
LEMMA InitLockInv == Init => LockInv
BY MaxIrqsAssumption
   DEF Init, LockInv, TypeOK, PC, MutualExclusion, WordIsTruthful, ArmedMeansFree, Inside

(* Every instruction of lock() and unlock(), and every interrupt taken in  *)
(* lock(), preserves the invariant.                                        *)
LEMMA NextLockInv == LockInv /\ [Next]_vars => LockInv'
<1> SUFFICES ASSUME LockInv, [Next]_vars PROVE LockInv'
  OBVIOUS
<1> USE MaxIrqsAssumption
    DEF LockInv, TypeOK, PC, MutualExclusion, WordIsTruthful, ArmedMeansFree, Inside
<1>1. ASSUME NEW c \in Core, SpinLockGuard(c) PROVE LockInv'
  BY <1>1 DEF SpinLockGuard
<1>2. ASSUME NEW c \in Core, Ldaxr(c) PROVE LockInv'
  BY <1>2 DEF Ldaxr
<1>3. ASSUME NEW c \in Core, Stxr(c) PROVE LockInv'
  <2>1. CASE monitor[c]
    \* the monitor is armed, so the word is free and nobody is inside
    <3>1. _lock = 0 /\ \A d \in Core : pc[d] # "inside"
      BY <1>3, <2>1 DEF Stxr
    <3>2. /\ _lock' = 1 /\ monitor' = [d \in Core |-> FALSE] /\ irqs' = irqs
          /\ pc' = [pc EXCEPT ![c] = "inside"]
      BY <1>3, <2>1 DEF Stxr, Disarm
    <3>3. TypeOK' /\ ArmedMeansFree'
      BY <3>2
    <3>4. \A d \in Core : pc'[d] = "inside" <=> d = c
      BY <3>1, <3>2
    <3>5. QED
      BY <3>2, <3>3, <3>4
  <2>2. CASE ~monitor[c]
    BY <1>3, <2>2 DEF Stxr
  <2>3. QED
    BY <2>1, <2>2
<1>4. ASSUME NEW c \in Core, Unlock(c) PROVE LockInv'
  BY <1>4 DEF Unlock, Disarm
<1>5. ASSUME NEW c \in Core, IrqEntry(c) PROVE LockInv'
  BY <1>5 DEF IrqEntry
<1>6. CASE UNCHANGED vars
  BY <1>6 DEF vars
<1>7. QED
  BY <1>1, <1>2, <1>3, <1>4, <1>5, <1>6 DEF Next, Step

(* LockInv holds in every reachable state.                                 *)
THEOREM LockInvariant == Spec => []LockInv
BY InitLockInv, NextLockInv, PTL DEF Spec

(* No two cores are ever inside regions guarded by the same SpinLock.      *)
THEOREM SpinLockMutex == Spec => []MutualExclusion
<1>1. LockInv => MutualExclusion
  BY DEF LockInv
<1>2. QED
  BY <1>1, LockInvariant, PTL

(* Every step of the lock maps to a step of Mutex or to a stutter, so      *)
(* SpinLock implements Mutex under the mapping holders <- Inside.          *)
THEOREM SpinLockImplementsMutex == Spec => ImplementsMutex
<1>1. Init => M!Init
  BY DEF Init, M!Init, Inside
<1>2. LockInv /\ [Next]_vars => [M!Next]_Inside
  <2> SUFFICES ASSUME LockInv, [Next]_vars PROVE [M!Next]_Inside
    OBVIOUS
  <2> USE DEF Inside, LockInv, TypeOK, PC
  <2>2. ASSUME NEW c \in Core, SpinLockGuard(c) PROVE Inside' = Inside
    BY <2>2 DEF SpinLockGuard
  <2>3. ASSUME NEW c \in Core, Ldaxr(c) PROVE Inside' = Inside
    BY <2>3 DEF Ldaxr
  <2>4. ASSUME NEW c \in Core, Stxr(c) PROVE M!Acquire(c) \/ Inside' = Inside
    <3>1. CASE monitor[c]
      <4>1. Inside = {}
        BY <2>4, <3>1 DEF Stxr, ArmedMeansFree, WordIsTruthful
      <4>2. Inside' = {c}
        BY <2>4, <3>1, <4>1 DEF Stxr
      <4>3. QED
        BY <4>1, <4>2 DEF M!Acquire
    <3>2. CASE ~monitor[c]
      BY <2>4, <3>2 DEF Stxr
    <3>3. QED
      BY <3>1, <3>2
  <2>5. ASSUME NEW c \in Core, Unlock(c) PROVE M!Release(c)
    <3>1. Inside = {c}
      BY <2>5 DEF Unlock, MutualExclusion
    <3>2. Inside' = {}
      BY <2>5, <3>1 DEF Unlock
    <3>3. QED
      BY <3>1, <3>2 DEF M!Release
  <2>6. ASSUME NEW c \in Core, IrqEntry(c) PROVE Inside' = Inside
    BY <2>6 DEF IrqEntry
  <2>7. CASE UNCHANGED vars
    BY <2>7 DEF vars
  <2>8. QED
    BY <2>2, <2>3, <2>4, <2>5, <2>6, <2>7 DEF Next, Step, M!Next
<1>3. QED
  BY <1>1, <1>2, LockInvariant, PTL DEF Spec, ImplementsMutex, M!Spec
=============================================================================
