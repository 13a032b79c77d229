------------------------------ MODULE SpinLock ------------------------------
(***************************************************************************)
(* Locking::SpinLock (locking/SpinLock.cpp): a lock word taken with a      *)
(* load-exclusive / store-exclusive loop and released with a store.        *)
(*                                                                         *)
(* The loop is modelled one memory access at a time; the branches between  *)
(* the accesses only read registers and belong to the access before them.  *)
(* The exclusive monitors belong to the processor: a load-exclusive arms   *)
(* the core's monitor, a store to the word by any core disarms the others' *)
(* monitors, and the eret that ends an interrupt (exceptions.S) disarms    *)
(* the monitor of the interrupted core.                                    *)
(***************************************************************************)
EXTENDS Naturals

CONSTANTS Core,         \* the cores that share the lock
          MaxIrqs       \* bound: interrupts taken inside lock()

ASSUME MaxIrqsAssumption == MaxIrqs \in Nat

VARIABLES _lock,        \* the lock word
          monitor,      \* monitor[c]: c's exclusive monitor is armed
          pc,           \* where each core is in lock() / unlock()
          irqs          \* interrupts taken so far inside lock()

vars == <<_lock, monitor, pc, irqs>>

PC == {"outside", "ldaxr", "stxr", "inside"}

Init ==
    /\ _lock = 0
    /\ monitor = [c \in Core |-> FALSE]
    /\ pc = [c \in Core |-> "outside"]
    /\ irqs = 0

-----------------------------------------------------------------------------
(* Mutated operations, for checking that the properties can fail: the      *)
(* status of stxr is not looked at; unlock() does not store.               *)
Stxr_StatusIgnored(c) ==
    /\ pc[c] = "stxr"
    /\ _lock' = IF monitor[c] THEN 1 ELSE _lock
    /\ monitor' = IF monitor[c] THEN [d \in Core |-> FALSE] ELSE monitor
    /\ pc' = [pc EXCEPT ![c] = "inside"]
    /\ UNCHANGED irqs

Unlock_NoStore(c) ==
    /\ pc[c] = "inside"
    /\ pc' = [pc EXCEPT ![c] = "outside"]
    /\ UNCHANGED <<_lock, monitor, irqs>>

-----------------------------------------------------------------------------
(* SpinLockGuard's constructor calls lock().                               *)
SpinLockGuard(c) ==
    /\ pc[c] = "outside"
    /\ pc' = [pc EXCEPT ![c] = "ldaxr"]
    /\ UNCHANGED <<_lock, monitor, irqs>>

(* ldaxr, and the branch that spins while the word is not zero.            *)
Ldaxr(c) ==
    /\ pc[c] = "ldaxr"
    /\ monitor' = [monitor EXCEPT ![c] = TRUE]
    /\ pc' = [pc EXCEPT ![c] = IF _lock = 0 THEN "stxr" ELSE "ldaxr"]
    /\ UNCHANGED <<_lock, irqs>>

(* What a store to the lock word by any core does to every monitor.        *)
Disarm == monitor' = [c \in Core |-> FALSE]

(* stxr stores 1 only while the monitor is armed, and the branch after it  *)
(* starts again when the status says that nothing was stored.              *)
Stxr(c) ==
    /\ pc[c] = "stxr"
    /\ \/ /\ monitor[c]
          /\ _lock' = 1
          /\ Disarm
          /\ pc' = [pc EXCEPT ![c] = "inside"]
       \/ /\ ~monitor[c]
          /\ pc' = [pc EXCEPT ![c] = "ldaxr"]
          /\ UNCHANGED <<_lock, monitor>>
    /\ UNCHANGED irqs

(* SpinLockGuard's destructor calls unlock(), a store-release of zero.     *)
Unlock(c) ==
    /\ pc[c] = "inside"
    /\ _lock' = 0
    /\ Disarm
    /\ pc' = [pc EXCEPT ![c] = "outside"]
    /\ UNCHANGED irqs

(* An interrupt is handled inside lock(): nothing masks them there.  The   *)
(* handler takes no lock, and its eret disarms the monitor.                *)
IrqEntry(c) ==
    /\ pc[c] \in {"ldaxr", "stxr"}
    /\ irqs < MaxIrqs
    /\ irqs' = irqs + 1
    /\ monitor' = [monitor EXCEPT ![c] = FALSE]
    /\ UNCHANGED <<_lock, pc>>

Step(c) == Ldaxr(c) \/ Stxr(c) \/ Unlock(c)

Next == \E c \in Core : SpinLockGuard(c) \/ Step(c) \/ IrqEntry(c)

(* A core never stops inside lock(), the guarded region or unlock(): the   *)
(* region is a bounded kprintf and nothing else can hold the core there.   *)
Spec == Init /\ [][Next]_vars /\ \A c \in Core : WF_vars(Step(c))

-----------------------------------------------------------------------------
TypeOK ==
    /\ _lock \in {0, 1}
    /\ monitor \in [Core -> BOOLEAN]
    /\ pc \in [Core -> PC]
    /\ irqs \in 0 .. MaxIrqs

Inside == {c \in Core : pc[c] = "inside"}

(* At most one core is inside a region guarded by the lock.                *)
MutualExclusion == \A c, d \in Inside : c = d

(* A released word means that nobody is inside, and a taken one that       *)
(* somebody is: unlock() is only called by the holder.                     *)
WordIsTruthful == (_lock = 1) <=> (Inside # {})

(* A store-exclusive that is going to succeed still sees a free lock,      *)
(* however long ago the core loaded the word.                              *)
ArmedMeansFree ==
    \A c \in Core : pc[c] = "stxr" /\ monitor[c] => _lock = 0

(* Mutual exclusion of lock()/unlock() in inductive form.                  *)
LockInv == TypeOK /\ MutualExclusion /\ WordIsTruthful /\ ArmedMeansFree

(* Locking::SpinLock implements a mutual-exclusion lock: lock() returns    *)
(* only when no core is inside, and unlock() lets the next one in.         *)
M == INSTANCE Mutex WITH holders <- Inside
ImplementsMutex == M!Spec

(* The ldaxr/stxr loop does not livelock: while a core is spinning, some   *)
(* core gets (or has) the lock, even when interrupts disarm monitors.      *)
SpinningGetsLock ==
    (\E c \in Core : pc[c] \in {"ldaxr", "stxr"}) ~> (Inside # {})

=============================================================================
