------------------------------ MODULE ActionIR ------------------------------
(***************************************************************************)
(* The intermediate representation of the programs the checker explores    *)
(* (include/model/action.hpp, src/model/action.cpp): the actions, the      *)
(* steps of a schedule, and the two action-only predicates may_conflict    *)
(* and independent.                                                        *)
(*                                                                         *)
(* An action is a record with the C++ struct's field names, holding only   *)
(* the fields its kind uses.  An optional register is NoReg when absent,   *)
(* an optional operand NoOperand, an address the empty string NoAddress.   *)
(***************************************************************************)
EXTENDS Integers, Sequences, FiniteSets

CONSTANTS
    NumThreads,        \* program.threads.size()
    RegisterCount,     \* kRegisterCount (8 in the code)
    ValueHalf,         \* a Value is in -ValueHalf .. ValueHalf - 1 (2^63)
    AddressOrder,      \* the memory locations, in lexicographic order
    Mutexes, RwLocks, Semaphores, Barriers, Conditions, Labels,
    FlushActionIndex,  \* kFlushActionIndex: larger than every source index
    Programs           \* the programs explored: functions ThreadId -> Seq(Action)

ThreadId == 0 .. NumThreads - 1
Register == 0 .. RegisterCount - 1
Value == -ValueHalf .. ValueHalf - 1
Addresses == {AddressOrder[i] : i \in DOMAIN AddressOrder}

NoReg == -1
NoAddress == ""
OptRegister == Register \cup {NoReg}

NoOperand == [kind |-> "None"]
ImmediateOperand == [kind : {"Immediate"}, immediate : Value]
RegisterOperand == [kind : {"Register"}, reg : Register]
ValueOperand == ImmediateOperand \cup RegisterOperand \cup {NoOperand}

(***************************************************************************)
(* The kinds, grouped as action.cpp's predicates group them.               *)
(***************************************************************************)
PlainKinds == {"Read", "Write", "Flush"}
AtomicKinds == {"AtomicLoad", "AtomicStore", "AtomicRmw", "CompareExchange"}
WriteLikeKinds == {"Write", "Flush", "AtomicStore", "AtomicRmw", "CompareExchange"}
MutexKinds == {"Lock", "TryLock", "Unlock"}
WaitKinds == {"Wait", "TimedWait"}
NotifyKinds == {"Signal", "Broadcast"}
RwLockKinds == {"RLock", "RUnlock", "WLock", "WUnlock", "Upgrade", "Downgrade"}
SemaphoreKinds == {"SemPost", "SemWait"}
ThreadKinds == {"Spawn", "Join"}
ThreadLocalKinds == {"Set", "BranchNonzero", "Assert", "Label", "Fence"}

(***************************************************************************)
(* The set of source actions.  A Flush is never written in a program: it   *)
(* is the effective action of a store buffer's flush step.                 *)
(***************************************************************************)
MemoryActions ==
    [kind : {"Read", "Write"} \cup AtomicKinds, address : Addresses \cup {NoAddress},
     destination : OptRegister, value : ValueOperand, expected : ValueOperand]
LockActions == [kind : MutexKinds, mutex : Mutexes, destination : OptRegister]
WaitActions ==
    [kind : WaitKinds, condition : Conditions, mutex : Mutexes, destination : OptRegister]
NotifyActions == [kind : NotifyKinds, condition : Conditions]
RwLockActions == [kind : RwLockKinds, rwlock : RwLocks]
SemaphoreActions == [kind : SemaphoreKinds, semaphore : Semaphores]
BarrierActions == [kind : {"BarrierWait"}, barrier : Barriers, parties : Nat]
ThreadActions == [kind : ThreadKinds, target : Nat]
SetActions == [kind : {"Set"}, destination : OptRegister, value : ValueOperand]
BranchActions == [kind : {"BranchNonzero"}, source_register : OptRegister, label : Labels]
AssertActions == [kind : {"Assert"}, source_register : OptRegister]
LabelActions == [kind : {"Label"}, label : Labels]
PlainSteps == [kind : {"Fence", "Yield"}]

Action ==
    MemoryActions \cup LockActions \cup WaitActions \cup NotifyActions
        \cup RwLockActions \cup SemaphoreActions \cup BarrierActions \cup ThreadActions
        \cup SetActions \cup BranchActions \cup AssertActions \cup LabelActions
        \cup PlainSteps

Program == [ThreadId -> Seq(Action)]

FlushAction(address) == [kind |-> "Flush", address |-> address]

(***************************************************************************)
(* ScheduleStep.  flush_address is NoFlushAddress for a source action and  *)
(* for a TSO flush, and the number of the flushed address for a PSO flush. *)
(***************************************************************************)
NoFlushAddress == -1
ScheduleStep ==
    [thread : ThreadId, action_index : Nat, flush_address : Nat \cup {NoFlushAddress}]
SourceStep(t, index) ==
    [thread |-> t, action_index |-> index, flush_address |-> NoFlushAddress]
FlushStep(t, address_id) ==
    [thread |-> t, action_index |-> FlushActionIndex, flush_address |-> address_id]

\* ScheduleStep::operator<: lexicographic, an absent flush address first.
StepLess(l, r) ==
    \/ l.thread < r.thread
    \/ /\ l.thread = r.thread
       /\ \/ l.action_index < r.action_index
          \/ /\ l.action_index = r.action_index
             /\ l.flush_address < r.flush_address

LeastStep(steps) ==
    CHOOSE step \in steps : \A other \in steps \ {step} : StepLess(step, other)

(***************************************************************************)
(* The action-only predicates.                                             *)
(***************************************************************************)
is_atomic_action(a) == a.kind \in AtomicKinds
is_memory_action(a) == a.kind \in PlainKinds \cup AtomicKinds
is_write_like(a) == a.kind \in WriteLikeKinds
is_mutex_action(a) == a.kind \in MutexKinds \cup WaitKinds
is_condition_action(a) == a.kind \in WaitKinds \cup NotifyKinds
is_rwlock_action(a) == a.kind \in RwLockKinds
is_semaphore_action(a) == a.kind \in SemaphoreKinds
is_barrier_action(a) == a.kind = "BarrierWait"
is_thread_local_action(a) == a.kind \in ThreadLocalKinds

SameAddress(l, r) ==
    /\ is_memory_action(l) /\ is_memory_action(r)
    /\ l.address # NoAddress /\ l.address = r.address

may_conflict(l, r) ==
    /\ SameAddress(l, r)
    /\ ~(is_atomic_action(l) /\ is_atomic_action(r))
    /\ is_write_like(l) \/ is_write_like(r)

\* Variant: two atomic writes commute.
DependentMemoryLoose(l, r) ==
    /\ SameAddress(l, r)
    /\ \/ /\ is_atomic_action(l) /\ is_atomic_action(r)
          /\ (l.kind = "AtomicLoad") # (r.kind = "AtomicLoad")
       \/ is_atomic_action(l) # is_atomic_action(r)
       \/ may_conflict(l, r)

\* What makes two actions dependent, one disjunct for each rule of the code.
DependentMemory(l, r) ==
    /\ SameAddress(l, r)
    /\ \/ /\ is_atomic_action(l) /\ is_atomic_action(r)
          /\ ~(l.kind = "AtomicLoad" /\ r.kind = "AtomicLoad")
       \/ is_atomic_action(l) # is_atomic_action(r)
       \/ may_conflict(l, r)

\* Variant: any two operations of one kind on a semaphore commute.
DependentSyncLoose(l, r) ==
    \/ l.kind \in ThreadKinds \/ r.kind \in ThreadKinds
    \/ is_condition_action(l) /\ is_condition_action(r) /\ l.condition = r.condition
    \/ is_mutex_action(l) /\ is_mutex_action(r) /\ l.mutex = r.mutex
    \/ is_rwlock_action(l) /\ is_rwlock_action(r) /\ l.rwlock = r.rwlock
    \/ /\ is_semaphore_action(l) /\ is_semaphore_action(r) /\ l.semaphore = r.semaphore
       /\ l.kind # r.kind
    \/ is_barrier_action(l) /\ is_barrier_action(r) /\ l.barrier = r.barrier

DependentSync(l, r) ==
    \/ l.kind \in ThreadKinds \/ r.kind \in ThreadKinds
    \/ is_condition_action(l) /\ is_condition_action(r) /\ l.condition = r.condition
    \/ is_mutex_action(l) /\ is_mutex_action(r) /\ l.mutex = r.mutex
    \/ is_rwlock_action(l) /\ is_rwlock_action(r) /\ l.rwlock = r.rwlock
    \/ /\ is_semaphore_action(l) /\ is_semaphore_action(r) /\ l.semaphore = r.semaphore
       /\ ~(l.kind = "SemPost" /\ r.kind = "SemPost")
    \/ is_barrier_action(l) /\ is_barrier_action(r) /\ l.barrier = r.barrier

independent(l, r) ==
    \/ is_thread_local_action(l) \/ is_thread_local_action(r)
    \/ ~DependentMemory(l, r) /\ ~DependentSync(l, r)

-----------------------------------------------------------------------------
ASSUME SizesAssumption ==
    /\ NumThreads \in Nat \ {0}
    /\ RegisterCount \in Nat \ {0}
    /\ ValueHalf \in Nat \ {0, 1}
    /\ FlushActionIndex \in Nat

ASSUME NamesAssumption ==
    /\ AddressOrder \in Seq(STRING \ {NoAddress})
    /\ \A i, j \in DOMAIN AddressOrder : AddressOrder[i] = AddressOrder[j] => i = j

ASSUME ProgramsAssumption ==
    /\ Programs \subseteq Program
    /\ \A p \in Programs : \A t \in ThreadId : Len(p[t]) <= FlushActionIndex
=============================================================================
