----------------------------- MODULE Interpreter -----------------------------
(***************************************************************************)
(* One execution of a program by the checker's interpreter: the behaviours *)
(* of this specification are the paths that dfs and dpor_dfs extend one    *)
(* enabled step at a time (src/model/checker.cpp).  A path ends when no    *)
(* step is enabled, when a step reports a modeled error or an assertion    *)
(* failure, and, for a thread, when it has taken StepBound steps.          *)
(*                                                                         *)
(* There is one action for each kind of transition.  All of them execute   *)
(* one step; a thread's step is its next source action, or the flush of a  *)
(* buffered store.                                                         *)
(***************************************************************************)
EXTENDS Execution

CONSTANTS
    MemoryModels,   \* the memory models explored
    StepBound       \* step_bound_: steps of one thread in one execution

ASSUME BoundAssumption == StepBound \in Nat /\ MemoryModels \subseteq MemoryModel

VARIABLES
    program,        \* const Program& program
    state,          \* ExecutionState& state
    result          \* the CheckResult fields one path can set

vars == <<program, state, result>>

-----------------------------------------------------------------------------
step_bound_reached(s, t) == s.thread_steps[t] >= StepBound

-----------------------------------------------------------------------------
Init ==
    /\ program \in Programs
    /\ \E model \in MemoryModels : state = initial_state(program, model)
    /\ result = [first_race |-> {}, first_error |-> {}, first_assertion |-> {}]

PathEnded == result.first_error # {} \/ result.first_assertion # {}

Execute(step) ==
    /\ ~PathEnded
    /\ step \in enabled_steps_for_thread(program, state, step.thread)
    /\ ~step_bound_reached(state, step.thread)
    /\ LET outcome == execute_enabled_step(program, state, step)
       IN  /\ state' = outcome.state
           /\ result' = record_step_report(result, outcome.report)
    /\ UNCHANGED program

Source(t, kind) ==
    /\ has_next_action(program, state, t)
    /\ next_action(program, state, t).kind = kind
    /\ Execute(SourceStep(t, state.pc[t]))

Read(t) == Source(t, "Read")
Write(t) == Source(t, "Write")
Flush(t) == \E step \in FlushSteps(program, state, t) : Execute(step)
AtomicLoad(t) == Source(t, "AtomicLoad")
AtomicStore(t) == Source(t, "AtomicStore")
AtomicRmw(t) == Source(t, "AtomicRmw")
CompareExchange(t) == Source(t, "CompareExchange")
Fence(t) == Source(t, "Fence")
Set(t) == Source(t, "Set")
BranchNonzero(t) == Source(t, "BranchNonzero")
Assert(t) == Source(t, "Assert")
Yield(t) == Source(t, "Yield")
Lock(t) == Source(t, "Lock")
TryLock(t) == Source(t, "TryLock")
Unlock(t) == Source(t, "Unlock")
WaitPark(t) == state.wait_phase[t] = "None" /\ Source(t, "Wait")
WaitReacquire(t) == state.wait_phase[t] = "Woken" /\ Source(t, "Wait")
TimedWaitPark(t) == state.wait_phase[t] = "None" /\ Source(t, "TimedWait")
TimedWaitTimeout(t) == state.wait_phase[t] = "Waiting" /\ Source(t, "TimedWait")
TimedWaitReacquire(t) == state.wait_phase[t] = "Woken" /\ Source(t, "TimedWait")
Signal(t) == Source(t, "Signal")
Broadcast(t) == Source(t, "Broadcast")
RLock(t) == Source(t, "RLock")
RUnlock(t) == Source(t, "RUnlock")
WLock(t) == Source(t, "WLock")
WUnlock(t) == Source(t, "WUnlock")
Upgrade(t) == Source(t, "Upgrade")
Downgrade(t) == Source(t, "Downgrade")
SemPost(t) == Source(t, "SemPost")
SemWait(t) == Source(t, "SemWait")
BarrierWait(t) == Source(t, "BarrierWait")
Spawn(t) == Source(t, "Spawn")
JoinThread(t) == Source(t, "Join")

MemoryNext(t) ==
    \/ Read(t) \/ Write(t) \/ Flush(t) \/ AtomicLoad(t) \/ AtomicStore(t) \/ AtomicRmw(t)
    \/ CompareExchange(t) \/ Fence(t) \/ Set(t) \/ BranchNonzero(t) \/ Assert(t) \/ Yield(t)

SyncNext(t) ==
    \/ Lock(t) \/ TryLock(t) \/ Unlock(t) \/ WaitPark(t) \/ WaitReacquire(t)
    \/ TimedWaitPark(t) \/ TimedWaitTimeout(t) \/ TimedWaitReacquire(t)
    \/ Signal(t) \/ Broadcast(t) \/ RLock(t) \/ RUnlock(t) \/ WLock(t) \/ WUnlock(t)
    \/ Upgrade(t) \/ Downgrade(t) \/ SemPost(t) \/ SemWait(t) \/ BarrierWait(t)
    \/ Spawn(t) \/ JoinThread(t)

Next == \E t \in ThreadId : MemoryNext(t) \/ SyncNext(t)

\* The explorer takes a step of the path as long as one is enabled.
Spec == Init /\ [][Next]_vars
=============================================================================
