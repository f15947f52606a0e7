----------------------------- MODULE PathHistory -----------------------------
(***************************************************************************)
(* The behavioral state of an execution and the history of one path, with  *)
(* which the searches cut cycles (src/model/checker.cpp).                  *)
(*                                                                         *)
(* The code encodes the behavioral state injectively as a byte string;     *)
(* here it is the tuple of the fields encoded.  Clocks, access histories,  *)
(* step counts and barrier generations are left out: they change on every  *)
(* turn of a loop and decide neither control nor enabledness.              *)
(***************************************************************************)
EXTENDS Execution

\* Variant: the arrivals at a barrier are forgotten.
FingerprintWithoutArrivals(s) ==
    [memory_model |-> s.memory_model, pc |-> s.pc, started |-> s.started,
     mutex_owner |-> s.mutex_owner,
     writer_holder |-> [l \in RwLocks |-> s.rwlocks[l].writer_holder],
     reader_holders |-> [l \in RwLocks |-> s.rwlocks[l].reader_holders],
     permits |-> [q \in Semaphores |-> s.semaphores[q].permits],
     condition_waiters |-> s.condition_waiters,
     registers |-> s.registers, wait_phase |-> s.wait_phase,
     memory_values |-> s.memory_values,
     store_buffers |-> s.store_buffers, pso_store_buffers |-> s.pso_store_buffers]

behavioral_state_fingerprint(s) ==
    [memory_model |-> s.memory_model, pc |-> s.pc, started |-> s.started,
     mutex_owner |-> s.mutex_owner,
     writer_holder |-> [l \in RwLocks |-> s.rwlocks[l].writer_holder],
     reader_holders |-> [l \in RwLocks |-> s.rwlocks[l].reader_holders],
     permits |-> [q \in Semaphores |-> s.semaphores[q].permits],
     arrivals |-> [b \in Barriers |-> s.barriers[b].arrivals],
     condition_waiters |-> s.condition_waiters,
     registers |-> s.registers, wait_phase |-> s.wait_phase,
     memory_values |-> s.memory_values,
     store_buffers |-> s.store_buffers, pso_store_buffers |-> s.pso_store_buffers]

\* A history maps the behavioral states of a path to their positions in it.
initial_state_history(p, s) ==
    IF requires_cycle_detection(p)
    THEN {[key |-> behavioral_state_fingerprint(s), position |-> 0]}
    ELSE {}

\* observe_path_behavioral_state: the position of an equal state is the start of a
\* cycle; a new state is inserted, and PathHistoryRestore erases it on the way back.
CycleStart(history, s) ==
    {h.position : h \in {e \in history : e.key = behavioral_state_fingerprint(s)}}
Observed(p, history, s, length) ==
    IF requires_cycle_detection(p)
    THEN history \cup {[key |-> behavioral_state_fingerprint(s), position |-> length]}
    ELSE history
\* Variant: the history keeps the states of abandoned branches.
NeverRestored(history, length) == history

Restored(history, length) == {h \in history : h.position # length}
=============================================================================
