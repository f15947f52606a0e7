-------------------------- MODULE InterpreterProps --------------------------
(***************************************************************************)
(* What an execution of the interpreter must satisfy.                      *)
(***************************************************************************)
EXTENDS Interpreter, StateProps, Independence

-----------------------------------------------------------------------------
(***************************************************************************)
(* The state is an ExecutionState of the C++ struct's shape, every counter *)
(* stands on an action that is not a label or at its thread's end, and the *)
(* result is a CheckResult.                                                *)
(***************************************************************************)
TypeOK ==
    /\ program \in Programs
    /\ state \in ExecutionState
    /\ PcOK(program, state)
    /\ result \in CheckResult

-----------------------------------------------------------------------------
(***************************************************************************)
(* A thread's own component counts exactly its steps, and no clock that    *)
(* was published, recorded with an access, or joined by another thread     *)
(* claims more of a thread than the thread itself has done.  (tick and     *)
(* join in execute_enabled_step.)                                          *)
(***************************************************************************)
ClockInv == ClocksCount(state)

(***************************************************************************)
(* Clocks are causally closed: a clock that knows of the step of an access *)
(* knows everything the access knew.  Hence happens_before_or_equal        *)
(* between an access and anything later says the same as comparing the one *)
(* component of the access's thread, and "unordered" means concurrent.     *)
(***************************************************************************)
EpochInv ==
    \A e \in Accesses(state) :
        \A c \in ThreadClocks(state) \cup PublishedClocks(state)
                    \cup {f.clock : f \in Accesses(state)} :
            LET u == e.endpoint.thread
            IN  c[u] >= e.clock[u] => HBE(e.clock, c)

(***************************************************************************)
(* A holder has acquired what its lock published: the owner of a mutex the *)
(* mutex's clock, a reader or writer the last writer release, and while a  *)
(* writer holds the lock no reader holds it and no reader release is left  *)
(* to acquire.  This is why Unlock, WUnlock and Downgrade may replace the  *)
(* published clock instead of joining it.                                  *)
(***************************************************************************)
HandoffInv == HandedOff(state)

(***************************************************************************)
(* Release clocks of mutexes, writers and semaphores never lose anything,  *)
(* although the code overwrites two of them: a step leaves each clock at   *)
(* least what it was.                                                      *)
(***************************************************************************)
PublicationMonotone ==
    [][/\ \A m \in Mutexes : HBE(state.mutex_clock[m], state'.mutex_clock[m])
       /\ \A l \in RwLocks :
             HBE(state.rwlocks[l].writer_release, state'.rwlocks[l].writer_release)
       /\ \A q \in Semaphores :
             HBE(state.semaphores[q].post_releases, state'.semaphores[q].post_releases)
      ]_vars

-----------------------------------------------------------------------------
(***************************************************************************)
(* Parked threads.  The waiters of a condition are the threads in phase    *)
(* Waiting at a wait on it; a thread in a wait does not own the mutex it   *)
(* will reacquire; the arrivals of a barrier are threads standing at a     *)
(* BarrierWait on it, fewer than its parties, with no store left to flush, *)
(* whose clocks the generation has accumulated; and no thread is parked at *)
(* two barriers.                                                           *)
(* (insert_waiter, remove_waiter, wake_waiter and the BarrierWait asserts.)*)
(***************************************************************************)
ParkedInv == Parked(program, state)

-----------------------------------------------------------------------------
(***************************************************************************)
(* Races.  The reference is the full history of accesses to an address:    *)
(* two of them race when one writes, not both are atomic, and neither      *)
(* happens before the other.                                               *)
(***************************************************************************)
Concurrent(e, f) == ~HBE(e.clock, f.clock) /\ ~HBE(f.clock, e.clock)

Races(m) ==
    {ef \in HistoryOf(m) \X HistoryOf(m) :
        /\ ef[1].is_write \/ ef[2].is_write
        /\ ~(ef[1].is_atomic /\ ef[2].is_atomic)
        /\ Concurrent(ef[1], ef[2])}

(***************************************************************************)
(* A reported race is one: its endpoints are two accesses to its address   *)
(* that race.                                                              *)
(***************************************************************************)
RaceSound ==
    \A race \in result.first_race :
        \E ef \in Races(state.memory[race.address]) :
            ef[1].endpoint = race.first /\ ef[2].endpoint = race.second

(***************************************************************************)
(* INVARIANTS.md: "Conflicting memory accesses unordered by happens-before *)
(* are races."  As soon as two recorded accesses race, one has been        *)
(* reported, although record_read and record_write keep only the last      *)
(* write and the reads since it.                                           *)
(***************************************************************************)
RaceComplete ==
    (\E x \in Addresses : Races(state.memory[x]) # {}) => result.first_race # {}

-----------------------------------------------------------------------------
(***************************************************************************)
(* A terminal state with unfinished threads is a deadlock.                 *)
(***************************************************************************)
Deadlocked(p, s) == ~any_enabled(p, s) /\ ~all_finished(p, s)

(***************************************************************************)
(* A deadlock report names every started, unfinished thread exactly once,  *)
(* and what it names really blocks the thread: a mutex or a lock held in a *)
(* conflicting mode, an unfinished thread, a condition nobody signalled,   *)
(* whose waiter has given up the mutex named with it, a semaphore without  *)
(* permit, a generation that is not complete.                              *)
(***************************************************************************)
Blocks(b) ==
    LET t == b.thread
        lock == state.rwlocks[b.object]
    IN  CASE b.kind = "Mutex" -> b.owner # NoThread /\ b.owner = state.mutex_owner[b.object]
          [] b.kind = "RwLockWriter" -> b.owner = lock.writer_holder /\ b.owner \notin {NoThread, t}
          [] b.kind = "RwLockReaders" ->
               lock.reader_holders # {} /\ (b.self_wait <=> t \in lock.reader_holders)
          [] b.kind = "RwLockUpgrade" -> {t} \subseteq lock.reader_holders /\ lock.reader_holders # {t}
          [] b.kind = "Thread" -> ~is_finished(program, state, b.target)
          [] b.kind = "ConditionVariable" ->
               t \in state.condition_waiters[b.object] /\ state.mutex_owner[b.mutex] # t
          [] b.kind = "Semaphore" -> state.semaphores[b.object].permits = 0
          [] b.kind = "Barrier" -> t \in state.barriers[b.object].arrivals

DeadlockExplained ==
    Deadlocked(program, state) =>
        LET report == make_deadlock_report(program, state)
        IN  /\ {b.thread : b \in report} =
                  {t \in ThreadId : state.started[t] /\ ~is_finished(program, state, t)}
            /\ Cardinality(report) = Cardinality({b.thread : b \in report})
            /\ \A b \in report : Blocks(b)

-----------------------------------------------------------------------------
(***************************************************************************)
(* Progress.  In a program without backward branches every step increases  *)
(* this rank, which is computed from fields of the behavioral fingerprint  *)
(* only; so no fingerprint recurs, and requires_cycle_detection may leave  *)
(* the history out.                                                        *)
(***************************************************************************)
PhaseRank(s, t) ==
    CASE s.wait_phase[t] = "Woken" -> 2
      [] s.wait_phase[t] = "Waiting" -> 1
      [] s.wait_phase[t] = "None" -> IF \E b \in Barriers : t \in s.barriers[b].arrivals THEN 1 ELSE 0

Pending(s, t) ==
    Len(s.store_buffers[t]) + MapThenSumSet(LAMBDA x : Len(s.pso_store_buffers[t][x]), Addresses)

Rank(s) ==
    MapThenSumSet(LAMBDA t : 4 * s.pc[t] + PhaseRank(s, t) - Pending(s, t), ThreadId)

Progress ==
    [][~requires_cycle_detection(program) => Rank(state') > Rank(state)]_vars
-----------------------------------------------------------------------------
(***************************************************************************)
(* The objects of the interpreter are those of the abstract specification: *)
(* a thread in a wait is to return to the mutex of the wait it stands at.  *)
(***************************************************************************)
Objects ==
    INSTANCE Synchronizers WITH
        Threads <- ThreadId, Nobody <- NoThread,
        owner <- state.mutex_owner,
        sleepers <- state.condition_waiters,
        returning <- [t \in ThreadId |-> IF state.wait_phase[t] = "None" THEN {}
                                         ELSE {next_action(program, state, t).mutex}],
        readers <- [l \in RwLocks |-> state.rwlocks[l].reader_holders],
        writer <- [l \in RwLocks |-> state.rwlocks[l].writer_holder],
        permits <- [q \in Semaphores |-> state.semaphores[q].permits],
        gathered <- [b \in Barriers |-> state.barriers[b].arrivals],
        parties <- [b \in Barriers |-> state.barriers[b].parties]

(***************************************************************************)
(* execute_enabled_step does to the objects what their names promise: one  *)
(* owner at a time, readers or one writer, a wait that releases and falls  *)
(* asleep in one step and returns only when woken and as the owner of the  *)
(* mutex it gave up, wakes that take one sleeper or all, permits that are  *)
(* never taken before they are posted, a barrier that opens for all of its *)
(* parties at once.  A step reported as a misuse does nothing to them.     *)
(***************************************************************************)
ImplementsSynchronizers == Objects!Spec

-----------------------------------------------------------------------------
(***************************************************************************)
(* What the partial-order reduction needs of the independence relation.    *)
(***************************************************************************)
After(s, l) == execute_enabled_step(program, s, l.endpoint)

\* The accesses of a history without their order.  Two flushes of one thread are
\* numbered in the order they happen, so their clocks are not compared.
AccessBag(history, same_thread) ==
    {IF same_thread THEN [e EXCEPT !.clock = Zero] ELSE e :
        e \in {history[i] : i \in DOMAIN history}}

Unordered(m, same_thread) ==
    <<AccessBag(m.plain_accesses, same_thread), AccessBag(m.atomic_accesses, same_thread),
      {e.endpoint : e \in m.last_write}, {e.endpoint : e \in m.reads_since_last_write}>>

SameState(s, r, same_thread) ==
    /\ [s EXCEPT !.memory = 0] = [r EXCEPT !.memory = 0]
    /\ \A x \in Addresses : Unordered(s.memory[x], same_thread) = Unordered(r.memory[x], same_thread)

\* l, a transition of state, is still enabled in s as the same occurrence.
StillEnabled(s, l) ==
    /\ l.endpoint \in enabled_steps_for_thread(program, s, l.endpoint.thread)
    /\ TransitionFor(program, s, l.endpoint) = l

Commute(l, r) ==
    LET first_l == After(state, l)
        first_r == After(state, r)
        then_r == After(first_l.state, r)
        then_l == After(first_r.state, l)
    IN  /\ StillEnabled(first_l.state, r)
        /\ StillEnabled(first_r.state, l)
        /\ SameState(then_r.state, then_l.state, l.endpoint.thread = r.endpoint.thread)
        /\ then_r.report = first_r.report
        /\ then_l.report = first_l.report

(***************************************************************************)
(* The diamond: of two transitions enabled together that                   *)
(* transitions_independent_at_node calls independent, in either order of   *)
(* its arguments, each leaves the other enabled as the same occurrence,    *)
(* both orders reach the same state, and neither changes what the other    *)
(* reports.  Sleep sets and backtrack sets are sound only for such pairs.  *)
(***************************************************************************)
Diamond ==
    LET n == Node(program, state)
        enabled == {n.enabled_transitions[step] : step \in EnabledSteps(n)}
    IN  \A l, r \in enabled :
            /\ StepLess(l.endpoint, r.endpoint)
            /\ \/ transitions_independent_at_node(program, n, l, r)
               \/ transitions_independent_at_node(program, n, r, l)
            => Commute(l, r)
=============================================================================
