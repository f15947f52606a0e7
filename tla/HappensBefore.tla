---------------------------- MODULE HappensBefore ----------------------------
(***************************************************************************)
(* The happens-before relation the checker's vector clocks are to compute, *)
(* defined without clocks: the transitive closure of program order and the *)
(* synchronisation edges that INVARIANTS.md ("Happens-before") lists, over *)
(* the events of one execution.  The specification is Interpreter with a   *)
(* history variable that records the events.                               *)
(***************************************************************************)
EXTENDS Interpreter

VARIABLES
    trace,   \* the events of the path, in the order executed
    past     \* past[j]: the positions of the events that happen before event j

hvars == <<program, state, result, trace, past>>

(***************************************************************************)
(* What the event of step shows of the step from state to state'.  acquired*)
(* and published tell what a TryLock or a CompareExchange turned out to do;*)
(* woken are the threads a Signal or Broadcast woke, released the          *)
(* participants of a barrier generation the event completed, generation    *)
(* the one it arrived in.  clock is the thread's clock after the step.     *)
(***************************************************************************)
Event(step) ==
    LET t == step.thread
        a == IF is_flush_step(step) THEN effective_action_for_step(program, state, step)
             ELSE next_action(program, state, t)
        history == state'.memory[a.address].atomic_accesses
    IN  [thread |-> t,
         action |-> a,
         phase |-> state.wait_phase[t],
         failed |-> result'.first_error # {},
         acquired |-> a.kind = "TryLock" /\ state.mutex_owner[a.mutex] = NoThread,
         published |-> /\ is_atomic_action(a)
                       /\ a.address # NoAddress
                       /\ history[Len(history)].is_write,
         woken |-> {u \in ThreadId \ {t} : /\ state.wait_phase[u] = "Waiting"
                                           /\ state'.wait_phase[u] = "Woken"},
         generation |-> IF a.kind = "BarrierWait" THEN state.barriers[a.barrier].generation ELSE 0,
         released |-> IF /\ a.kind = "BarrierWait"
                         /\ state'.barriers[a.barrier].generation # state.barriers[a.barrier].generation
                      THEN state.barriers[a.barrier].arrivals \cup {t}
                      ELSE {},
         clock |-> state'.thread_clock[t]]

-----------------------------------------------------------------------------
(***************************************************************************)
(* The edges.  i and j are positions of a trace h with i < j.  A path ends *)
(* with the event that failed, so only f can be that event.                *)
(***************************************************************************)
ReleasesMutex(e) ==
    \/ e.action.kind = "Unlock"
    \/ e.action.kind \in WaitKinds /\ e.phase = "None"
AcquiresMutex(e) ==
    \/ e.action.kind = "Lock"
    \/ e.action.kind = "TryLock" /\ e.acquired
    \/ e.action.kind \in WaitKinds /\ e.phase = "Woken"

\* A release of a mutex to every later acquisition of it.
MutexEdge(e, f) == ReleasesMutex(e) /\ AcquiresMutex(f) /\ e.action.mutex = f.action.mutex

\* A writer's release to every later acquisition, a reader's only to a later writer's.
RwLockEdge(e, f) ==
    /\ ~f.failed
    /\ is_rwlock_action(e.action) /\ is_rwlock_action(f.action)
    /\ e.action.rwlock = f.action.rwlock
    /\ \/ e.action.kind \in {"WUnlock", "Downgrade"} /\ f.action.kind \in {"RLock", "WLock", "Upgrade"}
       \/ e.action.kind = "RUnlock" /\ f.action.kind \in {"WLock", "Upgrade"}

SemaphoreEdge(e, f) ==
    /\ e.action.kind = "SemPost" /\ f.action.kind = "SemWait"
    /\ e.action.semaphore = f.action.semaphore

\* Spawn to everything the target does, everything the target does to its Join.
ThreadEdge(e, f) ==
    \/ e.action.kind = "Spawn" /\ e.action.target = f.thread
    \/ f.action.kind = "Join" /\ f.action.target = e.thread /\ ~f.failed

\* A notification to what the threads it woke do next.
WakeEdge(e, f) == f.thread \in e.woken

\* The arrivals of a generation to its completion and to what the participants do after it.
BarrierEdge(h, i, j) ==
    \E r \in i .. j :
        /\ h[r].released # {}
        /\ h[i].action.kind = "BarrierWait"
        /\ h[i].action.barrier = h[r].action.barrier
        /\ h[i].generation = h[r].generation
        /\ j = r \/ h[j].thread \in h[r].released

\* An atomic store to the loads that read from it.
AtomicEdge(h, i, j) ==
    LET OnLocation(k) == /\ is_atomic_action(h[k].action)
                         /\ h[k].action.address = h[j].action.address
    IN  /\ is_atomic_action(h[j].action)
        /\ h[j].action.kind # "AtomicStore"
        /\ h[j].action.address # NoAddress
        /\ OnLocation(i) /\ h[i].published
        /\ \A k \in i + 1 .. j - 1 : ~(OnLocation(k) /\ h[k].published)

Edge(h, i, j) ==
    LET e == h[i]
        f == h[j]
    IN  \/ e.thread = f.thread
        \/ MutexEdge(e, f) \/ RwLockEdge(e, f) \/ SemaphoreEdge(e, f)
        \/ ThreadEdge(e, f) \/ WakeEdge(e, f)
        \/ BarrierEdge(h, i, j) \/ AtomicEdge(h, i, j)

-----------------------------------------------------------------------------
HInit == Init /\ trace = <<>> /\ past = <<>>
HNext ==
    \E t \in ThreadId : \E step \in enabled_steps_for_thread(program, state, t) :
        /\ Execute(step)
        /\ trace' = Append(trace, Event(step))
        /\ LET n == Len(trace) + 1
           IN  past' = Append(past, UNION {{i} \cup past[i] :
                                             i \in {k \in 1 .. n - 1 : Edge(trace', k, n)}})
HSpec == HInit /\ [][HNext]_hvars

(***************************************************************************)
(* Vector clocks are exact: the clock of an event is at most the clock of  *)
(* a later one exactly when the event happens before it.  A missing edge   *)
(* would report races that are none, an extra one would hide races         *)
(* (the comments of execute_enabled_step argue each case).                 *)
(***************************************************************************)
ClocksExact ==
    LET n == Len(trace)
    IN  n > 0 => \A i \in 1 .. n - 1 : HBE(trace[i].clock, trace[n].clock) <=> i \in past[n]
=============================================================================
