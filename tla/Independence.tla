---------------------------- MODULE Independence ----------------------------
(***************************************************************************)
(* The independence relation the partial-order reduction prunes with       *)
(* (src/model/checker.cpp): transitions_independent refines the action-only*)
(* relation of ActionIR with the threads, the program and the memory model,*)
(* transitions_independent_at_node with the state at a node of the search. *)
(*                                                                         *)
(* A transition is a record with its endpoint, its effective action and    *)
(* its occurrence, which tells apart two firings of one endpoint.          *)
(***************************************************************************)
EXTENDS Execution

-----------------------------------------------------------------------------
(***************************************************************************)
(* Occurrence identities: the generation a barrier arrival belongs to, the *)
(* parked episodes a Signal or Broadcast wakes, and which firing of a      *)
(* TimedWait this is.                                                      *)
(***************************************************************************)
NoOccurrence == [barrier_generation |-> -1, wake_targets |-> {}, timed_wait |-> <<>>]

wait_episode_identity_for(s, waiter) ==
    [thread |-> waiter, action_index |-> s.pc[waiter], episode |-> s.thread_steps[waiter]]

condition_wake_targets_for(s, a) ==
    LET waiters == IF a.kind \in NotifyKinds THEN s.condition_waiters[a.condition] ELSE {}
        woken == IF a.kind = "Signal" THEN {u \in waiters : \A v \in waiters : u <= v}
                 ELSE waiters
    IN  {wait_episode_identity_for(s, u) : u \in woken}

timed_wait_occurrence_for(s, t, a) ==
    CASE a.kind = "TimedWait" /\ s.wait_phase[t] = "None" -> <<"Park", s.thread_steps[t] + 1>>
      [] a.kind = "TimedWait" /\ s.wait_phase[t] = "Waiting" -> <<"Timeout", s.thread_steps[t]>>
      [] a.kind # "TimedWait" -> <<>>

transition_occurrence_identity_for(s, step, a) ==
    [barrier_generation |-> IF is_barrier_action(a) THEN s.barriers[a.barrier].generation ELSE -1,
     wake_targets |-> condition_wake_targets_for(s, a),
     timed_wait |-> timed_wait_occurrence_for(s, step.thread, a)]

TransitionFor(p, s, step) ==
    LET a == effective_action_for_step(p, s, step)
    IN  [endpoint |-> step, effective_action |-> a,
         occurrence |-> transition_occurrence_identity_for(s, step, a)]

enabled_transitions(p, s) == [step \in enabled_steps(p, s) |-> TransitionFor(p, s, step)]

(***************************************************************************)
(* A DporNode: the state it snapshots, the transitions enabled there, and  *)
(* the steps scheduled, done and sleeping at it.                           *)
(***************************************************************************)
Node(p, s) ==
    [state |-> s, enabled_transitions |-> enabled_transitions(p, s),
     backtrack |-> {}, done |-> {}, sleep |-> {}]

EnabledSteps(n) == DOMAIN n.enabled_transitions

\* transition_enabled_at_node and node_enabled_transition_matches: enabled here in
\* exactly this occurrence.
EnabledAt(n, l) ==
    /\ l.endpoint \in EnabledSteps(n)
    /\ n.enabled_transitions[l.endpoint].effective_action = l.effective_action
    /\ n.enabled_transitions[l.endpoint].occurrence = l.occurrence

-----------------------------------------------------------------------------
(***************************************************************************)
(* transitions_independent.                                                *)
(***************************************************************************)
join_independent_from_transition(joiner, join, other, a) ==
    /\ ~InvalidTarget(joiner, join)
    /\ other # join.target
    /\ a.kind # "Spawn"
    /\ ~(a.kind = "Join" /\ ~InvalidTarget(other, a) /\ a.target = joiner)

ProgramUses(p, l, kinds) ==
    \E t \in ThreadId : \E a \in ActionsOf(p, t) : a.kind \in kinds /\ a.rwlock = l

\* Two reader actions on one lock commute when the program never converts it (two
\* acquisitions) or never takes it in writer mode at all.
ReadersCommute(p, a, b) ==
    /\ a.kind \in {"RLock", "RUnlock"} /\ b.kind \in {"RLock", "RUnlock"}
    /\ a.rwlock = b.rwlock
    /\ \/ /\ a.kind = "RLock" /\ b.kind = "RLock"
          /\ ~ProgramUses(p, a.rwlock, {"Upgrade"})
       \/ ~ProgramUses(p, a.rwlock, {"WLock", "WUnlock", "Upgrade", "Downgrade"})

\* A buffered write only enqueues, privately to its thread.
BufferedWrite(model, a, b) ==
    /\ model # "SC"
    /\ a.kind = "Write" \/ b.kind = "Write"
    /\ a.kind # "Spawn" /\ b.kind # "Spawn"

transitions_independent(p, model, t, a, u, b) ==
    IF t = u
    THEN /\ a.kind = "Flush" /\ b.kind = "Flush"
         /\ a.address # b.address
    ELSE IF a.kind = "Join" \/ b.kind = "Join"
    THEN /\ a.kind = "Join" => join_independent_from_transition(t, a, u, b)
         /\ b.kind = "Join" => join_independent_from_transition(u, b, t, a)
    ELSE ReadersCommute(p, a, b) \/ BufferedWrite(model, a, b) \/ independent(a, b)

-----------------------------------------------------------------------------
(***************************************************************************)
(* transitions_independent_at_node, for the transitions l and r.           *)
(***************************************************************************)
same_mutex_try_locks_independent_at_node(n, l, r) ==
    LET owner == n.state.mutex_owner[l.effective_action.mutex]
    IN  /\ l.endpoint.thread # r.endpoint.thread
        /\ EnabledAt(n, l) /\ EnabledAt(n, r)
        /\ owner \notin {NoThread, l.endpoint.thread, r.endpoint.thread}

\* l and r arrive in the current generation, and neither second arrival completes it.
same_barrier_arrivals_independent_at_node(n, l, r) ==
    LET b == n.state.barriers[l.effective_action.barrier]
    IN  /\ l.effective_action.parties # 0
        /\ l.effective_action.parties = b.parties /\ r.effective_action.parties = b.parties
        /\ l.occurrence = r.occurrence /\ l.occurrence.barrier_generation = b.generation
        /\ EnabledAt(n, l) /\ EnabledAt(n, r)
        /\ {l.endpoint.thread, r.endpoint.thread} \cap b.arrivals = {}
        /\ Cardinality(b.arrivals) + 2 < b.parties

barrier_arrival_releases_parked_thread(n, l, other) ==
    /\ is_barrier_action(l.effective_action)
    /\ EnabledAt(n, l)
    /\ LET b == n.state.barriers[l.effective_action.barrier]
       IN  /\ l.effective_action.parties # 0 /\ l.effective_action.parties = b.parties
           /\ l.occurrence.barrier_generation = b.generation
           /\ Cardinality(b.arrivals) + 1 = b.parties
           /\ other \in b.arrivals

transitions_independent_at_node(p, n, l, r) ==
    LET a == l.effective_action
        b == r.effective_action
        t == l.endpoint.thread
        u == r.endpoint.thread
    IN  CASE a.kind = "TryLock" /\ b.kind = "TryLock" /\ a.mutex = b.mutex ->
               same_mutex_try_locks_independent_at_node(n, l, r)
          [] is_barrier_action(a) /\ is_barrier_action(b) /\ a.barrier = b.barrier ->
               same_barrier_arrivals_independent_at_node(n, l, r)
          [] OTHER ->
               /\ ~barrier_arrival_releases_parked_thread(n, l, u)
               /\ ~barrier_arrival_releases_parked_thread(n, r, t)
               /\ transitions_independent(p, n.state.memory_model, t, a, u, b)
=============================================================================
