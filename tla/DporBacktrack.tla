---------------------------- MODULE DporBacktrack ----------------------------
(***************************************************************************)
(* The choices of the reduced search (src/model/checker.cpp): the initial  *)
(* backtrack set of a node, the backtrack points a transition adds to the  *)
(* nodes before it, the repairs for transitions that were disabled there,  *)
(* and the sleep set a child inherits.                                     *)
(*                                                                         *)
(* A trace element is an ExecutedTransition.  An absent vector of steps is *)
(* {}: the code never returns an empty one.                                *)
(***************************************************************************)
EXTENDS Independence

-----------------------------------------------------------------------------
(***************************************************************************)
(* initialize_dpor_backtrack: the first awake step and, until nothing      *)
(* changes, every awake step that one already selected does not let go.    *)
(***************************************************************************)
SiblingFlushes(l, r) ==
    /\ l.endpoint.thread = r.endpoint.thread
    /\ l.effective_action.kind = "Flush" /\ r.effective_action.kind = "Flush"
    /\ l.effective_action.address # r.effective_action.address

SiblingArrivals(s, l, r) ==
    /\ is_barrier_action(l.effective_action) /\ is_barrier_action(r.effective_action)
    /\ l.effective_action.barrier = r.effective_action.barrier
    /\ LET b == s.barriers[l.effective_action.barrier]
       IN  /\ l.effective_action.parties # 0
           /\ l.effective_action.parties = b.parties /\ r.effective_action.parties = b.parties
           /\ l.occurrence.barrier_generation = r.occurrence.barrier_generation
           /\ l.occurrence.barrier_generation = b.generation

Selects(p, n, candidate, selected) ==
    LET l == n.enabled_transitions[candidate]
        r == n.enabled_transitions[selected]
    IN  \/ SiblingFlushes(l, r)
        \/ SiblingArrivals(n.state, l, r)
        \/ ~transitions_independent_at_node(p, n, l, r)

initialize_dpor_backtrack(p, n) ==
    LET awake == EnabledSteps(n) \ n.sleep
        rounds[k \in 0 .. Cardinality(awake)] ==
            IF k = 0 THEN {LeastStep(awake)}
            ELSE rounds[k - 1] \cup
                   {c \in awake : \E e \in rounds[k - 1] : Selects(p, n, c, e)}
    IN  IF awake = {} THEN n ELSE [n EXCEPT !.backtrack = rounds[Cardinality(awake)]]

-----------------------------------------------------------------------------
(***************************************************************************)
(* Repairs.  enabler_heads follows, from a thread that is not enabled at a *)
(* node, the threads it waits for, to the enabled steps that have to run   *)
(* first; it gives up ({}) when one of the chains gives none.              *)
(***************************************************************************)
Remaining(p, s, source) == {ActionAt(p, source, i) : i \in s.pc[source] .. Len(p[source]) - 1}

has_remaining_spawn_to(p, s, source, target) ==
    source # target /\ \E a \in Remaining(p, s, source) : a.kind = "Spawn" /\ a.target = target
has_remaining_wake_on(p, s, source, condition) ==
    \E a \in Remaining(p, s, source) : a.kind \in NotifyKinds /\ a.condition = condition

AllOrNone(sets) == IF {} \in sets THEN {} ELSE UNION sets

Spawners(p, s, target) == {u \in ThreadId : has_remaining_spawn_to(p, s, u, target)}

\* The threads that the holders' and joiners' chains of a blocked action a go to.
Holders(p, s, t, a) ==
    LET l == s.rwlocks[a.rwlock]
    IN  CASE a.kind = "RLock" -> {l.writer_holder} \ {NoThread, t}
          [] a.kind = "WLock" /\ l.writer_holder # NoThread -> {l.writer_holder} \ {t}
          [] a.kind = "WLock" /\ l.writer_holder = NoThread ->
               IF t \in l.reader_holders THEN {} ELSE l.reader_holders
          [] a.kind = "Upgrade" -> l.reader_holders \ {t}
          [] a.kind = "Join" -> {a.target} \cap (ThreadId \ {t})
          [] a.kind = "Wait" ->
               {u \in ThreadId : /\ s.wait_phase[t] = "Waiting"
                                 /\ has_remaining_wake_on(p, s, u, a.condition)}
          [] OTHER -> {}

Enablers(p, s, t) ==
    LET a == effective_next_action(p, s, t)
    IN  IF a.kind = "Lock" THEN {s.mutex_owner[a.mutex]} \ {NoThread, t}
        ELSE Holders(p, s, t, a)

enabler_heads(p, n) ==
    LET s == n.state
        heads[t \in ThreadId, visiting \in SUBSET ThreadId] ==
            LET Follow(threads) == AllOrNone({heads[u, visiting \cup {t}] : u \in threads})
                own == {step \in EnabledSteps(n) : step.thread = t}
            IN  CASE t \in visiting -> {}
                  [] t \notin visiting /\ ~s.started[t] -> Follow(Spawners(p, s, t))
                  [] t \notin visiting /\ s.started[t] /\ own # {} -> own
                  [] t \notin visiting /\ s.started[t] /\ own = {} ->
                       IF is_finished(p, s, t) THEN {} ELSE Follow(Enablers(p, s, t))
    IN  heads

disabled_repair_steps(p, n, current) ==
    LET s == n.state
        t == current.endpoint.thread
        index == current.endpoint.action_index
        a == next_action(p, s, t)
        waits == /\ has_next_action(p, s, t) /\ s.pc[t] = index
                 /\ a.kind \in {"RLock", "WLock", "Upgrade", "Join", "Wait"}
                 /\ effective_next_action(p, s, t) = a /\ a = current.effective_action
        followed == CASE ~s.started[t] -> Spawners(p, s, t)
                      [] s.started[t] /\ s.pc[t] < index -> {t}
                      [] s.started[t] /\ s.pc[t] >= index ->
                           IF waits THEN Holders(p, s, t, a) ELSE {}
    IN  AllOrNone({enabler_heads(p, n)[u, {}] : u \in followed})

\* add_repair_steps and add_all_enabled_repair_steps: scheduled here, and awake.
WithBacktrack(n, steps) == [n EXCEPT !.backtrack = @ \cup steps, !.sleep = @ \ steps]

Repaired(p, n, current) ==
    LET steps == disabled_repair_steps(p, n, current)
    IN  WithBacktrack(n, IF steps # {} THEN steps \cap EnabledSteps(n) ELSE EnabledSteps(n))

-----------------------------------------------------------------------------
(***************************************************************************)
(* add_backtracks_for_transition_against_prefix: current runs first at the *)
(* last node before a dependent transition that it can overtake; if there  *)
(* is none, the nodes where it is disabled are repaired.                   *)
(***************************************************************************)
\* previous happens before current: no schedule from here reverses them.
OrderedBefore(previous, current) == HBE(previous.clock, current.clock)

add_backtracks_against_prefix(p, nodes, trace, current, prefix_size) ==
    LET dependent == {i \in 1 .. prefix_size :
            /\ trace[i].endpoint.thread # current.endpoint.thread
            /\ ~transitions_independent_at_node(p, nodes[i], trace[i], current)}
        enabled == {i \in dependent : EnabledAt(nodes[i], current)}
        reversible == {i \in enabled : ~OrderedBefore(trace[i], current)}
        spawned == {i \in 1 .. prefix_size : trace[i].spawned_thread = current.endpoint.thread}
        disabled == {i \in dependent \ enabled : \A k \in spawned : i > k}
        repaired[i \in 0 .. prefix_size] ==
            IF i = 0 THEN nodes
            ELSE IF i \in disabled
            THEN [repaired[i - 1] EXCEPT ![i] = Repaired(p, @, current)]
            ELSE repaired[i - 1]
    IN  IF reversible # {}
        THEN [nodes EXCEPT ![Max(reversible)] = WithBacktrack(@, {current.endpoint})]
        ELSE repaired[prefix_size]

add_backtracks_for_transition(p, nodes, trace) ==
    add_backtracks_against_prefix(p, nodes, trace, trace[Len(trace)], Len(trace) - 1)

\* The next action of a thread that cannot take it, as a transition.
BlockedTransition(p, s, t) ==
    LET step == SourceStep(t, s.pc[t])
        a == effective_next_action(p, s, t)
    IN  [endpoint |-> step, effective_action |-> a,
         occurrence |-> transition_occurrence_identity_for(s, step, a),
         clock |-> s.thread_clock[t], spawned_thread |-> NoThread]

\* Variant: blocked threads ask for no backtrack point.
NoDisabledBacktracks(p, n, nodes, trace) == nodes

\* For each thread blocked at n in turn.
add_disabled_backtracks(p, n, nodes, trace) ==
    LET s == n.state
        Blocks(t) == /\ ~is_finished(p, s, t)
                     /\ \A step \in EnabledSteps(n) : step.thread # t
                     /\ has_next_action(p, s, t)
        upto[t \in 0 .. NumThreads] ==
            IF t = 0 THEN nodes
            ELSE IF Blocks(t - 1)
            THEN add_backtracks_against_prefix(
                    p, upto[t - 1], trace, BlockedTransition(p, s, t - 1), Len(trace))
            ELSE upto[t - 1]
    IN  upto[NumThreads]

-----------------------------------------------------------------------------
\* Variant: every slept step that is still enabled is inherited.
InheritedWithoutIndependence(p, next, parent, transition) ==
    {step \in (parent.sleep \cap EnabledSteps(parent)) \ {transition.endpoint} :
        EnabledAt(next, parent.enabled_transitions[step])}

\* The slept steps that commute with the transition and survive it.
inherited_sleep_set(p, next, parent, transition) ==
    {step \in (parent.sleep \cap EnabledSteps(parent)) \ {transition.endpoint} :
        LET slept == parent.enabled_transitions[step]
        IN  /\ EnabledAt(next, slept)
            /\ transitions_independent_at_node(p, parent, slept, transition)}
=============================================================================
