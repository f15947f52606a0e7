---------------------------- MODULE SearchProofs ----------------------------
(***************************************************************************)
(* The stack of the reduced search, for every program, memory model, step  *)
(* bound and schedule cap: the shared history is the map of the current    *)
(* path, and whatever sleeps at a frame has been explored.                 *)
(*                                                                         *)
(* Between two calls a frame only evolves: its state and its enabled       *)
(* transitions stay, its done set grows, and what falls asleep is done.    *)
(***************************************************************************)
EXTENDS Checker, ReplayLemmas

-----------------------------------------------------------------------------
(***************************************************************************)
(* Stacks of nodes.                                                        *)
(***************************************************************************)
NodeFields == {"state", "enabled_transitions", "backtrack", "done", "sleep"}

SameNode(n, m) ==
    /\ NodeFields \subseteq DOMAIN m
    /\ m.state = n.state /\ m.enabled_transitions = n.enabled_transitions

Stack(ns) == IsSeq(ns) /\ \A i \in 1 .. Len(ns) : NodeFields \subseteq DOMAIN ns[i]

\* ms is ns with some steps awake again.
Woken(ns, ms) ==
    /\ IsSeq(ms) /\ Len(ms) = Len(ns)
    /\ \A i \in 1 .. Len(ns) : /\ SameNode(ns[i], ms[i]) /\ ms[i].done = ns[i].done
                               /\ ms[i].sleep \subseteq ns[i].sleep

\* ms is ns later, with the same frames open.
Evolves(ns, ms) ==
    /\ IsSeq(ms) /\ Len(ms) = Len(ns)
    /\ \A i \in 1 .. Len(ns) : /\ SameNode(ns[i], ms[i]) /\ ns[i].done \subseteq ms[i].done
                               /\ ms[i].sleep \subseteq ns[i].sleep \cup ms[i].done

LEMMA WakingNode ==
    ASSUME NEW n, NodeFields \subseteq DOMAIN n, NEW steps
    PROVE  LET m == WithBacktrack(n, steps)
           IN  SameNode(n, m) /\ m.done = n.done /\ m.sleep \subseteq n.sleep
BY DEF NodeFields, SameNode, WithBacktrack

\* One frame repaired, or given a backtrack point.
LEMMA WakingFrame ==
    ASSUME NEW ns, Stack(ns), NEW j, NEW steps
    PROVE  Woken(ns, [ns EXCEPT ![j] = WithBacktrack(@, steps)])
<1> DEFINE ms == [ns EXCEPT ![j] = WithBacktrack(@, steps)]
<1>1. Len(ns) \in Nat /\ DOMAIN ns = 1 .. Len(ns)
  BY SeqLength DEF Stack
<1>2. /\ ms = [i \in 1 .. Len(ns) |-> ms[i]]
      /\ \A i \in 1 .. Len(ns) : ms[i] = ns[i] \/ ms[i] = WithBacktrack(ns[i], steps)
  BY <1>1
<1> HIDE DEF ms
<1>3. IsSeq(ms) /\ Len(ms) = Len(ns)
  BY <1>1, <1>2, SeqFunction
<1>4. ASSUME NEW i \in 1 .. Len(ns)
      PROVE  /\ SameNode(ns[i], ms[i]) /\ ms[i].done = ns[i].done
             /\ ms[i].sleep \subseteq ns[i].sleep
  <2>1. NodeFields \subseteq DOMAIN ns[i]
    BY DEF Stack
  <2>2. CASE ms[i] = ns[i]
    BY <2>1, <2>2 DEF SameNode
  <2>3. CASE ms[i] = WithBacktrack(ns[i], steps)
    BY <2>1, <2>3, WakingNode
  <2> QED BY <1>2, <2>2, <2>3
<1>5. Woken(ns, ms)
  BY <1>3, <1>4 DEF Woken
<1> QED BY <1>5 DEF ms

LEMMA WokenTwice ==
    ASSUME NEW ns, NEW ms, NEW ks, Stack(ns), Woken(ns, ms), Woken(ms, ks)
    PROVE  Stack(ms) /\ Woken(ns, ks)
BY DEF Stack, Woken, SameNode

LEMMA NeverWoken == ASSUME NEW ns, Stack(ns) PROVE Woken(ns, ns)
BY DEF Stack, Woken, SameNode

\* The loop over the frames at which the transition was disabled.
RepairedTo(p, ns, current, disabled, size) ==
    LET repaired[i \in 0 .. size] ==
            IF i = 0 THEN ns
            ELSE IF i \in disabled
            THEN [repaired[i - 1] EXCEPT ![i] = Repaired(p, @, current)]
            ELSE repaired[i - 1]
    IN  repaired[size]

LEMMA RepairsWake ==
    ASSUME NEW p, NEW ns, Stack(ns), NEW current, NEW disabled, NEW size \in Nat
    PROVE  Woken(ns, RepairedTo(p, ns, current, disabled, size))
<1> DEFINE After1(t, ms) == IF t \in disabled THEN [ms EXCEPT ![t] = Repaired(p, @, current)]
                            ELSE ms
           Q(f, k) == f = [t \in 0 .. k |-> IF t = 0 THEN ns ELSE After1(t, f[t - 1])]
           whole == CHOOSE f : Q(f, size)
<1>2. RepairedTo(p, ns, current, disabled, size) = whole[size]
  BY DEF RepairedTo
<1> HIDE DEF whole
<1>3. ASSUME NEW t, NEW ms, Stack(ms), Woken(ns, ms)
      PROVE  Stack(After1(t, ms)) /\ Woken(ns, After1(t, ms))
  <2>1. Woken(ms, After1(t, ms))
    BY <1>3, WakingFrame, NeverWoken DEF Repaired
  <2> HIDE DEF After1
  <2>2. Woken(ns, After1(t, ms))
    BY <1>3, <2>1, WokenTwice
  <2> QED BY <2>2 DEF Stack, Woken, SameNode
<1> HIDE DEF After1
\* There is such a function for every prefix...
<1>4. Q([t \in 0 .. 0 |-> ns], 0)
  OBVIOUS
<1>5. ASSUME NEW k \in Nat, NEW f, Q(f, k)
      PROVE  \E g : Q(g, k + 1)
  <2> DEFINE g == [t \in 0 .. k + 1 |-> IF t = k + 1 THEN After1(k + 1, f[k]) ELSE f[t]]
  <2>1. \A t \in 0 .. k : f[t] = IF t = 0 THEN ns ELSE After1(t, f[t - 1])
    BY <1>5
  <2>2. \A t \in 0 .. k + 1 : g[t] = IF t = 0 THEN ns ELSE After1(t, g[t - 1])
    <3> TAKE t \in 0 .. k + 1
    <3>1. CASE t = k + 1
      <4>1. t # 0 /\ t - 1 = k /\ g[t - 1] = f[k] /\ g[t] = After1(k + 1, f[k])
        BY <3>1
      <4> QED BY <4>1
    <3>2. CASE t # k + 1
      <4>1. t \in 0 .. k /\ g[t] = f[t] /\ (t # 0 => t - 1 \in 0 .. k + 1 /\ g[t - 1] = f[t - 1])
        BY <3>2
      <4> HIDE DEF g
      <4> QED BY <2>1, <4>1
    <3> QED BY <3>1, <3>2
  <2>3. g = [t \in 0 .. k + 1 |-> g[t]]
    OBVIOUS
  <2> HIDE DEF g
  <2>4. Q(g, k + 1)
    BY <2>2, <2>3
  <2> HIDE DEF Q
  <2> QED BY <2>4
<1> DEFINE without == {k \in Nat : ~ \E f : Q(f, k)}
<1>6. \E f : Q(f, size)
  <2> HIDE DEF Q
  <2>1. CASE without # {}
    <3> DEFINE k == Min(without)
    <3>1. k \in without /\ \A j \in without : k <= j
      <4>1. without \in SUBSET Nat
        OBVIOUS
      <4> HIDE DEF without
      <4> QED BY <2>1, <4>1, LeastNatural
    <3> HIDE DEF k
    <3>2. k # 0
      BY <1>4, <3>1
    <3>3. k - 1 \in Nat /\ k - 1 \notin without /\ (k - 1) + 1 = k
      BY <3>1, <3>2
    <3>4. PICK f : Q(f, k - 1)
      BY <3>3
    <3>5. \E g : Q(g, (k - 1) + 1)
      BY <1>5, <3>3, <3>4
    <3> QED BY <3>1, <3>3, <3>5
  <2>2. CASE without = {}
    BY <2>2
  <2> QED BY <2>1, <2>2
<1>7. Q(whole, size)
  <2> HIDE DEF Q
  <2> QED BY <1>6 DEF whole
\* ... and all its values are woken stacks.
<1>8. \A t \in 0 .. size :
         whole[t] = IF t = 0 THEN ns ELSE After1(t, whole[t - 1])
  BY <1>7
<1> DEFINE bad == {t \in 0 .. size : ~(Stack(whole[t]) /\ Woken(ns, whole[t]))}
<1>9. bad = {}
  <2> SUFFICES ASSUME bad # {} PROVE FALSE
    OBVIOUS
  <2> DEFINE k == Min(bad)
  <2>1. k \in bad /\ \A j \in bad : k <= j
    <3>1. bad \in SUBSET Nat
      OBVIOUS
    <3> HIDE DEF bad
    <3> QED BY <3>1, LeastNatural
  <2> HIDE DEF k
  <2>2. k # 0
    BY <1>8, <2>1, NeverWoken
  <2>3. k - 1 \in 0 .. size /\ k - 1 \notin bad /\ k \in 0 .. size
    BY <2>1, <2>2
  <2>4. Stack(whole[k - 1]) /\ Woken(ns, whole[k - 1])
    BY <2>3
  <2>5. whole[k] = After1(k, whole[k - 1])
    BY <1>8, <2>2, <2>3
  <2>6. Stack(whole[k]) /\ Woken(ns, whole[k])
    BY <1>3, <2>4, <2>5
  <2> QED BY <2>1, <2>6
<1> QED BY <1>2, <1>9

\* Backtrack points of one transition.
LEMMA PrefixWakes ==
    ASSUME NEW p, NEW ns, Stack(ns), NEW tr, NEW current, NEW size \in Nat
    PROVE  Woken(ns, add_backtracks_against_prefix(p, ns, tr, current, size))
<1> DEFINE ms == add_backtracks_against_prefix(p, ns, tr, current, size)
<1>1. \/ \E j, steps : ms = [ns EXCEPT ![j] = WithBacktrack(@, steps)]
      \/ \E disabled : ms = RepairedTo(p, ns, current, disabled, size)
  BY DEF add_backtracks_against_prefix, RepairedTo
<1> HIDE DEF ms
<1>2. Woken(ns, ms)
  BY <1>1, WakingFrame, RepairsWake
<1> QED BY <1>2 DEF ms

\* The loop of add_disabled_backtracks over the threads.
LEMMA DisabledWakes ==
    ASSUME NEW p, NEW n, NEW ns, Stack(ns), NEW tr, Len(tr) \in Nat
    PROVE  Woken(ns, add_disabled_backtracks(p, n, ns, tr))
<1> DEFINE s == n.state
           Blocks1(t) == /\ ~is_finished(p, s, t)
                         /\ \A step \in EnabledSteps(n) : step.thread # t
                         /\ has_next_action(p, s, t)
           After1(t, ms) ==
             IF Blocks1(t)
             THEN add_backtracks_against_prefix(p, ms, tr, BlockedTransition(p, s, t), Len(tr))
             ELSE ms
           Q(f, k) == f = [t \in 0 .. k |-> IF t = 0 THEN ns ELSE After1(t - 1, f[t - 1])]
           whole == CHOOSE f : Q(f, NumThreads)
<1>1. NumThreads \in Nat
  BY SizesAssumption
<1>2. add_disabled_backtracks(p, n, ns, tr) = whole[NumThreads]
  BY DEF add_disabled_backtracks
<1> HIDE DEF whole
<1>3. ASSUME NEW t, NEW ms, Stack(ms), Woken(ns, ms)
      PROVE  Stack(After1(t, ms)) /\ Woken(ns, After1(t, ms))
  <2>1. Woken(ms, After1(t, ms))
    BY <1>3, PrefixWakes, NeverWoken
  <2> HIDE DEF After1
  <2>2. Woken(ns, After1(t, ms))
    BY <1>3, <2>1, WokenTwice
  <2> QED BY <2>2 DEF Stack, Woken, SameNode
<1> HIDE DEF After1
\* There is such a function for every number of threads...
<1>4. Q([t \in 0 .. 0 |-> ns], 0)
  OBVIOUS
<1>5. ASSUME NEW k \in Nat, NEW f, Q(f, k)
      PROVE  \E g : Q(g, k + 1)
  <2> DEFINE g == [t \in 0 .. k + 1 |-> IF t = k + 1 THEN After1(k, f[k]) ELSE f[t]]
  <2>1. \A t \in 0 .. k : f[t] = IF t = 0 THEN ns ELSE After1(t - 1, f[t - 1])
    BY <1>5
  <2>2. \A t \in 0 .. k + 1 : g[t] = IF t = 0 THEN ns ELSE After1(t - 1, g[t - 1])
    <3> TAKE t \in 0 .. k + 1
    <3>1. CASE t = k + 1
      <4>1. t # 0 /\ t - 1 = k /\ g[t - 1] = f[k] /\ g[t] = After1(k, f[k])
        BY <3>1
      <4> QED BY <4>1
    <3>2. CASE t # k + 1
      <4>1. t \in 0 .. k /\ g[t] = f[t] /\ (t # 0 => t - 1 \in 0 .. k + 1 /\ g[t - 1] = f[t - 1])
        BY <3>2
      <4> HIDE DEF g
      <4> QED BY <2>1, <4>1
    <3> QED BY <3>1, <3>2
  <2>3. g = [t \in 0 .. k + 1 |-> g[t]]
    OBVIOUS
  <2> HIDE DEF g
  <2>4. Q(g, k + 1)
    BY <2>2, <2>3
  <2> HIDE DEF Q
  <2> QED BY <2>4
<1> DEFINE without == {k \in Nat : ~ \E f : Q(f, k)}
<1>6. \E f : Q(f, NumThreads)
  <2> HIDE DEF Q
  <2>1. CASE without # {}
    <3> DEFINE k == Min(without)
    <3>1. k \in without /\ \A j \in without : k <= j
      <4>1. without \in SUBSET Nat
        OBVIOUS
      <4> HIDE DEF without
      <4> QED BY <2>1, <4>1, LeastNatural
    <3> HIDE DEF k
    <3>2. k # 0
      BY <1>4, <3>1
    <3>3. k - 1 \in Nat /\ k - 1 \notin without /\ (k - 1) + 1 = k
      BY <3>1, <3>2
    <3>4. PICK f : Q(f, k - 1)
      BY <3>3
    <3>5. \E g : Q(g, (k - 1) + 1)
      BY <1>5, <3>3, <3>4
    <3> QED BY <3>1, <3>3, <3>5
  <2>2. CASE without = {}
    BY <1>1, <2>2
  <2> QED BY <2>1, <2>2
<1>7. Q(whole, NumThreads)
  <2> HIDE DEF Q
  <2> QED BY <1>6 DEF whole
\* ... and all its values are woken stacks.
<1>8. \A t \in 0 .. NumThreads :
         whole[t] = IF t = 0 THEN ns ELSE After1(t - 1, whole[t - 1])
  BY <1>7
<1> DEFINE bad == {t \in 0 .. NumThreads : ~(Stack(whole[t]) /\ Woken(ns, whole[t]))}
<1>9. bad = {}
  <2> SUFFICES ASSUME bad # {} PROVE FALSE
    OBVIOUS
  <2> DEFINE k == Min(bad)
  <2>1. k \in bad /\ \A j \in bad : k <= j
    <3>1. bad \in SUBSET Nat
      BY <1>1
    <3> HIDE DEF bad
    <3> QED BY <3>1, LeastNatural
  <2> HIDE DEF k
  <2>2. k # 0
    BY <1>1, <1>8, <2>1, NeverWoken
  <2>3. k - 1 \in 0 .. NumThreads /\ k - 1 \notin bad /\ k \in 0 .. NumThreads
    BY <1>1, <2>1, <2>2
  <2>4. Stack(whole[k - 1]) /\ Woken(ns, whole[k - 1])
    BY <2>3
  <2>5. whole[k] = After1(k - 1, whole[k - 1])
    BY <1>8, <2>2, <2>3
  <2>6. Stack(whole[k]) /\ Woken(ns, whole[k])
    BY <1>3, <2>4, <2>5
  <2> QED BY <2>1, <2>6
<1> QED BY <1>1, <1>2, <1>9

-----------------------------------------------------------------------------
(***************************************************************************)
(* What a frame does to its own node.                                      *)
(***************************************************************************)
LEMMA EvolvesTwice ==
    ASSUME NEW ns, NEW ms, NEW ks, Evolves(ns, ms), Evolves(ms, ks)
    PROVE  Evolves(ns, ks)
BY DEF Evolves, SameNode

LEMMA WokenEvolves ==
    ASSUME NEW ns, NEW ms, Woken(ns, ms)
    PROVE  Evolves(ns, ms)
BY DEF Evolves, Woken

LEMMA EvolvedStack ==
    ASSUME NEW ns, NEW ms, Evolves(ns, ms)
    PROVE  Stack(ms)
BY DEF Stack, Evolves, SameNode

\* The frame j of ns replaced by a later version of its node.
LEMMA FrameEvolves ==
    ASSUME NEW ns, Stack(ns), NEW j \in 1 .. Len(ns), NEW m, SameNode(ns[j], m),
           ns[j].done \subseteq m.done, m.sleep \subseteq ns[j].sleep \cup m.done
    PROVE  Evolves(ns, [ns EXCEPT ![j] = m]) /\ [ns EXCEPT ![j] = m][j] = m
<1> DEFINE ms == [ns EXCEPT ![j] = m]
<1>1. Len(ns) \in Nat /\ DOMAIN ns = 1 .. Len(ns)
  BY SeqLength DEF Stack
<1>2. /\ ms = [i \in 1 .. Len(ns) |-> ms[i]]
      /\ ms[j] = m /\ \A i \in 1 .. Len(ns) : i # j => ms[i] = ns[i]
  BY <1>1
<1> HIDE DEF ms
<1>3. IsSeq(ms) /\ Len(ms) = Len(ns)
  BY <1>1, <1>2, SeqFunction
<1>4. Evolves(ns, ms)
  BY <1>2, <1>3 DEF Evolves, Stack, SameNode
<1> QED BY <1>2, <1>4 DEF ms

-----------------------------------------------------------------------------
(***************************************************************************)
(* The open frames: each is a node of a state the interpreter reaches, the *)
(* transition taken at it is done, and what sleeps at it is covered by a   *)
(* frame at which it was done.                                             *)
(***************************************************************************)
NodeOf(p, n) ==
    Sound(p, n.state) /\ n.enabled_transitions = enabled_transitions(p, n.state)

Covers(p, ns, tr, i, k, step) ==
    /\ step \in ns[i].done
    /\ \A j \in i .. k - 1 :
          /\ step \in EnabledSteps(ns[j])
          /\ transitions_independent_at_node(p, ns[j], ns[j].enabled_transitions[step], tr[j])

Frames(p, ns, tr) ==
    /\ Stack(ns) /\ IsSeq(tr) /\ Len(tr) <= Len(ns)
    /\ \A i \in 1 .. Len(ns) : NodeOf(p, ns[i])
    /\ \A i \in 1 .. Len(tr) : tr[i].endpoint \in ns[i].done
    /\ \A k \in 1 .. Len(ns) : \A step \in ns[k].sleep :
          \E i \in 1 .. k : Covers(p, ns, tr, i, k, step)

\* Independence at a node looks at its state and its enabled transitions only.
LEMMA SameIndependence ==
    ASSUME NEW n, NEW m, SameNode(n, m)
    PROVE  /\ EnabledSteps(m) = EnabledSteps(n)
           /\ \A p, l, r : transitions_independent_at_node(p, m, l, r) <=>
                              transitions_independent_at_node(p, n, l, r)
<1>1. EnabledSteps(m) = EnabledSteps(n) /\ \A l : EnabledAt(m, l) <=> EnabledAt(n, l)
  BY DEF SameNode, EnabledSteps, EnabledAt
<1>2. /\ \A l, r : same_mutex_try_locks_independent_at_node(m, l, r) <=>
                       same_mutex_try_locks_independent_at_node(n, l, r)
      /\ \A l, r : same_barrier_arrivals_independent_at_node(m, l, r) <=>
                       same_barrier_arrivals_independent_at_node(n, l, r)
      /\ \A l, other : barrier_arrival_releases_parked_thread(m, l, other) <=>
                           barrier_arrival_releases_parked_thread(n, l, other)
  BY <1>1 DEF SameNode, same_mutex_try_locks_independent_at_node,
              same_barrier_arrivals_independent_at_node, barrier_arrival_releases_parked_thread
<1>3. ASSUME NEW p, NEW l, NEW r
      PROVE  transitions_independent_at_node(p, m, l, r) <=>
               transitions_independent_at_node(p, n, l, r)
  <2>1. m.state = n.state
    BY DEF SameNode
  <2> DEFINE TryLocks == /\ l.effective_action.kind = "TryLock"
                         /\ r.effective_action.kind = "TryLock"
                         /\ l.effective_action.mutex = r.effective_action.mutex
             Arrivals == /\ is_barrier_action(l.effective_action)
                         /\ is_barrier_action(r.effective_action)
                         /\ l.effective_action.barrier = r.effective_action.barrier
  <2>2. CASE TryLocks
    BY <1>2, <2>2, Zenon DEF transitions_independent_at_node, is_barrier_action
  <2>3. CASE ~TryLocks /\ Arrivals
    BY <1>2, <2>3, Zenon DEF transitions_independent_at_node
  <2>4. CASE ~TryLocks /\ ~Arrivals
    BY <1>2, <2>1, <2>4, Zenon DEF transitions_independent_at_node
  <2> QED BY <2>2, <2>3, <2>4
<1> QED BY <1>1, <1>3

\* What covers a step goes on covering it while frames evolve.
LEMMA CoversKept ==
    ASSUME NEW p, NEW ns, NEW ms, Evolves(ns, ms), Len(ns) \in Nat, NEW tr, NEW ur,
           NEW k \in 1 .. Len(ns) + 1, \A j \in 1 .. k - 1 : ur[j] = tr[j],
           NEW i \in 1 .. k, i <= Len(ns), NEW step, Covers(p, ns, tr, i, k, step)
    PROVE  Covers(p, ms, ur, i, k, step)
<1>1. step \in ms[i].done
  BY DEF Covers, Evolves
<1>2. ASSUME NEW j \in i .. k - 1
      PROVE  /\ step \in EnabledSteps(ms[j])
             /\ transitions_independent_at_node(p, ms[j], ms[j].enabled_transitions[step], ur[j])
  <2>1. j \in 1 .. Len(ns) /\ j \in 1 .. k - 1
    OBVIOUS
  <2>2. SameNode(ns[j], ms[j]) /\ ur[j] = tr[j]
    BY <2>1 DEF Evolves
  <2>3. ms[j].enabled_transitions[step] = ns[j].enabled_transitions[step]
    BY <2>2 DEF SameNode
  <2> QED BY <1>2, <2>2, <2>3, SameIndependence DEF Covers
<1> QED BY <1>1, <1>2 DEF Covers

LEMMA FramesEvolve ==
    ASSUME NEW p, NEW ns, NEW ms, NEW tr, Frames(p, ns, tr), Evolves(ns, ms)
    PROVE  Frames(p, ms, tr)
<1>1. Len(ns) \in Nat /\ Len(ms) = Len(ns) /\ Stack(ms) /\ Len(tr) \in Nat
  BY SeqLength, EvolvedStack DEF Frames, Stack, Evolves
<1>2. /\ \A i \in 1 .. Len(ns) : NodeOf(p, ms[i])
      /\ \A i \in 1 .. Len(tr) : tr[i].endpoint \in ms[i].done
  BY <1>1 DEF Frames, Evolves, SameNode, NodeOf
<1>3. ASSUME NEW k \in 1 .. Len(ns), NEW step \in ms[k].sleep
      PROVE  \E i \in 1 .. k : Covers(p, ms, tr, i, k, step)
  <2>1. CASE step \in ns[k].sleep
    <3>1. PICK i \in 1 .. k : Covers(p, ns, tr, i, k, step)
      BY <2>1 DEF Frames
    <3>2. i <= Len(ns) /\ k \in 1 .. Len(ns) + 1
      BY <1>1
    <3> QED BY <1>1, <3>1, <3>2, CoversKept
  <2>2. CASE step \in ms[k].done
    <3>1. Covers(p, ms, tr, k, k, step)
      BY <2>2 DEF Covers
    <3> QED BY <3>1
  <2> QED BY <1>3, <2>1, <2>2 DEF Evolves
<1> QED BY <1>1, <1>2, <1>3 DEF Frames

\* Frames that close, and a trace whose end changes, leave the other frames as they are.
LEMMA FramesPrefix ==
    ASSUME NEW p, NEW ns, NEW tr, Frames(p, ns, tr),
           NEW ms, IsSeq(ms), Len(ms) <= Len(ns), \A i \in 1 .. Len(ms) : ms[i] = ns[i],
           NEW ur, IsSeq(ur), Len(ur) <= Len(ms), \A j \in 1 .. Len(ms) - 1 : ur[j] = tr[j],
           \A i \in 1 .. Len(ur) : ur[i].endpoint \in ms[i].done
    PROVE  Frames(p, ms, ur)
<1>1. Len(ns) \in Nat /\ Len(ms) \in Nat /\ Len(ur) \in Nat
  BY SeqLength DEF Frames, Stack
<1>2. Stack(ms) /\ \A i \in 1 .. Len(ms) : NodeOf(p, ms[i])
  BY <1>1 DEF Frames, Stack
<1>3. ASSUME NEW k \in 1 .. Len(ms), NEW step \in ms[k].sleep
      PROVE  \E i \in 1 .. k : Covers(p, ms, ur, i, k, step)
  <2>1. k \in 1 .. Len(ns) /\ ms[k] = ns[k]
    BY <1>1
  <2>2. PICK i \in 1 .. k : Covers(p, ns, tr, i, k, step)
    BY <1>3, <2>1 DEF Frames
  <2>3. ms[i] = ns[i]
    BY <1>1
  <2>4. \A j \in i .. k - 1 : ms[j] = ns[j] /\ ur[j] = tr[j]
    BY <1>1
  <2>5. Covers(p, ms, ur, i, k, step)
    BY <2>2, <2>3, <2>4 DEF Covers
  <2> QED BY <2>5
<1> QED BY <1>2, <1>3 DEF Frames

\* A call that returns: its transition leaves the trace and sleeps at the caller.
PutToSleep(ns, tr) == [ns EXCEPT ![Len(ns)].sleep = @ \cup {Last(tr).endpoint}]

LEMMA FramesReturn ==
    ASSUME NEW p, NEW ns, NEW tr, Frames(p, ns, tr), Len(ns) = Len(tr), tr # <<>>
    PROVE  /\ Frames(p, PutToSleep(ns, tr), Front(tr)) /\ Evolves(ns, PutToSleep(ns, tr))
           /\ Len(Front(tr)) = Len(tr) - 1
<1> DEFINE K == Len(ns)
           m == [ns[K] EXCEPT !.sleep = @ \cup {Last(tr).endpoint}]
           ms == PutToSleep(ns, tr)
<1>1. IsSeq(tr) /\ Stack(ns) /\ Len(tr) \in Nat \ {0} /\ Len(ns) \in Nat \ {0} /\ K \in 1 .. Len(ns)
  BY SeqLength DEF Frames, Stack
<1>2. ms = [ns EXCEPT ![K] = m]
  BY DEF PutToSleep
<1>3. NodeFields \subseteq DOMAIN ns[K] /\ Last(tr).endpoint \in ns[K].done
  BY <1>1 DEF Frames, Stack, Last
<1>4. SameNode(ns[K], m) /\ m.done = ns[K].done /\ m.sleep = ns[K].sleep \cup {Last(tr).endpoint}
  BY <1>3 DEF SameNode, NodeFields
<1> HIDE DEF m, ms
<1>5. Evolves(ns, ms)
  <2>1. ns[K].done \subseteq m.done /\ m.sleep \subseteq ns[K].sleep \cup m.done
    BY <1>3, <1>4
  <2> HIDE DEF K
  <2> QED BY <1>1, <1>2, <1>4, <2>1, FrameEvolves
<1>6. Frames(p, ms, tr) /\ Len(ms) = Len(ns) /\ IsSeq(ms)
  BY <1>5, FramesEvolve DEF Evolves
<1>7. /\ IsSeq(Front(tr)) /\ Len(Front(tr)) = Len(tr) - 1
      /\ \A i \in 1 .. Len(tr) - 1 : Front(tr)[i] = tr[i]
  BY <1>1, SeqFront
<1>8. \A i \in 1 .. Len(Front(tr)) : Front(tr)[i].endpoint \in ms[i].done
  BY <1>1, <1>6, <1>7 DEF Frames
<1>9. Frames(p, ms, Front(tr))
  BY <1>1, <1>6, <1>7, <1>8, FramesPrefix
<1> QED BY <1>5, <1>7, <1>9 DEF ms

\* The node of a call: a new node of a state the interpreter reaches, at which what
\* sleeps is covered by an open frame.
CallNode(p, ns, tr, c) ==
    /\ NodeFields \subseteq DOMAIN c /\ NodeOf(p, c)
    /\ \A step \in c.sleep : \E i \in 1 .. Len(ns) : Covers(p, ns, tr, i, Len(ns) + 1, step)

LEMMA FramesPush ==
    ASSUME NEW p, NEW ns, NEW tr, Frames(p, ns, tr), Len(ns) = Len(tr),
           NEW c, CallNode(p, ns, tr, c), NEW n, SameNode(c, n), n.sleep = c.sleep
    PROVE  Frames(p, Append(ns, n), tr)
<1> DEFINE ms == Append(ns, n)
<1>1. /\ IsSeq(ms) /\ Len(ns) \in Nat /\ Len(ms) = Len(ns) + 1
      /\ \A i \in 1 .. Len(ns) : ms[i] = ns[i]
      /\ ms[Len(ns) + 1] = n
  BY SeqAppend DEF Frames, Stack
<1> HIDE DEF ms
<1>2. \A i \in 1 .. Len(ms) : i \in 1 .. Len(ns) \/ i = Len(ns) + 1
  BY <1>1
<1>3. Stack(ms) /\ \A i \in 1 .. Len(ms) : NodeOf(p, ms[i])
  BY <1>1, <1>2 DEF Frames, Stack, SameNode, NodeOf, CallNode
<1>4. \A i \in 1 .. Len(tr) : tr[i].endpoint \in ms[i].done
  BY <1>1 DEF Frames
<1>5. ASSUME NEW k \in 1 .. Len(ms), NEW step \in ms[k].sleep
      PROVE  \E i \in 1 .. k : Covers(p, ms, tr, i, k, step)
  <2>1. PICK i \in 1 .. k : i <= Len(ns) /\ Covers(p, ns, tr, i, k, step)
    <3>1. CASE k \in 1 .. Len(ns)
      BY <1>1, <1>5, <3>1 DEF Frames
    <3>2. CASE k = Len(ns) + 1
      BY <1>1, <1>5, <3>2 DEF CallNode
    <3> QED BY <1>2, <3>1, <3>2
  <2>2. ms[i] = ns[i] /\ \A j \in i .. k - 1 : ms[j] = ns[j]
    BY <1>1, <2>1
  <2>3. Covers(p, ms, tr, i, k, step)
    BY <2>1, <2>2 DEF Covers
  <2> QED BY <2>3
<1>6. IsSeq(tr) /\ Len(tr) <= Len(ms)
  BY <1>1 DEF Frames
<1>7. Frames(p, ms, tr)
  BY <1>3, <1>4, <1>5, <1>6 DEF Frames
<1> QED BY <1>7 DEF ms

\* The frame that closes.
LEMMA FramesPop ==
    ASSUME NEW p, NEW ns, NEW tr, Frames(p, ns, tr), Len(ns) = Len(tr) + 1
    PROVE  Frames(p, Front(ns), tr) /\ Len(Front(ns)) = Len(tr)
<1>1. Len(tr) \in Nat /\ IsSeq(tr) /\ IsSeq(ns) /\ Len(ns) \in Nat /\ ns # <<>>
  BY SeqLength DEF Frames, Stack
<1>2. /\ IsSeq(Front(ns)) /\ Len(Front(ns)) = Len(tr)
      /\ \A i \in 1 .. Len(tr) : Front(ns)[i] = ns[i]
  BY <1>1, SeqFront
<1>3. \A i \in 1 .. Len(tr) : tr[i].endpoint \in Front(ns)[i].done
  BY <1>1, <1>2 DEF Frames
<1>4. Frames(p, Front(ns), tr)
  BY <1>1, <1>2, <1>3, FramesPrefix
<1> QED BY <1>2, <1>4

\* A transition taken: the child inherits what commutes with it.
LEMMA FramesStep ==
    ASSUME NEW p, NEW ns, NEW tr, Frames(p, ns, tr), Len(ns) = Len(tr) + 1,
           NEW e, e.endpoint \in ns[Len(ns)].done,
           NEW c, NodeFields \subseteq DOMAIN c, NodeOf(p, c), NEW next,
           c.sleep = inherited_sleep_set(p, next, ns[Len(ns)], e)
    PROVE  /\ Frames(p, ns, Append(tr, e)) /\ Len(Append(tr, e)) = Len(ns)
           /\ CallNode(p, ns, Append(tr, e), c)
<1> DEFINE ur == Append(tr, e)
           K == Len(ns)
<1>1. Len(tr) \in Nat /\ IsSeq(tr) /\ IsSeq(ns) /\ K \in Nat
  BY SeqLength DEF Frames, Stack
<1>2. /\ IsSeq(ur) /\ Len(ur) = K
      /\ \A i \in 1 .. K - 1 : ur[i] = tr[i]
      /\ ur[K] = e
  BY <1>1, SeqAppend
<1> HIDE DEF ur
<1>3. \A i \in 1 .. Len(ur) : ur[i].endpoint \in ns[i].done
  BY <1>1, <1>2 DEF Frames
<1>4. Frames(p, ns, ur)
  <2>1. Len(ns) <= Len(ns) /\ Len(ur) <= Len(ns) /\ \A j \in 1 .. Len(ns) - 1 : ur[j] = tr[j]
    BY <1>1, <1>2
  <2> QED BY <1>1, <1>2, <1>3, <2>1, FramesPrefix
<1>5. ASSUME NEW step \in c.sleep
      PROVE  \E i \in 1 .. K : Covers(p, ns, ur, i, K + 1, step)
  <2>1. /\ step \in ns[K].sleep /\ step \in EnabledSteps(ns[K])
        /\ transitions_independent_at_node(p, ns[K], ns[K].enabled_transitions[step], e)
    BY <1>5 DEF inherited_sleep_set
  <2>2. PICK i \in 1 .. K : Covers(p, ns, ur, i, K, step)
    BY <1>1, <1>4, <2>1 DEF Frames
  <2>3. \A j \in i .. (K + 1) - 1 : j \in i .. K - 1 \/ j = K
    BY <1>1
  <2>4. Covers(p, ns, ur, i, K + 1, step)
    BY <1>2, <2>1, <2>2, <2>3 DEF Covers
  <2> QED BY <2>4
<1>6. CallNode(p, ns, ur, c)
  BY <1>5 DEF CallNode
<1> QED BY <1>2, <1>4, <1>6 DEF ur

-----------------------------------------------------------------------------
(***************************************************************************)
(* The states of a path and their history.                                 *)
(***************************************************************************)
PathOf(ns, calls) ==
    [i \in DOMAIN ns |-> ns[i].state] \o SetToSeq({c.state : c \in calls})

LEMMA OneAsSequence ==
    ASSUME NEW x
    PROVE  SetToSeq({x}) \in Seq({x}) /\ Len(SetToSeq({x})) = 1 /\ SetToSeq({x})[1] = x
<1>1. Cardinality({x}) = 1
  BY FS_Singleton
<1> DEFINE f == [i \in 1 .. 1 |-> x]
<1>2. f \in [1 .. 1 -> {x}] /\ IsInjective(f)
  BY DEF IsInjective
<1> HIDE DEF f
<1>3. SetToSeq({x}) \in [1 .. 1 -> {x}]
  BY <1>1, <1>2 DEF SetToSeq
<1>4. \A g : g \in [1 .. 1 -> {x}] => g \in Seq({x}) /\ Len(g) = 1 /\ g[1] = x
  OBVIOUS
<1> QED BY <1>3, <1>4, Zenon

LEMMA NoneAsSequence == SetToSeq({}) = <<>>
<1>1. Cardinality({}) = 0
  BY FS_EmptySet
<1>2. <<>> \in [1 .. 0 -> {}] /\ IsInjective(<<>>)
  BY DEF IsInjective
<1>3. SetToSeq({}) \in [1 .. 0 -> {}]
  BY <1>1, <1>2 DEF SetToSeq
<1>4. \A f \in [1 .. 0 -> {}] : f = <<>>
  OBVIOUS
<1> QED BY <1>3, <1>4

LEMMA PathStack ==
    ASSUME NEW ns, Stack(ns)
    PROVE  /\ DOMAIN PathOf(ns, {}) = 1 .. Len(ns)
           /\ \A i \in 1 .. Len(ns) : PathOf(ns, {})[i] = ns[i].state
<1> DEFINE q == [i \in DOMAIN ns |-> ns[i].state]
<1>1. Len(ns) \in Nat /\ DOMAIN ns = 1 .. Len(ns)
  BY SeqLength DEF Stack
<1>2. q = [i \in 1 .. Len(ns) |-> q[i]] /\ \A i \in 1 .. Len(ns) : q[i] = ns[i].state
  BY <1>1
<1>3. PathOf(ns, {}) = q \o <<>>
  <2>1. {c.state : c \in {}} = {}
    OBVIOUS
  <2> QED BY <2>1, NoneAsSequence DEF PathOf
<1> HIDE DEF q
<1>4. IsSeq(q) /\ Len(q) = Len(ns)
  BY <1>1, <1>2, SeqFunction
<1>5. q \o <<>> = q
  BY <1>4, ConcatEmptySeq DEF IsSeq
<1> QED BY <1>1, <1>2, <1>3, <1>5

LEMMA PathCall ==
    ASSUME NEW ns, Stack(ns), NEW c
    PROVE  /\ DOMAIN PathOf(ns, {c}) = 1 .. Len(ns) + 1
           /\ \A i \in 1 .. Len(ns) : PathOf(ns, {c})[i] = ns[i].state
           /\ PathOf(ns, {c})[Len(ns) + 1] = c.state
<1> DEFINE q == [i \in DOMAIN ns |-> ns[i].state]
           r == SetToSeq({c.state})
<1>1. Len(ns) \in Nat /\ DOMAIN ns = 1 .. Len(ns)
  BY SeqLength DEF Stack
<1>2. q = [i \in 1 .. Len(ns) |-> q[i]] /\ \A i \in 1 .. Len(ns) : q[i] = ns[i].state
  BY <1>1
<1>3. PathOf(ns, {c}) = q \o r
  <2>1. {d.state : d \in {c}} = {c.state}
    OBVIOUS
  <2> QED BY <2>1 DEF PathOf
<1>4. r \in Seq({c.state}) /\ Len(r) = 1 /\ r[1] = c.state
  BY OneAsSequence
<1> HIDE DEF q, r
<1>5. IsSeq(q) /\ Len(q) = Len(ns)
  BY <1>1, <1>2, SeqFunction
<1>6. PICK S : q \in Seq(S)
  BY <1>5 DEF IsSeq
<1>7. q \in Seq(S \cup {c.state}) /\ r \in Seq(S \cup {c.state})
  BY <1>4, <1>6
<1>8. /\ q \o r \in Seq(S \cup {c.state}) /\ Len(q \o r) = Len(q) + Len(r)
      /\ \A i \in 1 .. Len(q) + Len(r) :
            (q \o r)[i] = IF i <= Len(q) THEN q[i] ELSE r[i - Len(q)]
  BY <1>7, ConcatProperties
<1> DEFINE path == q \o r
<1> HIDE DEF path
<1>9. /\ path \in Seq(S \cup {c.state}) /\ Len(path) = Len(ns) + 1
      /\ \A i \in 1 .. Len(ns) + 1 : path[i] = IF i <= Len(ns) THEN q[i] ELSE r[i - Len(ns)]
  BY <1>4, <1>5, <1>8 DEF path
<1>10. DOMAIN path = 1 .. Len(ns) + 1
  BY <1>9
<1>11. path[Len(ns) + 1] = c.state
  <2>1. Len(ns) + 1 \in 1 .. Len(ns) + 1 /\ ~(Len(ns) + 1 <= Len(ns)) /\ Len(ns) + 1 - Len(ns) = 1
    BY <1>1
  <2> QED BY <1>4, <1>9, <2>1
<1>12. \A i \in 1 .. Len(ns) : path[i] = ns[i].state
  <2>1. \A i \in 1 .. Len(ns) : i \in 1 .. Len(ns) + 1 /\ i <= Len(ns)
    BY <1>1
  <2> QED BY <1>2, <1>9, <2>1
<1> QED BY <1>3, <1>10, <1>11, <1>12 DEF path

\* h is the map of the path q, on which no behavioral state occurs twice.
Maps(h, q) ==
    /\ h = {[key |-> behavioral_state_fingerprint(q[i]), position |-> i - 1] : i \in DOMAIN q}
    /\ \A g, e \in h : g.key = e.key => g = e

LEMMA MapsSame ==
    ASSUME NEW h, NEW q, NEW r, Maps(h, q), DOMAIN r = DOMAIN q,
           \A i \in DOMAIN q : r[i] = q[i]
    PROVE  Maps(h, r)
BY DEF Maps

LEMMA MapsPush ==
    ASSUME NEW h, NEW q, NEW r, Maps(h, q), NEW n \in Nat,
           DOMAIN q = 1 .. n, DOMAIN r = 1 .. n + 1, \A i \in 1 .. n : r[i] = q[i],
           CycleStart(h, r[n + 1]) = {}
    PROVE  Maps(h \cup {[key |-> behavioral_state_fingerprint(r[n + 1]), position |-> n]}, r)
<1> DEFINE EntryAt(i) == [key |-> behavioral_state_fingerprint(r[i]), position |-> i - 1]
           last == [key |-> behavioral_state_fingerprint(r[n + 1]), position |-> n]
<1>1. h = {EntryAt(i) : i \in 1 .. n}
  BY DEF Maps
<1>2. 1 .. n + 1 = (1 .. n) \cup {n + 1}
  OBVIOUS
<1>3. EntryAt(n + 1) = last
  OBVIOUS
<1>4. \A g \in h : g.key # last.key
  BY DEF CycleStart
<1> HIDE DEF EntryAt, last
<1>5. h \cup {last} = {EntryAt(i) : i \in 1 .. n + 1}
  BY <1>1, <1>2, <1>3
<1>6. \A g, e \in h \cup {last} : g.key = e.key => g = e
  BY <1>4 DEF Maps
<1>7. h \cup {last} = {[key |-> behavioral_state_fingerprint(r[i]), position |-> i - 1] :
                          i \in DOMAIN r}
  BY <1>5 DEF EntryAt
<1>8. Maps(h \cup {last}, r)
  BY <1>6, <1>7 DEF Maps
<1> QED BY <1>8 DEF last

LEMMA MapsPop ==
    ASSUME NEW h, NEW q, NEW r, Maps(h, q), NEW n \in Nat,
           DOMAIN q = 1 .. n + 1, DOMAIN r = 1 .. n, \A i \in 1 .. n : r[i] = q[i]
    PROVE  Maps(Restored(h, n), r)
<1> DEFINE EntryAt(i) == [key |-> behavioral_state_fingerprint(q[i]), position |-> i - 1]
<1>1. h = {EntryAt(i) : i \in 1 .. n + 1}
  BY DEF Maps
<1>2. \A i \in 1 .. n + 1 : EntryAt(i).position # n <=> i \in 1 .. n
  OBVIOUS
<1> HIDE DEF EntryAt
<1>3. Restored(h, n) = {EntryAt(i) : i \in 1 .. n}
  BY <1>1, <1>2 DEF Restored
<1>4. Restored(h, n) = {[key |-> behavioral_state_fingerprint(r[i]), position |-> i - 1] :
                          i \in DOMAIN r}
  BY <1>3 DEF EntryAt
<1>5. Restored(h, n) \subseteq h
  BY DEF Restored
<1> QED BY <1>4, <1>5 DEF Maps

-----------------------------------------------------------------------------
(***************************************************************************)
(* The inductive invariant: a frame is above each transition of the trace, *)
(* the one of a call to come included, and the history maps their states.  *)
(***************************************************************************)
Searching(p, calls, ns, tr, h) ==
    /\ Frames(p, ns, tr)
    /\ \/ calls = {} /\ Len(ns) = Len(tr) + 1
       \/ calls = {} /\ ns = <<>> /\ tr = <<>>
       \/ \E c : calls = {c} /\ Len(ns) = Len(tr) /\ CallNode(p, ns, tr, c)
    /\ requires_cycle_detection(p) /\ ~(calls = {} /\ ns = <<>>) => Maps(h, PathOf(ns, calls))

SearchInv ==
    /\ program \in Programs /\ memory_model \in MemoryModel
    /\ Searching(program, call, nodes, trace, history)

\* A call that returns to the frames ns, from the end of the path q.
LEMMA SearchingReturn ==
    ASSUME NEW p, NEW ns, NEW tr, NEW h, NEW q, Frames(p, ns, tr), Len(ns) = Len(tr),
           DOMAIN q = 1 .. Len(tr) + 1, \A i \in 1 .. Len(tr) : q[i] = ns[i].state,
           requires_cycle_detection(p) => Maps(h, q)
    PROVE  Searching(p, {}, IF tr = <<>> THEN ns ELSE PutToSleep(ns, tr),
                     IF tr = <<>> THEN tr ELSE Front(tr),
                     IF tr = <<>> THEN h ELSE Restored(h, Len(tr)))
<1>1. /\ Len(tr) \in Nat /\ (tr = <<>> <=> Len(tr) = 0)
      /\ (ns = <<>> <=> Len(ns) = 0)
  BY SeqLength DEF Frames, Stack
<1>2. CASE tr = <<>>
  <2>1. ns = <<>>
    BY <1>1, <1>2
  <2> QED BY <1>2, <2>1 DEF Searching
<1>3. CASE tr # <<>>
  <2> DEFINE ms == PutToSleep(ns, tr)
             ur == Front(tr)
             r == PathOf(ms, {})
  <2>1. Frames(p, ms, ur) /\ Evolves(ns, ms) /\ Len(ur) = Len(tr) - 1
    BY <1>3, FramesReturn
  <2> HIDE DEF ms, ur
  <2>2. Len(ms) = Len(ns) /\ Stack(ms) /\ \A i \in 1 .. Len(ns) : ms[i].state = ns[i].state
    BY <2>1, EvolvedStack DEF Evolves, SameNode
  <2>3. DOMAIN r = 1 .. Len(tr) /\ \A i \in 1 .. Len(tr) : r[i] = q[i]
    BY <2>2, PathStack
  <2> HIDE DEF r
  <2>4. requires_cycle_detection(p) => Maps(Restored(h, Len(tr)), r)
    BY <1>1, <2>3, MapsPop
  <2>5. Len(ms) = Len(ur) + 1
    BY <1>1, <2>1, <2>2
  <2>6. Searching(p, {}, ms, ur, Restored(h, Len(tr)))
    BY <2>1, <2>4, <2>5 DEF Searching, r
  <2> QED BY <1>3, <2>6 DEF ms, ur
<1> QED BY <1>2, <1>3

\* The open frames evolve.
LEMMA SearchingLoop ==
    ASSUME NEW p, NEW ns, NEW tr, NEW h, Searching(p, {}, ns, tr, h), ns # <<>>,
           NEW ms, Evolves(ns, ms)
    PROVE  Searching(p, {}, ms, tr, h)
<1>1. Frames(p, ns, tr) /\ Len(ns) = Len(tr) + 1 /\ Stack(ns)
  <2>1. \A c : {c} # {}
    OBVIOUS
  <2> QED BY <2>1 DEF Searching, Frames
<1>2. Frames(p, ms, tr) /\ Stack(ms) /\ Len(ms) = Len(ns)
  BY <1>1, FramesEvolve, EvolvedStack DEF Evolves
<1>3. \A i \in 1 .. Len(ns) : ms[i].state = ns[i].state
  BY DEF Evolves, SameNode
<1> DEFINE q == PathOf(ns, {})
           r == PathOf(ms, {})
<1>4. DOMAIN r = DOMAIN q /\ \A i \in DOMAIN q : r[i] = q[i]
  BY <1>1, <1>2, <1>3, PathStack
<1>5. requires_cycle_detection(p) => Maps(h, q)
  BY DEF Searching
<1> HIDE DEF q, r
<1>6. requires_cycle_detection(p) => Maps(h, r)
  BY <1>4, <1>5, MapsSame
<1> QED BY <1>1, <1>2, <1>6 DEF Searching, r

\* The call opens its frame.
LEMMA SearchingOpen ==
    ASSUME NEW p, NEW ns, NEW tr, NEW h, NEW c, Searching(p, {c}, ns, tr, h),
           NEW n, SameNode(c, n), n.sleep = c.sleep
    PROVE  Searching(p, {}, Append(ns, n), tr, h)
<1>1. Frames(p, ns, tr) /\ Stack(ns) /\ Len(ns) = Len(tr) /\ CallNode(p, ns, tr, c)
  <2>1. {c} # {} /\ \A d : {c} = {d} => c = d
    OBVIOUS
  <2> QED BY <2>1 DEF Searching, Frames
<1> DEFINE ms == Append(ns, n)
           q == PathOf(ns, {c})
           r == PathOf(ms, {})
<1>2. Frames(p, ms, tr)
  BY <1>1, FramesPush
<1>3. /\ Len(ns) \in Nat /\ Len(ms) = Len(ns) + 1 /\ ms[Len(ns) + 1] = n
      /\ \A i \in 1 .. Len(ns) : ms[i] = ns[i]
  BY <1>1, SeqAppend DEF Stack
<1> HIDE DEF ms
<1>4. Stack(ms)
  BY <1>2 DEF Frames
<1>5. DOMAIN r = DOMAIN q /\ \A i \in DOMAIN q : r[i] = q[i]
  <2>1. /\ DOMAIN q = 1 .. Len(ns) + 1 /\ q[Len(ns) + 1] = c.state
        /\ \A i \in 1 .. Len(ns) : q[i] = ns[i].state
    BY <1>1, PathCall
  <2>2. DOMAIN r = 1 .. Len(ns) + 1 /\ \A i \in 1 .. Len(ns) + 1 : r[i] = ms[i].state
    BY <1>3, <1>4, PathStack
  <2> HIDE DEF q, r
  <2>3. \A i \in 1 .. Len(ns) + 1 : i \in 1 .. Len(ns) \/ i = Len(ns) + 1
    BY <1>3
  <2>4. n.state = c.state
    BY DEF SameNode
  <2> QED BY <1>3, <2>1, <2>2, <2>3, <2>4
<1>6. requires_cycle_detection(p) => Maps(h, q)
  BY DEF Searching
<1> HIDE DEF q, r
<1>7. requires_cycle_detection(p) => Maps(h, r)
  BY <1>5, <1>6, MapsSame
<1>8. Searching(p, {}, ms, tr, h)
  BY <1>1, <1>2, <1>3, <1>7 DEF Searching, r
<1> QED BY <1>8 DEF ms

\* The loop takes a transition and calls.
LEMMA SearchingStep ==
    ASSUME NEW p, NEW ns, NEW tr, NEW h, Searching(p, {}, ns, tr, h), ns # <<>>,
           NEW e, e.endpoint \in ns[Len(ns)].done,
           NEW c, NodeFields \subseteq DOMAIN c, NodeOf(p, c), NEW next,
           c.sleep = inherited_sleep_set(p, next, ns[Len(ns)], e), CycleStart(h, c.state) = {}
    PROVE  Searching(p, {c}, ns, Append(tr, e), Observed(p, h, c.state, Len(Append(tr, e))))
<1>1. Frames(p, ns, tr) /\ Len(ns) = Len(tr) + 1 /\ Stack(ns)
  <2>1. \A d : {d} # {}
    OBVIOUS
  <2> QED BY <2>1 DEF Searching, Frames
<1> DEFINE ur == Append(tr, e)
           q == PathOf(ns, {})
           r == PathOf(ns, {c})
           g == Observed(p, h, c.state, Len(ur))
<1>2. Frames(p, ns, ur) /\ Len(ur) = Len(ns) /\ CallNode(p, ns, ur, c)
  BY <1>1, FramesStep
<1> HIDE DEF ur
<1>3. Len(ns) \in Nat
  BY <1>1, SeqLength DEF Stack
<1>4. /\ DOMAIN q = 1 .. Len(ns) /\ DOMAIN r = 1 .. Len(ns) + 1 /\ r[Len(ns) + 1] = c.state
      /\ \A i \in 1 .. Len(ns) : r[i] = q[i]
  BY <1>1, PathStack, PathCall
<1>5. requires_cycle_detection(p) => Maps(h, q)
  BY DEF Searching
<1> HIDE DEF q, r
<1>6. requires_cycle_detection(p) => Maps(g, r)
  BY <1>2, <1>3, <1>4, <1>5, MapsPush DEF Observed
<1> HIDE DEF g
<1>7. Searching(p, {c}, ns, ur, g)
  BY <1>2, <1>6 DEF Searching, r
<1> QED BY <1>7 DEF ur, g

-----------------------------------------------------------------------------
(***************************************************************************)
(* One lemma for each place where a frame stands.                          *)
(***************************************************************************)
\* A call to come, whose frames the backtrack points of blocked threads may wake.
LEMMA CallReturns ==
    ASSUME SearchInv, NEW c, call = {c}, NEW STATE ns, Woken(nodes, ns),
           ReturnTo(ns), UNCHANGED params
    PROVE  Searching(program, call, nodes, trace, history)'
<1> DEFINE q == PathOf(nodes, {c})
<1>1. Frames(program, nodes, trace) /\ Len(nodes) = Len(trace) /\ Stack(nodes)
  <2>1. {c} # {}
    OBVIOUS
  <2> QED BY <2>1 DEF SearchInv, Searching, Frames
<1>2. /\ Frames(program, ns, trace) /\ Len(ns) = Len(trace)
      /\ \A i \in 1 .. Len(nodes) : ns[i].state = nodes[i].state
  BY <1>1, WokenEvolves, FramesEvolve DEF Woken, SameNode
<1>3. DOMAIN q = 1 .. Len(trace) + 1 /\ \A i \in 1 .. Len(trace) : q[i] = ns[i].state
  <2>1. DOMAIN q = 1 .. Len(nodes) + 1 /\ \A i \in 1 .. Len(nodes) : q[i] = nodes[i].state
    BY <1>1, PathCall
  <2> HIDE DEF q
  <2> QED BY <1>1, <1>2, <2>1
<1>4. requires_cycle_detection(program) => Maps(history, q)
  <2>1. ~(call = {} /\ nodes = <<>>)
    OBVIOUS
  <2> QED BY <2>1 DEF SearchInv, Searching
<1> HIDE DEF q
<1>5. Searching(program, {}, IF trace = <<>> THEN ns ELSE PutToSleep(ns, trace),
                IF trace = <<>> THEN trace ELSE Front(trace),
                IF trace = <<>> THEN history ELSE Restored(history, Len(trace)))
  BY <1>2, <1>3, <1>4, SearchingReturn
<1>6. /\ program' = program /\ call' = {}
      /\ nodes' = IF trace = <<>> THEN ns ELSE PutToSleep(ns, trace)
      /\ trace' = IF trace = <<>> THEN trace ELSE Front(trace)
      /\ history' = IF trace = <<>> THEN history ELSE Restored(history, Len(trace))
  BY DEF params, ReturnTo, PutToSleep
<1> QED BY <1>5, <1>6

\* A frame whose loop is over.
LEMMA CloseReturns ==
    ASSUME SearchInv, call = {}, nodes # <<>>, ReturnTo(Front(nodes)), UNCHANGED params
    PROVE  Searching(program, call, nodes, trace, history)'
<1> DEFINE q == PathOf(nodes, {})
           ns == Front(nodes)
<1>1. Frames(program, nodes, trace) /\ Len(nodes) = Len(trace) + 1 /\ Stack(nodes)
  <2>1. \A c : {c} # {}
    OBVIOUS
  <2> QED BY <2>1 DEF SearchInv, Searching, Frames
<1>2. Frames(program, ns, trace) /\ Len(ns) = Len(trace)
  BY <1>1, FramesPop
<1>3. \A i \in 1 .. Len(trace) : ns[i] = nodes[i]
  <2>1. Len(nodes) - 1 = Len(trace)
    BY <1>1, SeqLength DEF Frames, Stack
  <2> QED BY <1>1, <2>1, SeqFront DEF Stack
<1> HIDE DEF ns
<1>4. DOMAIN q = 1 .. Len(trace) + 1 /\ \A i \in 1 .. Len(trace) : q[i] = ns[i].state
  <2>1. \A i \in 1 .. Len(trace) : i \in 1 .. Len(nodes)
    BY <1>1, SeqLength DEF Frames
  <2> QED BY <1>1, <1>3, <2>1, PathStack
<1>5. requires_cycle_detection(program) => Maps(history, q)
  BY DEF SearchInv, Searching
<1> HIDE DEF q
<1>6. Searching(program, {}, IF trace = <<>> THEN ns ELSE PutToSleep(ns, trace),
                IF trace = <<>> THEN trace ELSE Front(trace),
                IF trace = <<>> THEN history ELSE Restored(history, Len(trace)))
  BY <1>2, <1>4, <1>5, SearchingReturn
<1>7. /\ program' = program /\ call' = {}
      /\ nodes' = IF trace = <<>> THEN ns ELSE PutToSleep(ns, trace)
      /\ trace' = IF trace = <<>> THEN trace ELSE Front(trace)
      /\ history' = IF trace = <<>> THEN history ELSE Restored(history, Len(trace))
  BY DEF params, ReturnTo, PutToSleep, ns
<1> QED BY <1>6, <1>7

\* A frame in its loop: the step it takes is enabled at it, and is done from now on.
LEMMA LoopStep ==
    ASSUME SearchInv, InLoop
    PROVE  /\ Searching(program, {}, nodes, trace, history)
           /\ Stack(nodes) /\ Len(nodes) \in Nat \ {0} /\ Len(nodes) \in 1 .. Len(nodes)
           /\ Len(nodes) = Len(trace) + 1 /\ IsSeq(trace) /\ Len(trace) \in Nat
           /\ NodeFields \subseteq DOMAIN Top /\ Sound(program, Top.state)
           /\ NextStep \in enabled_steps(program, Top.state) /\ NextStep \in Passed
<1>1. Searching(program, {}, nodes, trace, history)
  BY DEF SearchInv, InLoop
<1>2. Frames(program, nodes, trace) /\ Len(nodes) = Len(trace) + 1 /\ nodes # <<>>
  <2>1. \A c : {c} # {}
    OBVIOUS
  <2> QED BY <2>1 DEF SearchInv, Searching, InLoop
<1>3. Stack(nodes) /\ Len(nodes) \in Nat \ {0} /\ IsSeq(trace) /\ Len(trace) \in Nat
  BY <1>2, SeqLength DEF Frames, Stack
<1>4. Len(nodes) \in 1 .. Len(nodes)
  BY <1>3
<1>5. NodeFields \subseteq DOMAIN Top /\ NodeOf(program, Top)
  BY <1>2, <1>3, <1>4 DEF Frames, Stack, Top
<1>6. EnabledSteps(Top) = enabled_steps(program, Top.state) /\ Sound(program, Top.state)
  BY <1>5 DEF NodeOf, EnabledSteps, enabled_transitions
<1>7. Candidates \in SUBSET ScheduleStep /\ Candidates # {}
  BY <1>6, EnabledTyped DEF Candidates, SearchInv, InLoop
<1>8. NextStep \in Candidates
  BY <1>7, LeastStepIn DEF NextStep
<1>9. NextStep \in enabled_steps(program, Top.state) /\ NextStep \in Unexplored
  BY <1>6, <1>8 DEF Candidates
<1> QED BY <1>1, <1>2, <1>3, <1>4, <1>5, <1>6, <1>9 DEF Passed

\* What a loop iteration leaves in its own node.
LEMMA OwnNode ==
    ASSUME NEW n, NodeFields \subseteq DOMAIN n, NEW step, NEW steps
    PROVE  /\ LET m == [n EXCEPT !.done = @ \cup steps]
              IN  SameNode(n, m) /\ m.done = n.done \cup steps /\ m.sleep = n.sleep
           /\ LET m == KeepSiblings(n)
              IN  SameNode(n, m) /\ m.done = n.done /\ m.sleep = {}
           /\ LET m == Asleep(n, step)
              IN  SameNode(n, m) /\ m.done = n.done /\ m.sleep = n.sleep \cup {step}
BY DEF NodeFields, SameNode, KeepSiblings, Asleep

\* The top node replaced by a later version of it.
LEMMA TopEvolves ==
    ASSUME SearchInv, InLoop, NEW STATE m, SameNode(Top, m), Top.done \subseteq m.done,
           m.sleep \subseteq Top.sleep \cup m.done
    PROVE  LET ms == [nodes EXCEPT ![Len(nodes)] = m]
           IN  Evolves(nodes, ms) /\ ms[Len(nodes)] = m
<1>1. Stack(nodes) /\ Len(nodes) \in 1 .. Len(nodes) /\ Top = nodes[Len(nodes)]
  BY LoopStep DEF Top
<1> QED BY <1>1, FrameEvolves

\* The stack after the step is done and its backtrack points are added.
LEMMA TransitionEvolves ==
    ASSUME SearchInv, InLoop, NEW STATE e
    PROVE  LET ms == WithTransition(Append(trace, e))
           IN  Evolves(nodes, ms) /\ NextStep \in ms[Len(nodes)].done
<1> DEFINE m == [Top EXCEPT !.done = @ \cup Passed]
           ns == [nodes EXCEPT ![Len(nodes)] = m]
           ur == Append(trace, e)
           ms == WithTransition(ur)
<1>1. SameNode(Top, m) /\ m.done = Top.done \cup Passed /\ m.sleep = Top.sleep
  BY LoopStep, OwnNode
<1>2. ns = [nodes EXCEPT ![Len(nodes)].done = @ \cup Passed]
  BY DEF Top
<1>3. ms = add_backtracks_against_prefix(program, ns, ur, ur[Len(ur)], Len(ur) - 1)
  BY <1>2 DEF WithTransition, add_backtracks_for_transition
<1> HIDE DEF m
<1>4. Evolves(nodes, ns) /\ ns[Len(nodes)] = m
  BY <1>1, TopEvolves
<1> HIDE DEF ns, ms
<1>5. Len(ur) - 1 \in Nat
  <2>1. Len(ur) = Len(trace) + 1 /\ Len(trace) \in Nat
    BY LoopStep, SeqAppend
  <2> QED BY <2>1
<1>6. Woken(ns, ms)
  BY <1>3, <1>4, <1>5, EvolvedStack, PrefixWakes
<1>7. Evolves(nodes, ms)
  BY <1>4, <1>6, WokenEvolves, EvolvesTwice
<1>8. NextStep \in ms[Len(nodes)].done
  <2>1. Len(nodes) \in 1 .. Len(ns)
    BY <1>4, LoopStep DEF Evolves
  <2>2. ms[Len(nodes)].done = m.done
    BY <1>4, <1>6, <2>1 DEF Woken
  <2> QED BY <1>1, <2>2, LoopStep
<1> QED BY <1>7, <1>8 DEF ms

-----------------------------------------------------------------------------
(***************************************************************************)
(* Every step of the search.                                               *)
(***************************************************************************)
LEMMA InitSearch == Init => SearchInv
<1> SUFFICES ASSUME Init PROVE SearchInv
  OBVIOUS
<1> DEFINE s == initial_state(program, memory_model)
           c == Node(program, s)
           q == PathOf(<<>>, {c})
<1>1. program \in Programs /\ memory_model \in MemoryModel
  BY SearchAssumption DEF Init
<1>2. /\ call = {c} /\ nodes = <<>> /\ trace = <<>>
      /\ history = initial_state_history(program, s)
  BY DEF Init
<1>3. Sound(program, s)
  BY <1>1, InitialSound
<1> HIDE DEF s
<1>4. /\ NodeFields \subseteq DOMAIN c /\ NodeOf(program, c) /\ c.sleep = {} /\ c.state = s
  BY <1>3 DEF Node, NodeFields, NodeOf
<1> HIDE DEF c
<1>5. IsSeq(<<>>) /\ Len(<<>>) = 0 /\ Stack(<<>>)
  <2>1. <<>> \in Seq({}) /\ Len(<<>>) = 0
    OBVIOUS
  <2> QED BY <2>1 DEF IsSeq, Stack
<1>6. Frames(program, nodes, trace) /\ CallNode(program, nodes, trace, c)
  BY <1>2, <1>4, <1>5 DEF Frames, CallNode
<1>7. DOMAIN q = {1} /\ q[1] = s
  <2>1. DOMAIN q = 1 .. 0 + 1 /\ q[0 + 1] = s
    BY <1>4, <1>5, PathCall
  <2> HIDE DEF q
  <2> QED BY <2>1
<1> HIDE DEF q
<1>8. requires_cycle_detection(program) => Maps(history, q)
  <2> SUFFICES ASSUME requires_cycle_detection(program) PROVE Maps(history, q)
    OBVIOUS
  <2>1. history = {[key |-> behavioral_state_fingerprint(s), position |-> 0]}
    BY <1>2 DEF initial_state_history
  <2>2. {[key |-> behavioral_state_fingerprint(q[i]), position |-> i - 1] : i \in DOMAIN q} =
           {[key |-> behavioral_state_fingerprint(s), position |-> 0]}
    BY <1>7
  <2> QED BY <2>1, <2>2 DEF Maps
<1>9. Searching(program, call, nodes, trace, history)
  BY <1>2, <1>6, <1>8 DEF Searching, q
<1> QED BY <1>1, <1>9 DEF SearchInv

\* Terminal, SleepBlocked and CallCapped: the call returns without a frame.
LEMMA LeafSearch ==
    ASSUME SearchInv, CallCapped \/ Terminal \/ SleepBlocked
    PROVE  SearchInv'
<1>1. PICK c : call = {c}
  BY DEF CallCapped, Terminal, SleepBlocked, SearchInv, Searching
<1>2. Stack(nodes) /\ Len(trace) \in Nat
  BY SeqLength DEF SearchInv, Searching, Frames
<1>3. Woken(nodes, nodes) /\ Woken(nodes, add_disabled_backtracks(program, c, nodes, trace))
  BY <1>2, NeverWoken, DisabledWakes
<1>4. UNCHANGED params
  BY DEF CallCapped, Terminal, SleepBlocked
<1>5. ReturnTo(nodes) \/ ReturnTo(add_disabled_backtracks(program, c, nodes, trace))
  BY <1>1 DEF CallCapped, Terminal, SleepBlocked
<1>6. Searching(program, call, nodes, trace, history)'
  BY <1>1, <1>3, <1>4, <1>5, CallReturns
<1> QED BY <1>4, <1>6 DEF SearchInv, params

LEMMA OpenSearch ==
    ASSUME SearchInv, Open
    PROVE  SearchInv'
<1>1. PICK c : call = {c} /\ CallNode(program, nodes, trace, c)
  BY DEF Open, SearchInv, Searching
<1> DEFINE n == initialize_dpor_backtrack(program, c)
<1>2. nodes' = Append(nodes, n) /\ call' = {}
  BY <1>1 DEF Open
<1>3. SameNode(c, n) /\ n.sleep = c.sleep
  <2>1. n = c \/ \E steps : n = [c EXCEPT !.backtrack = steps]
    BY DEF initialize_dpor_backtrack
  <2> HIDE DEF n
  <2> QED BY <1>1, <2>1 DEF CallNode, SameNode, NodeFields
<1> HIDE DEF n
<1>4. Searching(program, {}, Append(nodes, n), trace, history)
  BY <1>1, <1>3, SearchingOpen DEF SearchInv
<1>5. Searching(program, call, nodes, trace, history)'
  BY <1>2, <1>4 DEF Open, params
<1> QED BY <1>5 DEF SearchInv, Open, params

\* A path that ends at the step: the top node of ms keeps its siblings.
LEMMA CutEvolves ==
    ASSUME SearchInv, InLoop, NEW STATE ms, Evolves(nodes, ms), NEW STATE m,
           SameNode(ms[Len(nodes)], m), m.done = ms[Len(nodes)].done,
           m.sleep \subseteq m.done, NextStep \in m.done,
           nodes' = [ms EXCEPT ![Len(nodes)] = m]
    PROVE  Evolves(nodes, nodes') /\ NextStep \in nodes'[Len(nodes)].done
<1>1. Stack(ms) /\ Len(nodes) \in 1 .. Len(ms)
  BY LoopStep, EvolvedStack DEF Evolves
<1>2. ms[Len(nodes)].done \subseteq m.done /\ m.sleep \subseteq ms[Len(nodes)].sleep \cup m.done
  OBVIOUS
<1> DEFINE k == Len(nodes)
           ks == [ms EXCEPT ![k] = m]
<1> HIDE DEF k
<1>3. Evolves(ms, ks) /\ ks[k] = m
  <2>1. Evolves(ms, ks)
    BY <1>1, <1>2, FrameEvolves DEF k
  <2>2. k \in DOMAIN ms
    BY <1>1, SeqLength DEF Stack, k
  <2> QED BY <2>1, <2>2
<1> HIDE DEF ks
<1>4. Evolves(nodes, ks)
  BY <1>3, EvolvesTwice
<1> QED BY <1>3, <1>4 DEF k, ks

LEMMA BoundEvolves ==
    ASSUME SearchInv, BoundLeaf
    PROVE  Evolves(nodes, nodes') /\ NextStep \in nodes'[Len(nodes)].done
<1> DEFINE k == [Top EXCEPT !.done = @ \cup Passed]
           m == Asleep(KeepSiblings(k), NextStep)
<1>1. InLoop /\ nodes' = [nodes EXCEPT ![Len(nodes)] = m]
  BY DEF BoundLeaf
<1>2. SameNode(Top, k) /\ k.done = Top.done \cup Passed
  BY <1>1, LoopStep, OwnNode
<1> HIDE DEF k
<1>3. /\ SameNode(k, KeepSiblings(k)) /\ KeepSiblings(k).done = k.done
      /\ KeepSiblings(k).sleep = {}
  BY <1>2, OwnNode DEF SameNode
<1>4. /\ SameNode(KeepSiblings(k), m) /\ m.done = KeepSiblings(k).done
      /\ m.sleep = KeepSiblings(k).sleep \cup {NextStep}
  BY <1>3, OwnNode DEF SameNode
<1> HIDE DEF m
<1>5. /\ SameNode(Top, m) /\ m.done = Top.done \cup Passed /\ m.sleep = {NextStep}
      /\ NextStep \in m.done
  BY <1>1, <1>2, <1>3, <1>4, LoopStep DEF SameNode
<1> QED BY <1>1, <1>5, TopEvolves

LEMMA FailureEvolves ==
    ASSUME SearchInv, InLoop, NEW STATE outcome, NEW STATE e,
           FailureLeaf(outcome, Append(trace, e), WithTransition(Append(trace, e)))
    PROVE  Evolves(nodes, nodes') /\ NextStep \in nodes'[Len(nodes)].done
<1> DEFINE ur == Append(trace, e)
           ns == WithTransition(ur)
           ms == add_disabled_backtracks(program, Top, ns, ur)
           K == Len(nodes)
           n == KeepSiblings(ms[K])
           m == Asleep(n, NextStep)
<1>1. Evolves(nodes, ns) /\ NextStep \in ns[K].done
  BY TransitionEvolves
<1>2. nodes' = [ms EXCEPT ![K] = m]
  BY DEF FailureLeaf
<1> HIDE DEF ns
<1>3. Stack(ns) /\ Len(ur) \in Nat /\ K \in 1 .. Len(ns)
  <2>1. Len(ur) = Len(trace) + 1 /\ Len(trace) \in Nat
    BY LoopStep, SeqAppend
  <2> QED BY <1>1, <2>1, LoopStep, EvolvedStack DEF Evolves
<1>4. Woken(ns, ms)
  BY <1>3, DisabledWakes
<1> HIDE DEF ur, ms
<1>5. Evolves(nodes, ms) /\ NextStep \in ms[K].done /\ NodeFields \subseteq DOMAIN ms[K]
  BY <1>1, <1>3, <1>4, WokenEvolves, EvolvesTwice DEF Woken, SameNode
<1>6. SameNode(ms[K], n) /\ n.done = ms[K].done /\ n.sleep = {}
  BY <1>5, OwnNode
<1> HIDE DEF n
<1>7. SameNode(n, m) /\ m.done = n.done /\ m.sleep = n.sleep \cup {NextStep}
  BY <1>6, OwnNode DEF SameNode
<1> HIDE DEF m
<1>8. SameNode(ms[K], m) /\ m.done = ms[K].done /\ m.sleep \subseteq m.done /\ NextStep \in m.done
  BY <1>5, <1>6, <1>7 DEF SameNode
<1> QED BY <1>2, <1>5, <1>8, CutEvolves

LEMMA CycleEvolves ==
    ASSUME SearchInv, InLoop, NEW STATE outcome, NEW STATE e,
           CycleCut(outcome, Append(trace, e), WithTransition(Append(trace, e)))
    PROVE  Evolves(nodes, nodes') /\ NextStep \in nodes'[Len(nodes)].done
<1> DEFINE ms == WithTransition(Append(trace, e))
           K == Len(nodes)
           m == KeepSiblings(ms[K])
<1>1. Evolves(nodes, ms) /\ NextStep \in ms[K].done
  BY TransitionEvolves
<1>2. nodes' = [ms EXCEPT ![K] = m]
  BY DEF CycleCut
<1> HIDE DEF ms
<1>3. NodeFields \subseteq DOMAIN ms[K]
  BY <1>1, LoopStep DEF Evolves, SameNode
<1>4. SameNode(ms[K], m) /\ m.done = ms[K].done /\ m.sleep = {}
  BY <1>3, OwnNode
<1> HIDE DEF m
<1> QED BY <1>1, <1>2, <1>4, CutEvolves

\* BoundLeaf, FailureLeaf and CycleCut: the frames stay open.
LEMMA CutSearch ==
    ASSUME SearchInv, InLoop, Evolves(nodes, nodes'), UNCHANGED <<params, call, trace, history>>
    PROVE  SearchInv'
<1>1. call = {} /\ nodes # <<>>
  BY DEF InLoop
<1>2. Searching(program, {}, nodes', trace, history)
  BY <1>1, LoopStep, SearchingLoop
<1>3. Searching(program, call, nodes, trace, history)'
  BY <1>1, <1>2 DEF params
<1> QED BY <1>3 DEF SearchInv, params

LEMMA DescendSearch ==
    ASSUME SearchInv, InLoop, NEW STATE e, e.endpoint = NextStep,
           Descend(Outcome, Append(trace, e), WithTransition(Append(trace, e)))
    PROVE  SearchInv'
<1> DEFINE ur == Append(trace, e)
           ns == WithTransition(ur)
           s == Outcome.state
           next == Node(program, s)
           c == [next EXCEPT !.sleep = inherited_sleep_set(program, next, ns[Len(ns)], e)]
           h == Observed(program, history, s, Len(ur))
<1>1. Evolves(nodes, ns) /\ NextStep \in ns[Len(nodes)].done
  BY TransitionEvolves
<1>2. Last(ur) = e
  BY LoopStep, SeqAppend
<1>3. /\ nodes' = ns /\ trace' = ur /\ call' = {c} /\ history' = h
      /\ CycleStart(history, s) = {} /\ UNCHANGED params
  BY <1>2 DEF Descend
<1> HIDE DEF ns
<1>4. Sound(program, s)
  <2>1. NextStep.thread \in ThreadId /\ GivenStep(program, Top.state, NextStep)
    BY LoopStep, EnabledGiven DEF SearchInv
  <2> QED BY <2>1, LoopStep, StepSound DEF SearchInv, Outcome
<1> HIDE DEF s
<1>5. /\ NodeFields \subseteq DOMAIN c /\ NodeOf(program, c) /\ c.state = s
      /\ c.sleep = inherited_sleep_set(program, next, ns[Len(ns)], e)
  BY <1>4 DEF Node, NodeFields, NodeOf
<1> HIDE DEF c, next
<1>6. Searching(program, {}, ns, trace, history) /\ ns # <<>>
  <2>1. nodes # <<>>
    BY DEF InLoop
  <2>2. Searching(program, {}, ns, trace, history)
    BY <1>1, <2>1, LoopStep, SearchingLoop
  <2>3. Len(ns) # 0 /\ IsSeq(ns)
    BY <1>1, LoopStep DEF Evolves
  <2> QED BY <2>2, <2>3, SeqLength
<1>7. e.endpoint \in ns[Len(ns)].done
  BY <1>1 DEF Evolves
<1>8. Searching(program, {c}, ns, ur, h)
  BY <1>3, <1>5, <1>6, <1>7, SearchingStep
<1>9. Searching(program, call, nodes, trace, history)'
  BY <1>3, <1>8 DEF params
<1> QED BY <1>3, <1>9 DEF SearchInv, params

LEMMA CloseSearch ==
    ASSUME SearchInv, Close
    PROVE  SearchInv'
<1>1. Searching(program, call, nodes, trace, history)'
  BY CloseReturns DEF Close
<1> QED BY <1>1 DEF Close, SearchInv, params

LEMMA StepSearch ==
    ASSUME SearchInv, TakeStep
    PROVE  SearchInv'
<1> DEFINE e == Executed(Outcome)
           ns == WithTransition(Append(trace, e))
<1>1. /\ InLoop
      /\ \/ FailureLeaf(Outcome, Append(trace, e), ns)
         \/ CycleCut(Outcome, Append(trace, e), ns)
         \/ Descend(Outcome, Append(trace, e), ns)
  BY DEF TakeStep, CanExecute
<1>2. e.endpoint = NextStep
  BY DEF Executed
<1> HIDE DEF e
<1>3. CASE FailureLeaf(Outcome, Append(trace, e), ns)
  BY <1>1, <1>3, FailureEvolves, CutSearch DEF FailureLeaf
<1>4. CASE CycleCut(Outcome, Append(trace, e), ns)
  BY <1>1, <1>4, CycleEvolves, CutSearch DEF CycleCut
<1> QED BY <1>1, <1>2, <1>3, <1>4, DescendSearch

\* The invariant of the search: it starts in Init and every step of dpor_dfs keeps it.
THEOREM SearchInvariant == Spec => []SearchInv
<1>1. SearchInv /\ [Next]_vars => SearchInv'
  <2> SUFFICES ASSUME SearchInv, [Next]_vars PROVE SearchInv'
    OBVIOUS
  <2>1. CASE UNCHANGED vars
    BY <2>1 DEF SearchInv, vars, params
  <2>2. CASE CallCapped \/ Terminal \/ SleepBlocked
    BY <2>2, LeafSearch
  <2>3. CASE Open
    BY <2>3, OpenSearch
  <2>4. CASE BoundLeaf
    BY <2>4, BoundEvolves, CutSearch DEF BoundLeaf
  <2>5. CASE TakeStep
    BY <2>5, StepSearch
  <2>6. CASE Close
    BY <2>6, CloseSearch
  <2> QED BY <2>1, <2>2, <2>3, <2>4, <2>5, <2>6 DEF Next
<1> QED BY <1>1, InitSearch, PTL DEF Spec

\* The shared state_history of a search that still runs is exactly the map of the states
\* from the root to the current frame, and no behavioral state occurs twice on that path:
\* PathHistoryRestore undoes what an abandoned branch inserted, however it ended.
THEOREM SearchHistory == Spec => []HistoryExact
<1>1. SearchInv => HistoryExact
  <2> SUFFICES ASSUME SearchInv, ~Finished, requires_cycle_detection(program)
               PROVE  Maps(history, PathStates)
    BY DEF HistoryExact, Maps
  <2>1. PathStates = PathOf(nodes, call)
    BY DEF PathStates, PathOf
  <2> QED BY <2>1 DEF SearchInv, Searching, Finished
<1> QED BY <1>1, SearchInvariant, PTL

\* What a sleep set prunes has been explored: the step was taken at this frame or at an
\* earlier one, and every transition of the path since then commutes with it, through
\* all the returns, cuts, wakeups and repairs of the recursion (inherited_sleep_set,
\* add_repair_steps, dpor_dfs).
THEOREM SearchSleeps == Spec => []SleepCovered
<1>1. SearchInv => SleepCovered
  <2> SUFFICES ASSUME SearchInv PROVE SleepCovered
    OBVIOUS
  <2>1. Frames(program, nodes, trace) /\ DOMAIN nodes = 1 .. Len(nodes)
    BY SeqLength DEF SearchInv, Searching, Frames, Stack
  <2> QED BY <2>1 DEF SleepCovered, Frames, Covers
<1> QED BY <1>1, SearchInvariant, PTL

-----------------------------------------------------------------------------
(***************************************************************************)
(* The search stands on its path, and has counted no schedule twice: each  *)
(* one leaves the path at a frame where its step is done.                  *)
(***************************************************************************)
\* The steps done at each frame, and at that of a call.
DoneOf(ns) == [k \in 1 .. Len(ns) + 1 |-> IF k <= Len(ns) THEN ns[k].done ELSE {}]

OnPath(p, model, calls, ns, tr, h, R, ss) ==
    /\ Standing(p, model, Schedule(tr), PathOf(ns, calls), h, R)
    /\ Distinct(ss, Schedule(tr), DoneOf(ns))

ExploreInv ==
    /\ SearchInv /\ max_schedules \in Nat
    /\ \/ Finished
       \/ OnPath(program, memory_model, call, nodes, trace, history, result, terminal_schedules)

LEMMA ScheduleIs ==
    ASSUME NEW tr, IsSeq(tr)
    PROVE  /\ IsSeq(Schedule(tr)) /\ Len(Schedule(tr)) = Len(tr) /\ Len(tr) \in Nat
           /\ \A i \in 1 .. Len(tr) : Schedule(tr)[i] = tr[i].endpoint
           /\ tr = <<>> <=> Schedule(tr) = <<>>
<1> DEFINE q == Schedule(tr)
<1>1. Len(tr) \in Nat /\ DOMAIN tr = 1 .. Len(tr) /\ (tr = <<>> <=> Len(tr) = 0)
  BY SeqLength
<1>2. q = [i \in 1 .. Len(tr) |-> q[i]] /\ \A i \in 1 .. Len(tr) : q[i] = tr[i].endpoint
  BY <1>1 DEF Schedule
<1> HIDE DEF q
<1>3. IsSeq(q) /\ Len(q) = Len(tr)
  BY <1>1, <1>2, SeqFunction
<1>4. q = <<>> <=> Len(q) = 0
  BY <1>3, SeqLength
<1> QED BY <1>1, <1>2, <1>3, <1>4 DEF q

\* Sequences are their elements.
LEMMA SameSeq ==
    ASSUME NEW q, IsSeq(q), NEW r, IsSeq(r), Len(q) = Len(r), \A i \in 1 .. Len(q) : q[i] = r[i]
    PROVE  q = r
<1>1. PICK S : q \in Seq(S)
  BY DEF IsSeq
<1>2. PICK T : r \in Seq(T)
  BY DEF IsSeq
<1>3. q \in Seq(S \cup T) /\ r \in Seq(S \cup T)
  BY <1>1, <1>2
<1> QED BY <1>3, SeqEqual

LEMMA ScheduleAppend ==
    ASSUME NEW tr, IsSeq(tr), NEW e
    PROVE  Schedule(Append(tr, e)) = Append(Schedule(tr), e.endpoint)
<1> DEFINE ur == Append(tr, e)
           q == Append(Schedule(tr), e.endpoint)
<1>1. /\ IsSeq(ur) /\ Len(ur) = Len(tr) + 1 /\ Len(tr) \in Nat
      /\ \A i \in 1 .. Len(tr) : ur[i] = tr[i]
      /\ ur[Len(tr) + 1] = e
  BY SeqAppend
<1>2. /\ IsSeq(q) /\ Len(q) = Len(tr) + 1
      /\ \A i \in 1 .. Len(tr) : q[i] = tr[i].endpoint
      /\ q[Len(tr) + 1] = e.endpoint
  <2> DEFINE s == Schedule(tr)
             x == e.endpoint
  <2>1. IsSeq(s) /\ Len(s) = Len(tr) /\ \A i \in 1 .. Len(tr) : s[i] = tr[i].endpoint
    BY ScheduleIs
  <2> HIDE DEF s, x
  <2>2. /\ IsSeq(Append(s, x)) /\ Len(Append(s, x)) = Len(s) + 1
        /\ \A i \in 1 .. Len(s) : Append(s, x)[i] = s[i]
        /\ Append(s, x)[Len(s) + 1] = x
    BY <2>1, SeqAppend
  <2> QED BY <2>1, <2>2 DEF s, x
<1> HIDE DEF ur, q
<1>3. /\ IsSeq(Schedule(ur)) /\ Len(Schedule(ur)) = Len(ur)
      /\ \A i \in 1 .. Len(ur) : Schedule(ur)[i] = ur[i].endpoint
  BY <1>1, ScheduleIs
<1>4. \A i \in 1 .. Len(ur) : i \in 1 .. Len(tr) \/ i = Len(tr) + 1
  BY <1>1
<1>5. \A i \in 1 .. Len(ur) : Schedule(ur)[i] = q[i]
  BY <1>1, <1>2, <1>3, <1>4
<1>6. Schedule(ur) = q
  BY <1>1, <1>2, <1>3, <1>5, SameSeq
<1> QED BY <1>6 DEF ur, q

LEMMA ScheduleFront ==
    ASSUME NEW tr, IsSeq(tr), tr # <<>>
    PROVE  Schedule(Front(tr)) = Front(Schedule(tr))
<1> DEFINE ur == Front(tr)
           s == Schedule(tr)
           q == Front(s)
<1>1. /\ IsSeq(ur) /\ Len(ur) = Len(tr) - 1 /\ Len(tr) \in Nat \ {0}
      /\ \A i \in 1 .. Len(tr) - 1 : ur[i] = tr[i]
  BY SeqFront
<1>2. IsSeq(s) /\ Len(s) = Len(tr) /\ s # <<>> /\ \A i \in 1 .. Len(tr) : s[i] = tr[i].endpoint
  BY ScheduleIs
<1> HIDE DEF ur, s
<1>3. IsSeq(q) /\ Len(q) = Len(tr) - 1 /\ \A i \in 1 .. Len(tr) - 1 : q[i] = s[i]
  BY <1>2, SeqFront
<1> HIDE DEF q
<1>4. /\ IsSeq(Schedule(ur)) /\ Len(Schedule(ur)) = Len(ur)
      /\ \A i \in 1 .. Len(ur) : Schedule(ur)[i] = ur[i].endpoint
  BY <1>1, ScheduleIs
<1>5. \A i \in 1 .. Len(ur) : Schedule(ur)[i] = q[i]
  BY <1>1, <1>2, <1>3, <1>4
<1>6. Schedule(ur) = q
  BY <1>1, <1>3, <1>4, <1>5, SameSeq
<1> QED BY <1>6 DEF ur, q, s

LEMMA DoneAt ==
    ASSUME NEW ns, IsSeq(ns)
    PROVE  /\ Len(ns) \in Nat /\ DoneOf(ns)[Len(ns) + 1] = {}
           /\ \A k \in 1 .. Len(ns) : DoneOf(ns)[k] = ns[k].done
<1>1. Len(ns) \in Nat
  BY SeqLength
<1>2. /\ Len(ns) + 1 \in 1 .. Len(ns) + 1 /\ ~(Len(ns) + 1 <= Len(ns))
      /\ \A k \in 1 .. Len(ns) : k \in 1 .. Len(ns) + 1 /\ k <= Len(ns)
  BY <1>1
<1> QED BY <1>1, <1>2 DEF DoneOf

\* A call returns to the frames ms, or a frame returns to those below it; the path from
\* which it returns may just have been counted.
LEMMA PathReturns ==
    ASSUME NEW p, NEW model, NEW tr, IsSeq(tr), tr # <<>>, NEW states, NEW h, NEW R,
           Standing(p, model, Schedule(tr), states, h, R),
           NEW ss, NEW tried, Distinct(ss, Schedule(tr), tried),
           NEW ms, Stack(ms), Len(ms) = Len(tr),
           \A i \in 1 .. Len(tr) : states[i] = ms[i].state /\ tried[i] \subseteq ms[i].done
    PROVE  /\ OnPath(p, model, {}, ms, Front(tr), Restored(h, Len(tr)), R, ss)
           /\ OnPath(p, model, {}, ms, Front(tr), Restored(h, Len(tr)), R,
                     Append(ss, Schedule(tr)))
<1> DEFINE s == Schedule(tr)
           states2 == PathOf(ms, {})
           tried2 == DoneOf(ms)
<1>1. Len(s) = Len(tr) /\ s # <<>> /\ Schedule(Front(tr)) = Front(s)
  BY ScheduleIs, ScheduleFront
<1>2. \A i \in 1 .. Len(s) : states2[i] = states[i] /\ tried[i] \subseteq tried2[i]
  BY <1>1, PathStack, DoneAt DEF Stack
<1> HIDE DEF s, states2, tried2
<1>3. Standing(p, model, Front(s), states2, Restored(h, Len(s)), R)
  BY <1>1, <1>2, StandingPop DEF s
<1>4. Distinct(ss, Front(s), tried2) /\ Distinct(Append(ss, s), Front(s), tried2)
  BY <1>1, <1>2, DistinctPop DEF s
<1> QED BY <1>1, <1>3, <1>4 DEF OnPath, s, states2, tried2

\* The frames evolve, and the path with a step done at the last may be counted.
LEMMA PathStays ==
    ASSUME NEW p, NEW model, NEW ns, Stack(ns), NEW tr, IsSeq(tr), Len(ns) = Len(tr) + 1,
           NEW h, NEW R, NEW ss, OnPath(p, model, {}, ns, tr, h, R, ss),
           NEW ms, Evolves(ns, ms),
           NEW R2, Standing(p, model, Schedule(tr), PathOf(ns, {}), h, R2),
           NEW step \in ms[Len(ns)].done
    PROVE  OnPath(p, model, {}, ms, tr, h, R2, Append(ss, Append(Schedule(tr), step)))
<1> DEFINE s == Schedule(tr)
           states == PathOf(ns, {})
           states2 == PathOf(ms, {})
           tried == DoneOf(ns)
           tried2 == DoneOf(ms)
<1>1. Len(s) = Len(tr) /\ Len(tr) \in Nat /\ Stack(ms) /\ Len(ms) = Len(ns) /\ Len(ns) = Len(s) + 1
  BY ScheduleIs, EvolvedStack DEF Evolves
<1>2. \A i \in 1 .. Len(ns) : ms[i].state = ns[i].state /\ ns[i].done \subseteq ms[i].done
  BY DEF Evolves, SameNode
<1>3. \A i \in 1 .. Len(ns) : states[i] = ns[i].state /\ states2[i] = ms[i].state
  BY <1>1, PathStack
<1>4. \A i \in 1 .. Len(ns) : tried[i] = ns[i].done /\ tried2[i] = ms[i].done
  BY <1>1, DoneAt DEF Stack
<1> HIDE DEF states, states2, tried, tried2, s
<1>5. \A i \in 1 .. Len(s) + 1 : states2[i] = states[i] /\ tried[i] \subseteq tried2[i]
  BY <1>1, <1>2, <1>3, <1>4
<1>6. step \in tried2[Len(s) + 1]
  BY <1>1, <1>4
<1>7. Standing(p, model, s, states2, h, R2)
  BY <1>5, StandingStays DEF s, states
<1>8. Distinct(ss, s, tried)
  BY DEF OnPath, s, tried
<1>9. Distinct(Append(ss, Append(s, step)), s, tried2)
  BY <1>5, <1>6, <1>8, DistinctStays
<1> QED BY <1>7, <1>9 DEF OnPath, s, states2, tried2

\* The call opens its frame.
LEMMA PathOpens ==
    ASSUME NEW p, NEW model, NEW ns, Stack(ns), NEW tr, IsSeq(tr), Len(ns) = Len(tr),
           NEW c, NEW h, NEW R, NEW ss, OnPath(p, model, {c}, ns, tr, h, R, ss),
           NEW n, SameNode(c, n)
    PROVE  OnPath(p, model, {}, Append(ns, n), tr, h, R, ss)
<1> DEFINE ms == Append(ns, n)
           s == Schedule(tr)
           states == PathOf(ns, {c})
           states2 == PathOf(ms, {})
           tried == DoneOf(ns)
           tried2 == DoneOf(ms)
<1>1. Len(s) = Len(ns) /\ Len(ns) \in Nat
  BY ScheduleIs
<1>2. /\ IsSeq(ms) /\ Len(ms) = Len(ns) + 1 /\ ms[Len(ns) + 1] = n
      /\ \A i \in 1 .. Len(ns) : ms[i] = ns[i]
  BY SeqAppend DEF Stack
<1> HIDE DEF ms
<1>3. \A i \in 1 .. Len(ns) + 1 : i \in 1 .. Len(ns) \/ i = Len(ns) + 1
  BY <1>1
<1>4. Stack(ms) /\ n.state = c.state
  BY <1>2, <1>3 DEF Stack, SameNode
<1>5. /\ states[Len(ns) + 1] = c.state /\ \A i \in 1 .. Len(ns) : states[i] = ns[i].state
      /\ \A i \in 1 .. Len(ns) + 1 : states2[i] = ms[i].state
  BY <1>2, <1>4, PathCall, PathStack
<1>6. /\ tried[Len(ns) + 1] = {} /\ \A i \in 1 .. Len(ns) : tried[i] = ns[i].done
      /\ \A i \in 1 .. Len(ns) + 1 : tried2[i] = ms[i].done
  BY <1>2, DoneAt DEF Stack
<1> HIDE DEF states, states2, tried, tried2, s
<1>7. \A i \in 1 .. Len(s) + 1 : states2[i] = states[i] /\ tried[i] \subseteq tried2[i]
  BY <1>1, <1>2, <1>3, <1>4, <1>5, <1>6
<1>8. Standing(p, model, s, states, h, R) /\ Distinct(ss, s, tried)
  BY DEF OnPath, s, states, tried
<1>9. Standing(p, model, s, states2, h, R)
  BY <1>7, <1>8, StandingStays
<1>10. Distinct(ss, s, tried2)
  BY <1>7, <1>8, DistinctStays
<1> QED BY <1>9, <1>10 DEF OnPath, s, states2, tried2, ms

\* The last frame takes a step that was not done, and calls with the node c.
LEMMA PathCalls ==
    ASSUME NEW p, NEW model, NEW ns, Stack(ns), NEW tr, IsSeq(tr), Len(ns) = Len(tr) + 1,
           NEW h, NEW R, NEW ss, OnPath(p, model, {}, ns, tr, h, R, ss),
           NEW ms, Evolves(ns, ms), NEW e, e.endpoint \in ScheduleStep,
           e.endpoint \notin ns[Len(ns)].done, e.endpoint \in ms[Len(ns)].done, NEW c
    PROVE  /\ \A i \in 1 .. Len(ns) : PathOf(ms, {c})[i] = PathOf(ns, {})[i]
           /\ PathOf(ms, {c})[Len(ns) + 1] = c.state
           /\ \A h2, R2 : Standing(p, model, Schedule(Append(tr, e)), PathOf(ms, {c}), h2, R2)
                => OnPath(p, model, {c}, ms, Append(tr, e), h2, R2, ss)
<1> DEFINE s == Schedule(tr)
           states == PathOf(ns, {})
           states2 == PathOf(ms, {c})
           tried == DoneOf(ns)
           tried2 == DoneOf(ms)
           x == e.endpoint
<1>1. Len(s) = Len(tr) /\ Len(tr) \in Nat /\ Stack(ms) /\ Len(ms) = Len(ns) /\ Len(ns) = Len(s) + 1
  BY ScheduleIs, EvolvedStack DEF Evolves
<1>2. \A i \in 1 .. Len(ns) : ms[i].state = ns[i].state /\ ns[i].done \subseteq ms[i].done
  BY DEF Evolves, SameNode
<1>3. /\ \A i \in 1 .. Len(ns) : states[i] = ns[i].state /\ states2[i] = ms[i].state
      /\ states2[Len(ns) + 1] = c.state
  BY <1>1, PathStack, PathCall
<1>4. \A i \in 1 .. Len(ns) : tried[i] = ns[i].done /\ tried2[i] = ms[i].done
  BY <1>1, DoneAt DEF Stack
<1>5. Schedule(Append(tr, e)) = Append(s, x)
  BY ScheduleAppend
<1> HIDE DEF states, states2, tried, tried2, s, x
<1>6. /\ \A i \in 1 .. Len(s) + 1 : tried[i] \subseteq tried2[i]
      /\ \A i \in 1 .. Len(ns) : states2[i] = states[i]
  BY <1>1, <1>2, <1>3, <1>4
<1>7. x \in ScheduleStep /\ x \notin tried[Len(s) + 1] /\ x \in tried2[Len(s) + 1]
  BY <1>1, <1>4 DEF x
<1>8. Distinct(ss, s, tried)
  BY DEF OnPath, s, tried
<1>9. Distinct(ss, Append(s, x), tried2)
  BY <1>6, <1>7, <1>8, DistinctPush
<1>10. ASSUME NEW h2, NEW R2, Standing(p, model, Append(s, x), states2, h2, R2)
       PROVE  OnPath(p, model, {c}, ms, Append(tr, e), h2, R2, ss)
  BY <1>5, <1>9, <1>10 DEF OnPath, states2, tried2
<1> QED BY <1>3, <1>5, <1>6, <1>10 DEF states, states2

-----------------------------------------------------------------------------
(***************************************************************************)
(* Every step of the search is a step of Exploration.                      *)
(***************************************************************************)
\* A step of Exploration, after which every bug found was still made with its schedule.
Explores ==
    /\ Abstract!Next
    /\ Reported(program, memory_model, result) => Reported(program, memory_model, result')

\* A schedule that is counted.
LEMMA CountsSchedule ==
    ASSUME NEW STATE s, s \in Seq(ScheduleStep), UNCHANGED params, ~capped, Recordable(result), max_schedules \in Nat,
           IsSeq(terminal_schedules), s \notin Range(terminal_schedules),
           terminal_schedules' = Append(terminal_schedules, s),
           Counted(program, memory_model, s, result, result')
    PROVE  Explores
<1>1. PICK r \in ReplayOf(program, s, memory_model) :
        /\ r.schedules_explored = 1
        /\ \A counter \in CountFields : result'[counter] = result[counter] + r[counter]
        /\ Carries(result', r) /\ Firsts(result, result', r, s)
  BY DEF Counted
<1>2. result.schedules_explored < max_schedules
  <2>1. result.schedules_explored \in Nat
    BY DEF Recordable, CountFields
  <2> QED BY <2>1 DEF capped
<1>3. s \in Range(terminal_schedules')
  BY RangeAppend
<1>4. Abstract!Count(s)
  BY <1>1, <1>2 DEF Abstract!Count, Abstract!Range, Range, Carries
<1>5. ASSUME NEW kind \in ReportKinds
      PROVE  FoundOf(result')[kind] = FoundOf(result)[kind] \/ Abstract!Find(kind)
  BY <1>1 DEF Firsts, Abstract!Find
<1>6. Abstract!Next
  BY <1>3, <1>4, <1>5 DEF Abstract!Next, Abstract!params, params, Abstract!Range, Range
<1> QED BY <1>1, <1>6, FirstsReported DEF Explores

\* A step with which no execution ends.
LEMMA CountsNothing ==
    ASSUME UNCHANGED <<params, terminal_schedules>>,
           \/ UNCHANGED result
           \/ \E s \in Seq(ScheduleStep) : Met(program, memory_model, s, result, result')
    PROVE  Explores
<1>1. Abstract!CountNothing
  BY DEF Abstract!CountNothing, Met
<1>2. ASSUME NEW kind \in ReportKinds
      PROVE  FoundOf(result')[kind] = FoundOf(result)[kind] \/ Abstract!Find(kind)
  <2>1. CASE UNCHANGED result
    BY <2>1
  <2>2. ASSUME NEW s, Met(program, memory_model, s, result, result')
        PROVE  FoundOf(result')[kind] = FoundOf(result)[kind] \/ Abstract!Find(kind)
    BY <2>2 DEF Met, Firsts, Abstract!Find
  <2> QED BY <2>1, <2>2
<1>3. Abstract!Next
  BY <1>1, <1>2 DEF Abstract!Next, Abstract!params, params
<1> QED BY <1>3, FirstsReported DEF Explores, Met

\* The invariant at a call.
LEMMA AtCall ==
    ASSUME ExploreInv, NEW c \in call
    PROVE  /\ call = {c} /\ Stack(nodes) /\ IsSeq(trace) /\ Len(nodes) = Len(trace)
           /\ Frames(program, nodes, trace) /\ CallNode(program, nodes, trace, c)
           /\ OnPath(program, memory_model, {c}, nodes, trace, history, result,
                     terminal_schedules)
           /\ SearchInv /\ max_schedules \in Nat /\ Recordable(result)
           /\ IsSeq(terminal_schedules)
           /\ EnabledSteps(c) = enabled_steps(program, c.state)
           /\ PathOf(nodes, {c})[Len(Schedule(trace)) + 1] = c.state
<1>1. SearchInv /\ max_schedules \in Nat
  BY DEF ExploreInv
<1>2. /\ call = {c} /\ Frames(program, nodes, trace) /\ Len(nodes) = Len(trace)
      /\ CallNode(program, nodes, trace, c)
  <2>1. PICK d : call = {d} /\ Len(nodes) = Len(trace) /\ CallNode(program, nodes, trace, d)
    BY <1>1 DEF SearchInv, Searching
  <2>2. d = c
    BY <2>1
  <2> QED BY <1>1, <2>1, <2>2 DEF SearchInv, Searching
<1>3. Stack(nodes) /\ IsSeq(trace)
  BY <1>2 DEF Frames
<1>4. OnPath(program, memory_model, {c}, nodes, trace, history, result, terminal_schedules)
  BY <1>2 DEF ExploreInv, Finished
<1>5. Recordable(result) /\ IsSeq(terminal_schedules)
  BY <1>4 DEF OnPath, Standing, Distinct
<1>6. EnabledSteps(c) = enabled_steps(program, c.state)
  BY <1>2 DEF CallNode, NodeOf, EnabledSteps, enabled_transitions
<1>7. PathOf(nodes, {c})[Len(Schedule(trace)) + 1] = c.state
  BY <1>2, <1>3, ScheduleIs, PathCall
<1> QED BY <1>1, <1>2, <1>3, <1>4, <1>5, <1>6, <1>7

\* And in the loop of the last frame.
LEMMA AtLoop ==
    ASSUME ExploreInv, InLoop
    PROVE  /\ OnPath(program, memory_model, {}, nodes, trace, history, result,
                     terminal_schedules)
           /\ Standing(program, memory_model, Schedule(trace), PathOf(nodes, {}), history, result)
           /\ SearchInv /\ max_schedules \in Nat /\ Recordable(result) /\ ~capped
           /\ IsSeq(terminal_schedules) /\ Stack(nodes) /\ IsSeq(trace)
           /\ Len(nodes) = Len(trace) + 1 /\ Len(Schedule(trace)) = Len(trace)
           /\ PathOf(nodes, {})[Len(Schedule(trace)) + 1] = Top.state
           /\ NextStep \in enabled_steps(program, Top.state) /\ NextStep \in ScheduleStep
           /\ NextStep \notin nodes[Len(nodes)].done
           /\ Append(Schedule(trace), NextStep) \notin Range(terminal_schedules)
<1>1. SearchInv /\ max_schedules \in Nat /\ call = {} /\ nodes # <<>> /\ ~capped
  BY DEF ExploreInv, InLoop
<1>2. OnPath(program, memory_model, {}, nodes, trace, history, result, terminal_schedules)
  BY <1>1 DEF ExploreInv, Finished
<1>3. /\ Stack(nodes) /\ Len(nodes) = Len(trace) + 1 /\ IsSeq(trace) /\ Len(trace) \in Nat
      /\ Len(nodes) \in 1 .. Len(nodes)
      /\ NextStep \in enabled_steps(program, Top.state) /\ NextStep \in Passed
      /\ Sound(program, Top.state)
  BY <1>1, LoopStep
<1>4. NextStep \notin nodes[Len(nodes)].done
  BY <1>3 DEF Passed, Unexplored, Top
<1>5. NextStep \in ScheduleStep
  BY <1>1, <1>3, EnabledTyped DEF SearchInv
<1>6. /\ Standing(program, memory_model, Schedule(trace), PathOf(nodes, {}), history, result)
      /\ Distinct(terminal_schedules, Schedule(trace), DoneOf(nodes))
  BY <1>2 DEF OnPath
<1>7. Recordable(result) /\ IsSeq(terminal_schedules)
  BY <1>6 DEF Standing, Distinct
<1>8. Len(Schedule(trace)) = Len(trace)
  BY <1>3, ScheduleIs
<1>9. PathOf(nodes, {})[Len(Schedule(trace)) + 1] = Top.state
  BY <1>3, <1>8, PathStack DEF Top
<1>10. NextStep \notin DoneOf(nodes)[Len(Schedule(trace)) + 1]
  BY <1>3, <1>4, <1>8, DoneAt DEF Stack
<1>11. Append(Schedule(trace), NextStep) \notin Range(terminal_schedules)
  BY <1>6, <1>10, DistinctHere
<1> QED BY <1>1, <1>2, <1>3, <1>4, <1>5, <1>6, <1>7, <1>8, <1>9, <1>11

\* The invariant holds again, or the search is over.
LEMMA StillOnPath ==
    ASSUME ExploreInv, UNCHANGED params, SearchInv',
           \/ call' = {} /\ nodes' = <<>>
           \/ OnPath(program, memory_model, call', nodes', trace', history', result',
                     terminal_schedules')
    PROVE  ExploreInv'
BY DEF ExploreInv, Finished, params

\* ReturnTo, for a result and schedules that the path agrees with.
LEMMA ReturnsExplore ==
    ASSUME ExploreInv, UNCHANGED params, SearchInv', NEW STATE ns, ReturnTo(ns),
           Frames(program, ns, trace), Len(ns) = Len(trace), NEW STATE states,
           \A i \in 1 .. Len(trace) :
              states[i] = ns[i].state /\ DoneOf(nodes)[i] \subseteq ns[i].done,
           Standing(program, memory_model, Schedule(trace), states, history, result'),
           Distinct(terminal_schedules, Schedule(trace), DoneOf(nodes)),
           \/ terminal_schedules' = terminal_schedules
           \/ terminal_schedules' = Append(terminal_schedules, Schedule(trace))
    PROVE  ExploreInv'
<1>1. IsSeq(trace) /\ Stack(ns) /\ call' = {}
  BY DEF Frames, ReturnTo
<1>2. CASE trace = <<>>
  <2>1. Len(trace) = 0 /\ nodes' = ns
    BY <1>1, <1>2, SeqLength DEF ReturnTo
  <2>2. ns = <<>>
    BY <1>1, <2>1, SeqLength DEF Stack
  <2> QED BY <1>1, <2>1, <2>2, StillOnPath
<1>3. CASE trace # <<>>
  <2> DEFINE ms == PutToSleep(ns, trace)
  <2>1. nodes' = ms /\ trace' = Front(trace) /\ history' = Restored(history, Len(trace))
    BY <1>3 DEF ReturnTo, PutToSleep
  <2>2. Evolves(ns, ms)
    BY <1>3, FramesReturn
  <2> HIDE DEF ms
  <2>3. Stack(ms) /\ Len(ms) = Len(trace)
    BY <2>2, EvolvedStack DEF Evolves
  <2>4. \A i \in 1 .. Len(trace) : states[i] = ms[i].state /\ DoneOf(nodes)[i] \subseteq ms[i].done
    BY <2>2 DEF Evolves, SameNode
  <2>5. /\ OnPath(program, memory_model, {}, ms, Front(trace), Restored(history, Len(trace)),
                  result', terminal_schedules)
        /\ OnPath(program, memory_model, {}, ms, Front(trace), Restored(history, Len(trace)),
                  result', Append(terminal_schedules, Schedule(trace)))
    BY <1>1, <1>3, <2>3, <2>4, PathReturns
  <2> QED BY <1>1, <2>1, <2>5, StillOnPath
<1> QED BY <1>2, <1>3

\* A call that returns without a frame.
LEMMA CallReturnsExplore ==
    ASSUME ExploreInv, UNCHANGED params, SearchInv', NEW c \in call,
           NEW STATE ns, Woken(nodes, ns), ReturnTo(ns),
           Standing(program, memory_model, Schedule(trace), PathOf(nodes, {c}), history, result'),
           \/ terminal_schedules' = terminal_schedules
           \/ terminal_schedules' = Append(terminal_schedules, Schedule(trace))
    PROVE  ExploreInv'
<1> DEFINE states == PathOf(nodes, {c})
<1>1. /\ call = {c} /\ Stack(nodes) /\ IsSeq(trace) /\ Len(nodes) = Len(trace)
      /\ Frames(program, nodes, trace)
      /\ OnPath(program, memory_model, {c}, nodes, trace, history, result, terminal_schedules)
  BY AtCall
<1>2. /\ Frames(program, ns, trace) /\ Len(ns) = Len(trace)
      /\ \A i \in 1 .. Len(nodes) : ns[i].state = nodes[i].state /\ ns[i].done = nodes[i].done
  BY <1>1, WokenEvolves, FramesEvolve DEF Woken, SameNode
<1>3. \A i \in 1 .. Len(nodes) : states[i] = nodes[i].state
  BY <1>1, PathCall
<1>4. \A i \in 1 .. Len(nodes) : DoneOf(nodes)[i] = nodes[i].done
  BY <1>1, DoneAt DEF Stack
<1>5. \A i \in 1 .. Len(trace) : states[i] = ns[i].state /\ DoneOf(nodes)[i] \subseteq ns[i].done
  BY <1>1, <1>2, <1>3, <1>4
<1>6. Distinct(terminal_schedules, Schedule(trace), DoneOf(nodes))
  BY <1>1 DEF OnPath
<1> HIDE DEF states
<1> QED BY <1>2, <1>5, <1>6, ReturnsExplore DEF states

LEMMA LeafExplores ==
    ASSUME ExploreInv, CallCapped \/ Terminal \/ SleepBlocked
    PROVE  ExploreInv' /\ Explores
<1>1. PICK c : c \in call
  BY DEF CallCapped, Terminal, SleepBlocked
<1>2. /\ call = {c} /\ Stack(nodes) /\ IsSeq(trace)
      /\ OnPath(program, memory_model, {c}, nodes, trace, history, result, terminal_schedules)
      /\ SearchInv /\ max_schedules \in Nat /\ Recordable(result) /\ IsSeq(terminal_schedules)
      /\ EnabledSteps(c) = enabled_steps(program, c.state)
      /\ PathOf(nodes, {c})[Len(Schedule(trace)) + 1] = c.state
  BY <1>1, AtCall
<1>3. SearchInv' /\ UNCHANGED params
  BY <1>2, LeafSearch DEF CallCapped, Terminal, SleepBlocked
<1>4. Woken(nodes, nodes) /\ Woken(nodes, add_disabled_backtracks(program, c, nodes, trace))
  <2>1. Len(trace) \in Nat
    BY <1>2, SeqLength
  <2> QED BY <1>2, <2>1, NeverWoken, DisabledWakes
<1>5. ReturnTo(nodes) \/ ReturnTo(add_disabled_backtracks(program, c, nodes, trace))
  BY <1>2 DEF CallCapped, Terminal, SleepBlocked
<1>6. /\ Standing(program, memory_model, Schedule(trace), PathOf(nodes, {c}), history, result)
      /\ Distinct(terminal_schedules, Schedule(trace), DoneOf(nodes))
  BY <1>2 DEF OnPath
<1>7. CASE Terminal
  <2>1. /\ ~capped /\ EnabledSteps(c) = {}
        /\ result' = WithDeadlock(WithLeaf(result), program, c.state, Schedule(trace))
        /\ terminal_schedules' = Append(terminal_schedules, Schedule(trace))
    BY <1>2, <1>7 DEF Terminal
  <2>2. /\ Counted(program, memory_model, Schedule(trace), result, result')
        /\ Standing(program, memory_model, Schedule(trace), PathOf(nodes, {c}), history, result')
    BY <1>2, <1>6, <2>1, LeafCounted
  <2>3. Schedule(trace) \notin Range(terminal_schedules)
    BY <1>6, DistinctHere
  <2>4. ExploreInv'
    BY <1>1, <1>3, <1>4, <1>5, <2>1, <2>2, CallReturnsExplore
  <2>5. Explores
    <3>1. Schedule(trace) \in Seq(ScheduleStep)
      BY <1>2 DEF OnPath, Standing
    <3> QED BY <1>2, <1>3, <2>1, <2>2, <2>3, <3>1, CountsSchedule
  <2> QED BY <2>4, <2>5
<1>8. CASE CallCapped \/ SleepBlocked
  <2>1. UNCHANGED <<params, result, terminal_schedules>>
    BY <1>8 DEF CallCapped, SleepBlocked
  <2>2. ExploreInv'
    BY <1>1, <1>3, <1>4, <1>5, <1>6, <2>1, CallReturnsExplore
  <2>3. Explores
    BY <2>1, CountsNothing
  <2> QED BY <2>2, <2>3
<1> QED BY <1>7, <1>8

LEMMA OpenExplores == ASSUME ExploreInv, Open PROVE ExploreInv' /\ Explores
<1>1. PICK c \in call : nodes' = Append(nodes, initialize_dpor_backtrack(program, c))
  BY DEF Open
<1> DEFINE n == initialize_dpor_backtrack(program, c)
<1>2. /\ call' = {} /\ UNCHANGED <<params, trace, history, result, terminal_schedules>>
  BY DEF Open
<1>3. /\ Stack(nodes) /\ IsSeq(trace) /\ Len(nodes) = Len(trace) /\ SearchInv
      /\ CallNode(program, nodes, trace, c)
      /\ OnPath(program, memory_model, {c}, nodes, trace, history, result, terminal_schedules)
  BY AtCall
<1>4. SameNode(c, n)
  <2>1. n = c \/ \E steps : n = [c EXCEPT !.backtrack = steps]
    BY DEF initialize_dpor_backtrack
  <2> HIDE DEF n
  <2> QED BY <1>3, <2>1 DEF CallNode, SameNode, NodeFields
<1> HIDE DEF n
<1>5. OnPath(program, memory_model, {}, Append(nodes, n), trace, history, result,
             terminal_schedules)
  BY <1>3, <1>4, PathOpens
<1>6. SearchInv'
  BY <1>3, OpenSearch
<1>7. ExploreInv'
  BY <1>1, <1>2, <1>5, <1>6, StillOnPath DEF n
<1>8. Explores
  BY <1>2, CountsNothing
<1> QED BY <1>7, <1>8

LEMMA CloseExplores == ASSUME ExploreInv, Close PROVE ExploreInv' /\ Explores
<1> DEFINE ns == Front(nodes)
           states == PathOf(nodes, {})
<1>1. /\ call = {} /\ nodes # <<>> /\ ReturnTo(ns) /\ UNCHANGED <<params, result, terminal_schedules>>
      /\ SearchInv
  BY DEF Close, ExploreInv
<1>2. Frames(program, nodes, trace) /\ Len(nodes) = Len(trace) + 1
  <2>1. \A c : {c} # {}
    OBVIOUS
  <2> QED BY <1>1, <2>1 DEF SearchInv, Searching
<1>3. Stack(nodes) /\ IsSeq(trace) /\ Len(trace) \in Nat /\ IsSeq(nodes)
  BY <1>2, SeqLength DEF Frames, Stack
<1>4. OnPath(program, memory_model, {}, nodes, trace, history, result, terminal_schedules)
  BY <1>1 DEF ExploreInv, Finished
<1>5. /\ Standing(program, memory_model, Schedule(trace), states, history, result)
      /\ Distinct(terminal_schedules, Schedule(trace), DoneOf(nodes))
  BY <1>4 DEF OnPath
<1>6. Frames(program, ns, trace) /\ Len(ns) = Len(trace)
  BY <1>2, FramesPop
<1>7. \A i \in 1 .. Len(trace) : ns[i] = nodes[i] /\ i \in 1 .. Len(nodes)
  <2>1. Len(nodes) - 1 = Len(trace)
    BY <1>2, <1>3
  <2> QED BY <1>1, <1>2, <1>3, <2>1, SeqFront
<1>8. \A i \in 1 .. Len(trace) : states[i] = ns[i].state /\ DoneOf(nodes)[i] \subseteq ns[i].done
  BY <1>3, <1>7, PathStack, DoneAt
<1>9. SearchInv'
  BY <1>1, CloseSearch
<1> HIDE DEF ns, states
<1>10. ExploreInv'
  BY <1>1, <1>5, <1>6, <1>8, <1>9, ReturnsExplore
<1>11. Explores
  BY <1>1, CountsNothing
<1> QED BY <1>10, <1>11

\* A step of the loop with which the execution ends.
LEMMA CutExplores ==
    ASSUME ExploreInv, InLoop, Evolves(nodes, nodes'), NextStep \in nodes'[Len(nodes)].done,
           UNCHANGED <<params, call, trace, history>>,
           terminal_schedules' =
              Append(terminal_schedules, Append(Schedule(trace), NextStep)),
           Counted(program, memory_model, Append(Schedule(trace), NextStep), result, result'),
           Standing(program, memory_model, Schedule(trace), PathOf(nodes, {}), history, result')
    PROVE  ExploreInv' /\ Explores
<1>1. /\ OnPath(program, memory_model, {}, nodes, trace, history, result, terminal_schedules)
      /\ SearchInv /\ max_schedules \in Nat /\ Recordable(result) /\ ~capped
      /\ IsSeq(terminal_schedules) /\ Stack(nodes) /\ IsSeq(trace) /\ Len(nodes) = Len(trace) + 1
      /\ Append(Schedule(trace), NextStep) \notin Range(terminal_schedules)
  BY AtLoop
<1>2. SearchInv' /\ call' = {}
  BY <1>1, CutSearch DEF InLoop
<1>3. OnPath(program, memory_model, {}, nodes', trace, history, result', terminal_schedules')
  BY <1>1, PathStays
<1>4. ExploreInv'
  BY <1>2, <1>3, StillOnPath
<1>5. Append(Schedule(trace), NextStep) \in Seq(ScheduleStep)
  <2>1. Schedule(trace) \in Seq(ScheduleStep) /\ NextStep \in ScheduleStep
    BY <1>1, AtLoop DEF OnPath, Standing
  <2> HIDE DEF NextStep
  <2> QED BY <2>1
<1>6. Explores
  BY <1>1, <1>5, CountsSchedule
<1> QED BY <1>4, <1>6

LEMMA BoundExplores == ASSUME ExploreInv, BoundLeaf PROVE ExploreInv' /\ Explores
<1>1. /\ InLoop /\ step_bound_reached(Top.state, NextStep.thread)
      /\ result' = record_bound_exceeded(result) /\ UNCHANGED <<params, call, trace, history>>
      /\ terminal_schedules' = Append(terminal_schedules, Append(Schedule(trace), NextStep))
  BY DEF BoundLeaf
<1>2. Evolves(nodes, nodes') /\ NextStep \in nodes'[Len(nodes)].done
  BY BoundEvolves DEF ExploreInv
<1>3. /\ Standing(program, memory_model, Schedule(trace), PathOf(nodes, {}), history, result)
      /\ PathOf(nodes, {})[Len(Schedule(trace)) + 1] = Top.state
      /\ NextStep \in enabled_steps(program, Top.state)
  BY <1>1, AtLoop
<1>4. /\ Counted(program, memory_model, Append(Schedule(trace), NextStep), result, result')
      /\ Standing(program, memory_model, Schedule(trace), PathOf(nodes, {}), history, result')
  BY <1>1, <1>3, StepCounted
<1> QED BY <1>1, <1>2, <1>4, CutExplores

LEMMA TakeStepExplores == ASSUME ExploreInv, TakeStep PROVE ExploreInv' /\ Explores
<1> DEFINE step == NextStep
           s == Top.state
           out == Outcome
           e == Executed(out)
           ur == Append(trace, e)
           ns == WithTransition(ur)
           path == Schedule(trace)
           taken == Append(path, step)
           reported == WithStepReport(result, out.report, taken)
           states == PathOf(nodes, {})
<1>1. /\ InLoop /\ ~step_bound_reached(s, step.thread)
      /\ FailureLeaf(out, ur, ns) \/ CycleCut(out, ur, ns) \/ Descend(out, ur, ns)
  BY DEF TakeStep, CanExecute
<1>2. /\ Standing(program, memory_model, path, states, history, result)
      /\ OnPath(program, memory_model, {}, nodes, trace, history, result, terminal_schedules)
      /\ SearchInv /\ Stack(nodes) /\ IsSeq(trace) /\ Len(nodes) = Len(trace) + 1
      /\ Len(path) = Len(trace) /\ states[Len(path) + 1] = s
      /\ step \in enabled_steps(program, s) /\ step \in ScheduleStep
      /\ step \notin nodes[Len(nodes)].done
  BY <1>1, AtLoop
<1>3. out = execute_enabled_step(program, s, step) /\ e.endpoint = step
  BY DEF Outcome, Executed
<1>4. Schedule(ur) = taken
  BY <1>2, <1>3, ScheduleAppend
<1>5. Evolves(nodes, ns) /\ step \in ns[Len(nodes)].done
  BY <1>1, <1>2, TransitionEvolves
<1> HIDE DEF e, ns, out, states
<1>6. CASE FailureLeaf(out, ur, ns)
  <2>1. /\ Failed(out) /\ result' = WithLeaf(reported) /\ UNCHANGED <<params, call, trace, history>>
        /\ terminal_schedules' = Append(terminal_schedules, taken)
    BY <1>4, <1>6 DEF FailureLeaf
  <2>2. Evolves(nodes, nodes') /\ NextStep \in nodes'[Len(nodes)].done
    BY <1>1, <1>2, <1>6, FailureEvolves DEF ns
  <2>3. /\ Counted(program, memory_model, taken, result, result')
        /\ Standing(program, memory_model, path, states, history, result')
    BY <1>1, <1>2, <1>3, <2>1, StepCounted
  <2> QED BY <1>1, <2>1, <2>2, <2>3, CutExplores DEF states
<1>7. CASE CycleCut(out, ur, ns)
  <2>1. /\ ~Failed(out) /\ UNCHANGED <<params, call, trace, history>>
        /\ terminal_schedules' = Append(terminal_schedules, taken)
    BY <1>4, <1>7 DEF CycleCut
  <2>2. PICK start \in CycleStart(history, out.state) :
        \E lasso \in make_nontermination_report(program, taken, start, memory_model) :
           result' = record_nontermination(reported, lasso)
    BY <1>4, <1>7 DEF CycleCut
  <2>3. Evolves(nodes, nodes') /\ NextStep \in nodes'[Len(nodes)].done
    BY <1>1, <1>2, <1>7, CycleEvolves DEF ns
  <2>4. /\ Counted(program, memory_model, taken, result, result')
        /\ Standing(program, memory_model, path, states, history, result')
    BY <1>1, <1>2, <1>3, <2>1, <2>2, StepCounted
  <2> QED BY <1>1, <2>1, <2>3, <2>4, CutExplores DEF states
<1>8. CASE Descend(out, ur, ns)
  <2> DEFINE next == Node(program, out.state)
             c == [next EXCEPT !.sleep = inherited_sleep_set(program, next, ns[Len(ns)], Last(ur))]
             states2 == PathOf(ns, {c})
             h == Observed(program, history, out.state, Len(path) + 1)
  <2>1. Len(ur) = Len(path) + 1
    BY <1>2, SeqAppend
  <2>2. /\ ~Failed(out) /\ CycleStart(history, out.state) = {}
        /\ nodes' = ns /\ trace' = ur /\ history' = h /\ call' = {c}
        /\ result' = reported /\ UNCHANGED <<params, terminal_schedules>>
    BY <1>4, <1>8, <2>1 DEF Descend
  <2>3. c.state = out.state
    BY DEF Node
  <2> HIDE DEF c, next
  <2>4. /\ \A i \in 1 .. Len(nodes) : states2[i] = states[i]
        /\ states2[Len(nodes) + 1] = c.state
        /\ \A h2, R2 : Standing(program, memory_model, Schedule(ur), states2, h2, R2)
             => OnPath(program, memory_model, {c}, ns, ur, h2, R2, terminal_schedules)
    BY <1>2, <1>3, <1>5, PathCalls DEF states
  <2> HIDE DEF states2
  <2>5. /\ \A i \in 1 .. Len(path) + 1 : states2[i] = states[i]
        /\ states2[Len(path) + 2] = out.state /\ Len(path) \in Nat
    <3>1. Len(nodes) = Len(path) + 1 /\ Len(nodes) + 1 = Len(path) + 2 /\ Len(path) \in Nat
      BY <1>2, SeqLength
    <3> QED BY <2>3, <2>4, <3>1
  <2>6. /\ Met(program, memory_model, taken, result, reported)
        /\ Standing(program, memory_model, taken, states2, h, reported)
    <3> HIDE DEF step, s, path
    <3> QED BY <1>1, <1>2, <1>3, <2>2, <2>5, StepMet
  <2>7. OnPath(program, memory_model, call', nodes', trace', history', result',
               terminal_schedules')
    BY <1>4, <2>2, <2>4, <2>6
  <2>8. SearchInv'
    BY <1>2, StepSearch
  <2>9. ExploreInv'
    BY <2>2, <2>7, <2>8, StillOnPath
  <2>10. Explores
    <3>1. taken \in Seq(ScheduleStep)
      BY <2>6 DEF Standing
    <3> QED BY <2>2, <2>6, <3>1, CountsNothing
  <2> QED BY <2>9, <2>10
<1> QED BY <1>1, <1>6, <1>7, <1>8

LEMMA InitExplores == Init => ExploreInv /\ Abstract!Init
<1> SUFFICES ASSUME Init PROVE ExploreInv /\ Abstract!Init
  OBVIOUS
<1> DEFINE s == initial_state(program, memory_model)
           c == Node(program, s)
           none == <<>>
           states == PathOf(none, {c})
<1>1. /\ program \in Programs /\ memory_model \in MemoryModels /\ max_schedules \in ScheduleCaps
      /\ call = {c} /\ history = initial_state_history(program, s)
      /\ nodes = none /\ trace = none /\ result = NoResult /\ terminal_schedules = none
  BY DEF Init
<1>2. memory_model \in MemoryModel /\ max_schedules \in Nat
  BY <1>1, SearchAssumption
<1>3. IsSeq(none) /\ Len(none) = 0 /\ Stack(none)
  <2>1. none \in Seq({}) /\ Len(none) = 0
    OBVIOUS
  <2> HIDE DEF none
  <2> QED BY <2>1 DEF IsSeq, Stack
<1>4. Schedule(none) = none
  BY <1>3, ScheduleIs
<1>5. c.state = s
  BY DEF Node
<1> HIDE DEF c, s
<1>6. states[1] = s
  BY <1>3, <1>5, PathCall
<1> HIDE DEF states
<1>7. Standing(program, memory_model, none, states, history, NoResult)
  BY <1>1, <1>2, <1>6, StandingStart DEF s
<1>8. Distinct(none, none, DoneOf(none))
  BY DistinctStart
<1> HIDE DEF none
<1>9. OnPath(program, memory_model, call, nodes, trace, history, result, terminal_schedules)
  BY <1>1, <1>4, <1>7, <1>8 DEF OnPath, states
<1>10. ExploreInv
  BY <1>2, <1>9, InitSearch DEF ExploreInv
<1>11. \A counter \in CountFields : NoResult[counter] = 0
  BY DEF NoResult, CountFields
<1>12. \A kind \in ReportKinds : FoundOf(NoResult)[kind] = {}
  <2>1. FoundOf(NoResult) = [race |-> {}, deadlock |-> {}, error |-> {}, assertion |-> {},
                             nontermination |-> {}]
    BY DEF FoundOf, NoResult
  <2> QED BY <2>1, KindsAre
<1>13. Abstract!Init
  BY <1>1, <1>11, <1>12 DEF Abstract!Init, none
<1> QED BY <1>10, <1>13

\* Every step of the search, or none.
LEMMA SearchExplores ==
    ASSUME ExploreInv, [Next]_vars
    PROVE  /\ ExploreInv' /\ [Abstract!Next]_(Abstract!evars)
           /\ Reported(program, memory_model, result) => Reported(program', memory_model', result')
<1>1. CASE UNCHANGED vars
  <2>1. SearchInv'
    BY <1>1 DEF ExploreInv, SearchInv, vars, params
  <2> QED BY <1>1, <2>1 DEF vars, params, ExploreInv, Finished, Abstract!evars, Abstract!params
<1>2. CASE Next
  <2>1. ExploreInv' /\ Explores
    BY <1>2, LeafExplores, OpenExplores, BoundExplores, TakeStepExplores, CloseExplores DEF Next
  <2>2. program' = program /\ memory_model' = memory_model
    BY <2>1 DEF Explores, Abstract!Next, Abstract!params
  <2> QED BY <2>1, <2>2 DEF Explores
<1> QED BY <1>1, <1>2

-----------------------------------------------------------------------------
(***************************************************************************)
(* The whole check: the search, and the minimizations of its reports.      *)
(***************************************************************************)
\* A result keeps the fields of CheckResult.
LEMMA SearchFields ==
    ASSUME ResultFields(result), [Next]_vars
    PROVE  ResultFields(result')
<1>1. CASE UNCHANGED result
  BY <1>1
<1>2. CASE Terminal \/ BoundLeaf
  BY <1>2, ResultFieldsKept DEF Terminal, BoundLeaf
<1>3. CASE TakeStep
  <2> DEFINE ur == Append(trace, Executed(Outcome))
             reported == WithStepReport(result, Outcome.report, Schedule(ur))
  <2>1. ResultFields(reported)
    BY ResultFieldsKept
  <2>2. \/ result' = WithLeaf(reported) \/ result' = reported
        \/ \E lasso : result' = record_nontermination(reported, lasso)
    BY <1>3 DEF TakeStep, FailureLeaf, CycleCut, Descend
  <2> HIDE DEF reported
  <2> QED BY <2>1, <2>2, ResultFieldsKept
<1> QED BY <1>1, <1>2, <1>3 DEF Next, vars, CallCapped, SleepBlocked, Open, Close

\* What identifies the bug of a kind is in the reports of this kind.
LEMMA SameIdentities ==
    ASSUME NEW kind \in BugKinds, NEW r, NEW x
    PROVE  /\ FoundOf(r)[kind] = FoundOf(x)[kind] => identities_of(r)[kind] = identities_of(x)[kind]
           /\ FoundOf(r)[kind] # {} <=> identities_of(r)[kind] # {}
<1>1. CASE kind = "race"
  <2> DEFINE Of(reports) == {race_identity(f.report) : f \in reports}
  <2>1. \A y : FoundOf(y)[kind] = y.first_race /\ identities_of(y)[kind] = Of(y.first_race)
    BY <1>1, KindsAre DEF identities_of
  <2>2. \A reports : reports # {} <=> Of(reports) # {}
    OBVIOUS
  <2> HIDE DEF Of
  <2>3. identities_of(r)[kind] = Of(FoundOf(r)[kind]) /\ identities_of(x)[kind] = Of(FoundOf(x)[kind])
    BY <2>1
  <2> QED BY <2>2, <2>3
<1>2. CASE kind = "deadlock"
  <2> DEFINE Of(reports) == {f.report : f \in reports}
  <2>1. \A y : FoundOf(y)[kind] = y.first_deadlock /\ identities_of(y)[kind] = Of(y.first_deadlock)
    BY <1>2, KindsAre DEF identities_of
  <2>2. \A reports : reports # {} <=> Of(reports) # {}
    OBVIOUS
  <2> HIDE DEF Of
  <2>3. identities_of(r)[kind] = Of(FoundOf(r)[kind]) /\ identities_of(x)[kind] = Of(FoundOf(x)[kind])
    BY <2>1
  <2> QED BY <2>2, <2>3
<1>3. CASE kind = "error"
  <2> DEFINE Of(reports) == {f.report.endpoint : f \in reports}
  <2>1. \A y : FoundOf(y)[kind] = y.first_error /\ identities_of(y)[kind] = Of(y.first_error)
    BY <1>3, KindsAre DEF identities_of
  <2>2. \A reports : reports # {} <=> Of(reports) # {}
    OBVIOUS
  <2> HIDE DEF Of
  <2>3. identities_of(r)[kind] = Of(FoundOf(r)[kind]) /\ identities_of(x)[kind] = Of(FoundOf(x)[kind])
    BY <2>1
  <2> QED BY <2>2, <2>3
<1>4. CASE kind = "assertion"
  <2> DEFINE Of(reports) == {f.report : f \in reports}
  <2>1. \A y : FoundOf(y)[kind] = y.first_assertion /\ identities_of(y)[kind] = Of(y.first_assertion)
    BY <1>4, KindsAre DEF identities_of
  <2>2. \A reports : reports # {} <=> Of(reports) # {}
    OBVIOUS
  <2> HIDE DEF Of
  <2>3. identities_of(r)[kind] = Of(FoundOf(r)[kind]) /\ identities_of(x)[kind] = Of(FoundOf(x)[kind])
    BY <2>1
  <2> QED BY <2>2, <2>3
<1> QED BY <1>1, <1>2, <1>3, <1>4 DEF BugKinds

\* The target of the minimization of a report.
TargetOf(r, kind) == [NoBug EXCEPT ![kind] = identities_of(r)[kind]]

LEMMA TargetIs ==
    ASSUME NEW kind \in BugKinds, NEW r, NEW x
    PROVE  reproduces_identities(x, TargetOf(r, kind)) <=>
              (FoundOf(r)[kind] # {} => identities_of(x)[kind] = identities_of(r)[kind])
<1> DEFINE bugs == TargetOf(r, kind)
<1>1. /\ \A k \in BugKinds : k # kind => bugs[k] = {}
      /\ bugs[kind] = identities_of(r)[kind]
  BY DEF NoBug, TargetOf
<1> HIDE DEF bugs
<1>2. FoundOf(r)[kind] # {} <=> bugs[kind] # {}
  BY <1>1, SameIdentities
<1>3. reproduces_identities(x, bugs) <=>
        (FoundOf(r)[kind] # {} => identities_of(x)[kind] = identities_of(r)[kind])
  BY <1>1, <1>2 DEF reproduces_identities
<1> QED BY <1>3 DEF bugs

\* A report can be minimized: its schedule shows it.
LEMMA ReportMinimizable ==
    ASSUME NEW p, NEW model, NEW r, Reported(p, model, r), NEW kind \in BugKinds,
           NEW found \in FoundOf(r)[kind]
    PROVE  /\ found.schedule \in Seq(ScheduleStep)
           /\ \A other \in FoundOf(r)[kind] : other.schedule = found.schedule
           /\ ShowsIn(p, model, found.schedule, TargetOf(r, kind))
<1>1. PICK k : MadeWith(p, model, kind, FoundOf(r)[kind], k)
  BY DEF Reported
<1>2. /\ k \in Seq(ScheduleStep) /\ found.schedule = k
      /\ \A other \in FoundOf(r)[kind] : other.schedule = k
  BY <1>1 DEF MadeWith
<1>3. PICK x \in ReplayOf(p, k, model) : FoundOf(x)[kind] = FoundOf(r)[kind]
  BY <1>1 DEF MadeWith
<1>4. reproduces_identities(x, TargetOf(r, kind))
  BY <1>3, SameIdentities, TargetIs
<1>5. x \in replay_schedule(p, k, StepBound, model)
  BY <1>3 DEF ReplayOf
<1> QED BY <1>2, <1>4, <1>5 DEF ShowsIn

\* The report of the kind is replaced by that of r, and nothing else.
Replaces(R, R2, kind, r) ==
    /\ ResultFields(R2)
    /\ \A counter \in CountFields : R2[counter] = R[counter]
    /\ FoundOf(R2)[kind] = FoundOf(r)[kind]
    /\ \A other \in ReportKinds : other # kind => FoundOf(R2)[other] = FoundOf(R)[other]

LEMMA TakesOver ==
    ASSUME NEW kind \in BugKinds, NEW R, ResultFields(R), NEW r
    PROVE  LET R2 == [R EXCEPT ![FieldOf[kind]] = FirstOfKind(r)[kind]]
           IN  Replaces(R, R2, kind, r)
<1> DEFINE field == FieldOf[kind]
           new == FirstOfKind(r)[kind]
           R2 == [R EXCEPT ![field] = new]
<1>1. new = FoundOf(r)[kind]
  BY BugKindsAre
<1>2. /\ kind = "race" => field = "first_race"
      /\ kind = "deadlock" => field = "first_deadlock"
      /\ kind = "error" => field = "first_error"
      /\ kind = "assertion" => field = "first_assertion"
  BY DEF FieldOf
<1>3. kind \in {"race", "deadlock", "error", "assertion"}
  BY DEF BugKinds
<1>4. DOMAIN R = {"exploration_capped", "schedules_explored",
             "bound_exceeded_executions", "cycles_detected", "fair_cycles", "unfair_cycles",
             "strongly_unfair_cycles", "first_race", "first_error", "first_assertion",
             "first_deadlock", "first_nontermination"}
  BY DEF ResultFields, NoResult
<1> HIDE DEF field, new
<1>5. ResultFields(R2)
  BY DEF ResultFields
<1>6. R2[field] = new /\ \A g \in DOMAIN R : g # field => R2[g] = R[g]
  BY <1>2, <1>3, <1>4
<1> HIDE DEF R2
<1>7. \A counter \in CountFields : R2[counter] = R[counter]
  BY <1>2, <1>3, <1>4, <1>6 DEF CountFields
<1>8. FoundOf(R2)[kind] = new
  BY <1>2, <1>3, <1>6, KindsAre
<1>9. ASSUME NEW other \in ReportKinds, other # kind PROVE FoundOf(R2)[other] = FoundOf(R)[other]
  <2>1. field # "first_nontermination"
    BY <1>2, <1>3
  <2>2. R2.first_nontermination = R.first_nontermination
    BY <1>4, <1>6, <2>1
  <2>3. CASE other = "nontermination"
    BY <2>2, <2>3, KindsAre
  <2>4. CASE other = "race"
    BY <1>2, <1>3, <1>4, <1>6, <1>9, <2>4, KindsAre
  <2>5. CASE other = "deadlock"
    BY <1>2, <1>3, <1>4, <1>6, <1>9, <2>5, KindsAre
  <2>6. CASE other = "error"
    BY <1>2, <1>3, <1>4, <1>6, <1>9, <2>6, KindsAre
  <2>7. CASE other = "assertion"
    BY <1>2, <1>3, <1>4, <1>6, <1>9, <2>7, KindsAre
  <2> QED BY <1>9, <2>3, <2>4, <2>5, <2>6, <2>7, KindsAre
<1>10. Replaces(R, R2, kind, r)
  BY <1>1, <1>5, <1>7, <1>8, <1>9 DEF Replaces
<1> QED BY <1>10 DEF R2, field, new

\* The minimization under way is that of the report of the kind, and has not made its
\* schedule longer.
ForReport(kind) ==
    /\ FoundOf(result)[kind] # {}
    /\ target = TargetOf(result, kind)
    /\ \A found \in FoundOf(result)[kind] : Len(minimized) <= Len(found.schedule)

CheckInv ==
    /\ ExploreInv /\ ResultFields(result) /\ Reported(program, memory_model, result)
    /\ Minimizing /\ kinds \in Seq(BugKinds)
    /\ stage \in {"search", "minimize", "printed", "replayed"}
    /\ stage # "search" => Finished
    /\ phase # "off" =>
          /\ stage = "minimize" /\ phase \in {"passing", "trying", "finishing", "done"}
          /\ kinds # <<>> /\ ForReport(Head(kinds))

LEMMA InitCheckInv == CInit => CheckInv /\ Abstract!Init
<1> SUFFICES ASSUME CInit PROVE CheckInv /\ Abstract!Init
  OBVIOUS
<1>1. ExploreInv /\ Abstract!Init
  BY InitExplores DEF CInit, PInit
<1>2. result = NoResult
  BY DEF CInit, PInit, Init
<1>3. ResultFields(result) /\ Reported(program, memory_model, result)
  <2>1. \A kind \in BugKinds : FoundOf(NoResult)[kind] = {}
    BY KindsAre DEF BugKinds, NoResult
  <2> QED BY <1>2, <2>1 DEF Reported, ResultFields
<1>4. Minimizing /\ phase = "off" /\ kinds = <<>> /\ stage = "search"
  BY InitMinimizing DEF CInit, CheckerInit, MinimizerInit
<1>5. kinds \in Seq(BugKinds)
  BY <1>4
<1> QED BY <1>1, <1>3, <1>4, <1>5 DEF CheckInv

\* A step of the search.
LEMMA SearchChecks ==
    ASSUME CheckInv, stage = "search", [Next]_vars, UNCHANGED cvars
    PROVE  CheckInv' /\ [Abstract!Next]_(Abstract!evars)
<1>1. /\ ExploreInv' /\ [Abstract!Next]_(Abstract!evars)
      /\ Reported(program', memory_model', result')
  BY SearchExplores DEF CheckInv
<1>2. ResultFields(result')
  BY SearchFields DEF CheckInv
<1>3. phase = "off"
  BY DEF CheckInv
<1>4. Minimizing' /\ phase' = "off" /\ kinds' = kinds /\ stage' = "search"
  BY <1>3 DEF CheckInv, Minimizing, cvars, mvars, Asking
<1> QED BY <1>1, <1>2, <1>4 DEF CheckInv

\* What a step after the search leaves alone.
Concluding == UNCHANGED <<params, call, nodes, trace, history, terminal_schedules>>

LEMMA ConcludesOver ==
    ASSUME CheckInv, Finished, Concluding
    PROVE  /\ ExploreInv' /\ Finished' /\ program' = program /\ memory_model' = memory_model
           /\ program \in Programs /\ memory_model \in MemoryModel
<1>1. SearchInv /\ max_schedules \in Nat /\ max_schedules' = max_schedules
  BY DEF CheckInv, ExploreInv, Concluding, params
<1>2. SearchInv' /\ Finished'
  BY <1>1 DEF SearchInv, Concluding, params, Finished
<1>3. program \in Programs /\ memory_model \in MemoryModel
  BY <1>1 DEF SearchInv
<1> QED BY <1>1, <1>2, <1>3 DEF ExploreInv, Concluding, params

\* The reports and counts stay.
LEMMA NothingReported ==
    ASSUME Concluding, \A counter \in CountFields : result'[counter] = result[counter],
           \A kind \in ReportKinds : FoundOf(result')[kind] = FoundOf(result)[kind]
    PROVE  Abstract!Next
BY DEF Abstract!Next, Abstract!CountNothing, Abstract!params, Concluding, params

LEMMA BeginChecks ==
    ASSUME CheckInv, Finished, BeginMinimization, Concluding
    PROVE  CheckInv' /\ Abstract!Next
<1>1. /\ stage = "search" /\ stage' = "minimize"
      /\ kinds' = <<"race", "deadlock", "error", "assertion">>
      /\ result' = [result EXCEPT !.exploration_capped = capped] /\ UNCHANGED mvars
  BY DEF BeginMinimization
<1>2. /\ ExploreInv' /\ Finished' /\ program' = program /\ memory_model' = memory_model
  BY ConcludesOver
<1>3. phase = "off" /\ ResultFields(result) /\ Reported(program, memory_model, result) /\ Minimizing
  BY <1>1 DEF CheckInv
<1>4. ResultFields(result') /\ \A g \in DOMAIN NoResult : g # "exploration_capped" => result'[g] = result[g]
  BY <1>1, <1>3 DEF ResultFields
<1>5. \A counter \in CountFields : result'[counter] = result[counter]
  BY <1>4 DEF CountFields, NoResult
<1>6. /\ result'.first_race = result.first_race /\ result'.first_deadlock = result.first_deadlock
      /\ result'.first_error = result.first_error
      /\ result'.first_assertion = result.first_assertion
      /\ result'.first_nontermination = result.first_nontermination
  BY <1>4 DEF NoResult
<1>7. FoundOf(result') = FoundOf(result)
  BY <1>6 DEF FoundOf
<1>8. Reported(program', memory_model', result')
  BY <1>2, <1>3, <1>7 DEF Reported
<1>9. kinds' \in Seq(BugKinds)
  BY <1>1 DEF BugKinds
<1>10. Minimizing' /\ phase' = "off"
  BY <1>1, <1>2, <1>3 DEF Minimizing, mvars, Asking
<1>11. CheckInv'
  BY <1>1, <1>2, <1>4, <1>8, <1>9, <1>10 DEF CheckInv
<1> QED BY <1>5, <1>7, <1>11, NothingReported

(* A check between two minimizations: nothing is being minimized.               *)
LEMMA OffChecks ==
    ASSUME ExploreInv', ResultFields(result'), Reported(program', memory_model', result'),
           Minimizing', phase' = "off", kinds' \in Seq(BugKinds), Finished',
           stage' \in {"minimize", "printed", "replayed"}
    PROVE  CheckInv'
BY DEF CheckInv

LEMMA MinimizeNextChecks ==
    ASSUME CheckInv, Finished, MinimizeNext, Concluding
    PROVE  CheckInv' /\ Abstract!Next
<1> DEFINE kind == Head(kinds)
<1>1. /\ stage = "minimize" /\ phase = "off" /\ kinds # <<>> /\ UNCHANGED <<result, stage>>
      /\ \/ kinds' = Tail(kinds) /\ UNCHANGED mvars
         \/ /\ UNCHANGED kinds
            /\ \E found \in FirstOfKind(result)[kind] :
                  FirstPass(TargetOf(result, kind), found.schedule)
  BY DEF MinimizeNext, TargetOf
<1>2. /\ ExploreInv' /\ Finished' /\ program' = program /\ memory_model' = memory_model
  BY ConcludesOver
<1>3. /\ ResultFields(result) /\ Reported(program, memory_model, result) /\ Minimizing
      /\ kinds \in Seq(BugKinds)
  BY DEF CheckInv
<1>4. ResultFields(result') /\ Reported(program', memory_model', result')
  BY <1>1, <1>2, <1>3
<1>5. kind \in BugKinds /\ Tail(kinds) \in Seq(BugKinds)
  BY <1>1, <1>3
<1> HIDE DEF kind
<1>6. ASSUME kinds' = Tail(kinds), UNCHANGED mvars
      PROVE  CheckInv'
  <2>1. Minimizing' /\ phase' = "off"
    BY <1>1, <1>2, <1>3, <1>6 DEF Minimizing, mvars, Asking
  <2>2. kinds' \in Seq(BugKinds)
    BY <1>5, <1>6
  <2>3. stage' = "minimize"
    BY <1>1
  <2> QED BY <1>2, <1>4, <2>1, <2>2, <2>3, OffChecks
<1>7. ASSUME UNCHANGED kinds, NEW found \in FirstOfKind(result)[kind],
             FirstPass(TargetOf(result, kind), found.schedule)
      PROVE  CheckInv'
  <2>1. found \in FoundOf(result)[kind]
    BY <1>5, <1>7, BugKindsAre
  <2>2. /\ found.schedule \in Seq(ScheduleStep)
        /\ \A other \in FoundOf(result)[kind] : other.schedule = found.schedule
        /\ ShowsIn(program, memory_model, found.schedule, TargetOf(result, kind))
    BY <1>3, <1>5, <2>1, ReportMinimizable
  <2>3. ~pending
    BY <1>1, <1>3 DEF Minimizing, Asking
  <2>4. Minimizing'
    BY <1>2, <1>3, <1>7, <2>2, <2>3, BeginMinimizing
  <2>5. phase' = "passing" /\ target' = TargetOf(result, kind) /\ minimized' = found.schedule
    BY <1>7 DEF FirstPass
  <2>6. Len(found.schedule) \in Nat /\ Len(found.schedule) <= Len(found.schedule)
    BY <2>2
  <2>7. ForReport(kind)'
    BY <1>1, <1>7, <2>1, <2>2, <2>5, <2>6 DEF ForReport, TargetOf, kind
  <2> QED BY <1>1, <1>2, <1>3, <1>4, <1>7, <2>4, <2>5, <2>7 DEF CheckInv, kind
<1>8. CheckInv'
  BY <1>1, <1>6, <1>7
<1>9. Abstract!Next
  BY <1>1, NothingReported
<1> QED BY <1>8, <1>9

LEMMA MinimizeChecks ==
    ASSUME CheckInv, Finished, Minimize, UNCHANGED <<result, stage, kinds>>, Concluding
    PROVE  CheckInv' /\ Abstract!Next
<1>1. /\ ExploreInv' /\ Finished' /\ program' = program /\ memory_model' = memory_model
  BY ConcludesOver
<1>2. /\ ResultFields(result) /\ Reported(program, memory_model, result) /\ Minimizing
      /\ kinds \in Seq(BugKinds)
  BY DEF CheckInv
<1>3. phase # "off"
  BY <1>2 DEF Minimize, GivenReplayed, Skip, Try, Replayed, Tried, NextPass, AskFinal, Confirm,
              Minimizing, Asking
<1>4. /\ stage = "minimize" /\ phase \in {"passing", "trying", "finishing", "done"}
      /\ kinds # <<>> /\ ForReport(Head(kinds))
  BY <1>3 DEF CheckInv
<1>5. Minimizing'
  BY <1>1, <1>2, MinimizesOn
<1>6. /\ target' = target /\ Len(minimized') <= Len(minimized)
      /\ phase' \in {"passing", "trying", "finishing", "done", "failed"}
  BY <1>2, <1>4, MinimizesTowards
<1>7. phase' \in {"passing", "trying", "finishing", "done"}
  BY <1>5, <1>6 DEF Minimizing, Asking
<1> DEFINE kind == Head(kinds)
<1>8. ForReport(kind)'
  <2>1. kind \in BugKinds
    BY <1>2, <1>4
  <2> HIDE DEF kind
  <2>2. ASSUME NEW found \in FoundOf(result)[kind] PROVE Len(minimized') <= Len(found.schedule)
    <3>1. found.schedule \in Seq(ScheduleStep)
      BY <1>2, <2>1, ReportMinimizable
    <3>2. Len(found.schedule) \in Nat /\ Len(minimized) \in Nat /\ Len(minimized') \in Nat
      BY <1>2, <1>5, <3>1 DEF Minimizing
    <3>3. Len(minimized) <= Len(found.schedule)
      BY <1>4 DEF ForReport, kind
    <3> QED BY <1>6, <3>2, <3>3
  <2>3. FoundOf(result)[kind] # {} /\ target = TargetOf(result, kind)
    BY <1>4 DEF ForReport, kind
  <2> QED BY <1>6, <2>2, <2>3 DEF ForReport, TargetOf, kind
<1>9. CheckInv'
  BY <1>1, <1>2, <1>4, <1>5, <1>7, <1>8 DEF CheckInv
<1> QED BY <1>9, NothingReported

\* The report of the minimized schedule shows the same bug with a schedule that is no longer.
LEMMA TakeOverChecks ==
    ASSUME CheckInv, Finished, TakeOver, Concluding
    PROVE  CheckInv' /\ Abstract!Next
<1> DEFINE kind == Head(kinds)
<1>1. /\ stage = "minimize" /\ phase = "done" /\ phase' = "off" /\ kinds' = Tail(kinds)
      /\ UNCHANGED <<target, minimized, changed, tid, candidate, pending, replayed, stage>>
  BY DEF TakeOver
<1>2. PICK r \in replayed : result' = [result EXCEPT ![FieldOf[kind]] = FirstOfKind(r)[kind]]
  BY DEF TakeOver
<1>3. /\ ExploreInv' /\ Finished' /\ program' = program /\ memory_model' = memory_model
      /\ program \in Programs /\ memory_model \in MemoryModel
  BY ConcludesOver
<1>4. /\ ResultFields(result) /\ Reported(program, memory_model, result) /\ Minimizing
      /\ kinds \in Seq(BugKinds) /\ kinds # <<>> /\ ForReport(kind)
  BY <1>1 DEF CheckInv
<1>5. kind \in BugKinds /\ Tail(kinds) \in Seq(BugKinds)
  BY <1>4
<1> HIDE DEF kind
<1>6. /\ minimized \in Seq(ScheduleStep) /\ r \in ReplayOf(program, minimized, memory_model)
      /\ reproduces_identities(r, target)
  <2>1. /\ minimized \in Seq(ScheduleStep) /\ candidate = minimized
        /\ replayed = replay_schedule(program, candidate, StepBound, memory_model)
        /\ ShowsIn(program, memory_model, minimized, target)
    BY <1>1, <1>4 DEF Minimizing, Asking
  <2>2. r \in replay_schedule(program, minimized, StepBound, memory_model)
    BY <1>2, <2>1
  <2> QED BY <2>1, <2>2, OneResult DEF ShowsIn, ReplayOf
<1>7. FoundOf(result)[kind] # {} /\ identities_of(r)[kind] = identities_of(result)[kind]
  BY <1>4, <1>5, <1>6, TargetIs DEF ForReport
<1>8. FoundOf(r)[kind] # {}
  BY <1>5, <1>7, SameIdentities
<1>9. PICK k : MadeWith(program, memory_model, kind, FoundOf(r)[kind], k) /\ Len(k) <= Len(minimized)
  BY <1>3, <1>5, <1>6, <1>8, ReplayReports DEF ReportedWithin
<1>10. /\ ResultFields(result')
       /\ \A counter \in CountFields : result'[counter] = result[counter]
       /\ FoundOf(result')[kind] = FoundOf(r)[kind]
       /\ \A other \in ReportKinds : other # kind => FoundOf(result')[other] = FoundOf(result)[other]
  <2>1. Replaces(result, [result EXCEPT ![FieldOf[kind]] = FirstOfKind(r)[kind]], kind, r)
    BY <1>4, <1>5, TakesOver
  <2>2. Replaces(result, result', kind, r)
    BY <1>2, <2>1
  <2> QED BY <2>2 DEF Replaces
<1>11. identities_of(result')[kind] = identities_of(result)[kind]
  BY <1>5, <1>7, <1>10, SameIdentities
<1>12. Reported(program', memory_model', result')
  <2> SUFFICES ASSUME NEW other \in BugKinds, FoundOf(result')[other] # {}
               PROVE  \E j : MadeWith(program, memory_model, other, FoundOf(result')[other], j)
    BY <1>3 DEF Reported
  <2>1. CASE other = kind
    BY <1>9, <1>10, <2>1
  <2>2. CASE other # kind
    BY <1>4, <1>10, <2>2, BugKindsAre DEF Reported
  <2> QED BY <2>1, <2>2
<1>13. Minimizing'
  BY <1>1, <1>3, <1>4 DEF Minimizing, Asking
<1>14. CheckInv'
  BY <1>1, <1>3, <1>5, <1>10, <1>12, <1>13 DEF CheckInv
<1>15. Abstract!Shorten(kind)
  <2>1. PICK found : found \in FoundOf(result')[kind]
    BY <1>8, <1>10
  <2>2. /\ found.schedule = k /\ k \in Seq(ScheduleStep)
        /\ \E x \in ReplayOf(program, found.schedule, memory_model) :
              FoundOf(x)[kind] = FoundOf(result')[kind]
    BY <1>9, <1>10, <2>1 DEF MadeWith
  <2>3. ASSUME NEW old \in FoundOf(result)[kind] PROVE Len(found.schedule) <= Len(old.schedule)
    <3>1. old.schedule \in Seq(ScheduleStep)
      BY <1>4, <1>5, ReportMinimizable
    <3>2. Len(old.schedule) \in Nat /\ Len(k) \in Nat /\ Len(minimized) \in Nat
      BY <1>6, <2>2, <3>1
    <3>3. Len(minimized) <= Len(old.schedule)
      BY <1>4 DEF ForReport
    <3> QED BY <1>9, <2>2, <3>2, <3>3
  <2> QED BY <1>5, <1>11, <2>1, <2>2, <2>3 DEF Abstract!Shorten, Concluding
<1>16. Abstract!Next
  <2>1. Abstract!CountNothing
    BY <1>10 DEF Abstract!CountNothing, Concluding
  <2> QED BY <1>10, <1>15, <2>1 DEF Abstract!Next, Abstract!params, Concluding, params
<1> QED BY <1>14, <1>16

\* Printing the report and replaying it change nothing of this.
LEMMA PrintChecks ==
    ASSUME CheckInv, Finished, PrintCheck \/ ReplayPrinted, Concluding
    PROVE  CheckInv' /\ Abstract!Next
<1>1. UNCHANGED <<mvars, result, kinds>> /\ stage' \in {"printed", "replayed"} /\ phase = "off"
  BY DEF PrintCheck, ReplayPrinted, CheckInv
<1>2. /\ ExploreInv' /\ Finished' /\ program' = program /\ memory_model' = memory_model
  BY ConcludesOver
<1>3. Minimizing' /\ phase' = "off"
  BY <1>1, <1>2 DEF CheckInv, Minimizing, mvars, Asking
<1>4. CheckInv'
  BY <1>1, <1>2, <1>3 DEF CheckInv
<1> QED BY <1>1, <1>4, NothingReported

\* Every step of a check.
LEMMA StepChecks ==
    ASSUME CheckInv, [CNext]_<<vars, ends, cvars>>
    PROVE  CheckInv' /\ [Abstract!Next]_(Abstract!evars)
<1>1. CASE UNCHANGED <<vars, ends, cvars>>
  <2>1. ExploreInv' /\ [Abstract!Next]_(Abstract!evars)
    BY <1>1, SearchExplores DEF CheckInv
  <2>2. UNCHANGED <<program, memory_model, result, call, nodes>>
    BY <1>1 DEF vars, params
  <2> QED BY <1>1, <2>1, <2>2 DEF CheckInv, Minimizing, ForReport, Finished, TargetOf, cvars, mvars
<1>2. CASE stage = "search" /\ Search /\ UNCHANGED cvars
  BY <1>2, SearchChecks DEF Search
<1>3. CASE /\ Finished /\ Conclude
           /\ UNCHANGED <<params, call, nodes, trace, history, terminal_schedules, ends>>
  <2>1. Concluding
    BY <1>3 DEF Concluding
  <2> QED BY <1>3, <2>1, BeginChecks, MinimizeNextChecks, MinimizeChecks, TakeOverChecks, PrintChecks
          DEF Conclude
<1> QED BY <1>1, <1>2, <1>3 DEF CNext

LEMMA CheckInvariance == CSpec => []CheckInv
<1>1. CheckInv /\ [CNext]_<<vars, ends, cvars>> => CheckInv'
  BY StepChecks
<1> QED BY <1>1, InitCheckInv, PTL DEF CSpec

\* A check, of any program, memory model and step bound and with any cap: the reduced
\* search counts no complete execution twice and each by what its replay shows, keeps the
\* first report of each kind with a schedule that replays to this very report, and
\* overlooks no bug of an execution it counts, through all the returns, cuts and sleep sets
\* of the recursion; the minimizations that follow replace a report only by one of the same
\* bug, with a schedule that is no longer and replays to it (explore_dpor, dpor_dfs,
\* replay_schedule, minimize_result_reports).
THEOREM CheckImplementsExploration == CSpec => ImplementsExploration
<1>1. CheckInv /\ [CNext]_<<vars, ends, cvars>> => [Abstract!Next]_(Abstract!evars)
  BY StepChecks
<1>2. CInit => Abstract!Init
  BY InitCheckInv
<1> QED BY <1>1, <1>2, CheckInvariance, PTL DEF CSpec, ImplementsExploration, Abstract!Spec

\* In a check no minimization ends in the logic_error of the final replay, and each ends with
\* the bug of the report it began with (minimized_race_report and its siblings).
THEOREM CheckKeepsBugs == CSpec => []SameBug
<1>1. CheckInv => SameBug
  BY MinimizingSound DEF CheckInv
<1> QED BY <1>1, CheckInvariance, PTL
=============================================================================
