------------------------------ MODULE DporProps ------------------------------
(***************************************************************************)
(* What the reduced search must find and keep.                             *)
(***************************************************************************)
EXTENDS Dpor, Report

VARIABLE ends   \* the behavioral states in which complete executions ended

Finished == call = {} /\ nodes = <<>>

PInit == Init /\ ends = {}
Search ==
    /\ Next
    /\ ends' = ends \cup {behavioral_state_fingerprint(c.state) :
                            c \in {d \in call : ~capped /\ EnabledSteps(d) = {}}}
Returned == Finished /\ UNCHANGED <<vars, ends>>

PSpec == PInit /\ [][Search \/ Returned]_<<vars, ends>>

-----------------------------------------------------------------------------
(***************************************************************************)
(* The reference: the paths of explore_naive and dfs, which take every     *)
(* enabled step.  A path is its last state and its history; Explore[n] has *)
(* the paths of n steps that go on, and what the steps so far have shown.  *)
(***************************************************************************)
Unbounded(s, step) == ~step_bound_reached(s, step.thread)

Continues(path, outcome) == ~Failed(outcome) /\ CycleStart(path.history, outcome.state) = {}

\* The classes of the cycle that the step closes.
CycleClasses(path, step, outcome) ==
    LET starts == {c \in CycleStart(path.history, outcome.state) : ~Failed(outcome)}
    IN  {r.fairness : r \in UNION
            {make_nontermination_report(program, Append(path.schedule, step), c, memory_model) :
                c \in starts}}

KindsOf(path, outcome) ==
    {kind \in {"race", "error", "assertion", "cycle"} :
        \/ kind = "race" /\ outcome.report.race # {}
        \/ kind = "error" /\ outcome.report.error # {}
        \/ kind = "assertion" /\ outcome.report.assertion # {}
        \/ kind = "cycle" /\ ~Failed(outcome) /\ CycleStart(path.history, outcome.state) # {}}

LeafKinds(path) ==
    {kind \in {"deadlock", "bound"} :
        \/ /\ kind = "deadlock"
           /\ enabled_steps(program, path.state) = {}
           /\ ~all_finished(program, path.state)
        \/ /\ kind = "bound"
           /\ \E step \in enabled_steps(program, path.state) : ~Unbounded(path.state, step)}

\* The steps the path can take, each with its outcome.
Taken(path) ==
    {[step |-> step, outcome |-> execute_enabled_step(program, path.state, step)] :
        step \in {e \in enabled_steps(program, path.state) : Unbounded(path.state, e)}}

\* Only a path that may close a cycle needs to know its schedule.
Extended(path, taken, n) ==
    [state |-> taken.outcome.state,
     history |-> Observed(program, path.history, taken.outcome.state, n),
     schedule |-> IF requires_cycle_detection(program)
                  THEN Append(path.schedule, taken.step) ELSE <<>>]

Explore ==
    LET start == initial_state(program, memory_model)
        last == NumThreads * StepBound + 1
        explore[n \in 0 .. last] ==
            IF n = 0
            THEN [paths |-> {[state |-> start, history |-> initial_state_history(program, start),
                               schedule |-> <<>>]},
                  kinds |-> {}, classes |-> {}, terminals |-> {}]
            ELSE LET before == explore[n - 1]
                     paths == before.paths
                     moves == {[path |-> path, taken |-> Taken(path)] : path \in paths}
                 IN  [paths |-> UNION {{Extended(m.path, k, n) : k \in
                                          {j \in m.taken : Continues(m.path, j.outcome)}} :
                                        m \in moves},
                      kinds |-> before.kinds \cup
                          UNION {LeafKinds(path) : path \in paths} \cup
                          UNION {UNION {KindsOf(m.path, k.outcome) : k \in m.taken} : m \in moves},
                      classes |-> before.classes \cup
                          UNION {UNION {CycleClasses(m.path, k.step, k.outcome) : k \in m.taken} :
                                   m \in moves},
                      terminals |-> before.terminals \cup
                          {behavioral_state_fingerprint(path.state) : path \in
                              {q \in paths : enabled_steps(program, q.state) = {}}}]
    IN  explore[last]

-----------------------------------------------------------------------------
CycleCounts ==
    [UnfairScheduleWitness |-> result.unfair_cycles,
     StronglyUnfairScheduleWitness |-> result.strongly_unfair_cycles,
     FairDivergence |-> result.fair_cycles]

ReportedClasses == {class \in DOMAIN CycleCounts : CycleCounts[class] > 0}
ReportedKinds ==
    {kind \in {"race", "error", "assertion", "deadlock", "cycle", "bound"} :
        \/ kind = "race" /\ result.first_race # {}
        \/ kind = "error" /\ result.first_error # {}
        \/ kind = "assertion" /\ result.first_assertion # {}
        \/ kind = "deadlock" /\ result.first_deadlock # {}
        \/ kind = "cycle" /\ result.cycles_detected > 0
        \/ kind = "bound" /\ result.bound_exceeded_executions > 0}

\* The reduction loses no class of outcome and invents none: a search that ends below
\* its cap reports a race, an error, an assertion failure, a deadlock, a cycle or a
\* bounded path exactly when a search of all interleavings meets one
\* (explore_dpor against explore_naive).
SameKinds == Finished /\ ~capped => ReportedKinds = Explore.kinds

\* The reduction loses no fairness class of cycles: explore_dpor counts a fair, a
\* strongly unfair or an unfair cycle exactly when a search of all interleavings meets
\* one ("a missing class is a soundness failure", INVARIANTS.md).
SameCycleClasses == Finished /\ ~capped => ReportedClasses = Explore.classes

\* The reduction loses no final state: the complete executions of explore_dpor end in
\* the same behavioral states as those of all the interleavings.
SameTerminals == Finished /\ ~capped => ends = Explore.terminals

-----------------------------------------------------------------------------
\* The states of the path: those of the open frames, then that of the call.
PathStates ==
    [i \in DOMAIN nodes |-> nodes[i].state] \o SetToSeq({c.state : c \in call})

\* While it runs, the shared state_history is, between any two steps of the recursion,
\* the map of the path from the root to the current frame: what PathHistoryRestore
\* leaves behind after a return, a cut or a cap is neither a stale state of an abandoned
\* branch nor a hole, and no behavioral state occurs twice on the path.
HistoryExact ==
    ~Finished /\ requires_cycle_detection(program) =>
        /\ history = {[key |-> behavioral_state_fingerprint(PathStates[i]), position |-> i - 1] :
                        i \in DOMAIN PathStates}
        /\ \A g, h \in history : g.key = h.key => g = h

\* A step that sleeps at a frame was taken at this frame or at an earlier one, and
\* every transition of the path since then commutes with it: what the sleep sets
\* prune has been explored.
SleepCovered ==
    \A k \in DOMAIN nodes : \A step \in nodes[k].sleep :
        \E i \in 1 .. k :
            /\ step \in nodes[i].done
            /\ \A j \in i .. k - 1 :
                  /\ step \in EnabledSteps(nodes[j])
                  /\ transitions_independent_at_node(program, nodes[j],
                         nodes[j].enabled_transitions[step], trace[j])

-----------------------------------------------------------------------------
Abstract == INSTANCE Exploration WITH schedules <- terminal_schedules

\* dpor_dfs counts each execution once, however the recursion unwinds when the cap is met,
\* by what the replay of its schedule shows, and keeps the first report of every kind with
\* a schedule that replays to it.
ImplementsExploration == Abstract!Spec
=============================================================================
