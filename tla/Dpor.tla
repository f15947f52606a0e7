-------------------------------- MODULE Dpor --------------------------------
(***************************************************************************)
(* The reduced search, explore_dpor and dpor_dfs of src/model/checker.cpp. *)
(*                                                                         *)
(* nodes is the stack of frames of the recursion; call holds the node that *)
(* a call of dpor_dfs is about to push, or is empty.  An action is what a  *)
(* frame does between two calls: begin (Terminal, SleepBlocked, Open), one *)
(* iteration of its loop, or return (Close).                               *)
(***************************************************************************)
EXTENDS DporBacktrack, Search

VARIABLES
    call,            \* {} or {the node of the call}
    nodes,           \* std::vector<DporNode>& nodes
    trace,           \* std::vector<ExecutedTransition>& trace
    history,         \* StateHistory& state_history
    terminal_schedules   \* std::vector<Schedule>* terminal_schedules

vars == <<params, call, nodes, trace, history, result, terminal_schedules>>

Schedule(t) == [i \in DOMAIN t |-> t[i].endpoint]

-----------------------------------------------------------------------------
Init ==
    /\ program \in Programs
    /\ max_schedules \in ScheduleCaps
    /\ memory_model \in MemoryModels
    /\ LET s == initial_state(program, memory_model)
       IN  /\ call = {Node(program, s)}
           /\ history = initial_state_history(program, s)
    /\ nodes = <<>> /\ trace = <<>>
    /\ result = NoResult
    /\ terminal_schedules = <<>>

\* The frame above ns returns: the caller restores the history, drops the transition
\* and puts it to sleep.  The first call has no caller.
ReturnTo(ns) ==
    /\ call' = {}
    /\ history' = IF trace = <<>> THEN history ELSE Restored(history, Len(trace))
    /\ trace' = IF trace = <<>> THEN trace ELSE Front(trace)
    /\ nodes' = IF trace = <<>> THEN ns
                ELSE [ns EXCEPT ![Len(ns)].sleep = @ \cup {Last(trace).endpoint}]

-----------------------------------------------------------------------------
(***************************************************************************)
(* A frame begins.                                                         *)
(***************************************************************************)
\* A call beyond the cap returns at once.
CallCapped ==
    /\ call # {} /\ capped
    /\ ReturnTo(nodes)
    /\ UNCHANGED <<params, result, terminal_schedules>>

Terminal ==
    /\ ~capped
    /\ \E c \in call :
          /\ EnabledSteps(c) = {}
          /\ ReturnTo(IF all_finished(program, c.state) THEN nodes
                      ELSE add_disabled_backtracks(program, c, nodes, trace))
          /\ result' = WithDeadlock(WithLeaf(result), program, c.state, Schedule(trace))
    /\ terminal_schedules' = Append(terminal_schedules, Schedule(trace))
    /\ UNCHANGED params

\* Every enabled step sleeps: an equivalent execution has been explored.
SleepBlocked ==
    /\ ~capped
    /\ \E c \in call :
          /\ EnabledSteps(c) # {}
          /\ EnabledSteps(c) \subseteq c.sleep
          /\ ReturnTo(IF all_finished(program, c.state) THEN nodes
                      ELSE add_disabled_backtracks(program, c, nodes, trace))
    /\ UNCHANGED <<params, result, terminal_schedules>>

Open ==
    /\ ~capped
    /\ \E c \in call :
          /\ ~(EnabledSteps(c) \subseteq c.sleep)
          /\ nodes' = Append(nodes, initialize_dpor_backtrack(program, c))
    /\ call' = {}
    /\ UNCHANGED <<params, trace, history, result, terminal_schedules>>

-----------------------------------------------------------------------------
(***************************************************************************)
(* The loop of the top frame.  A step of the backtrack set that is not     *)
(* enabled or is asleep is only marked done on the way to the next one.    *)
(***************************************************************************)
Top == nodes[Len(nodes)]
Unexplored == Top.backtrack \ Top.done
Candidates == (Unexplored \cap EnabledSteps(Top)) \ Top.sleep
NextStep == LeastStep(Candidates)
Passed == {step \in Unexplored : step = NextStep \/ StepLess(step, NextStep)}

InLoop == call = {} /\ nodes # <<>> /\ ~capped /\ Candidates # {}

\* Variant: a path that ends early leaves its node as it is.
DropSiblings(n) == n

\* An outcome that ends the path keeps every sibling: nothing here may sleep.
KeepSiblings(n) == [n EXCEPT !.sleep = {}, !.backtrack = @ \cup EnabledSteps(n)]
Asleep(n, step) == [n EXCEPT !.sleep = @ \cup {step}]

BoundLeaf ==
    /\ InLoop
    /\ step_bound_reached(Top.state, NextStep.thread)
    /\ nodes' = [nodes EXCEPT ![Len(nodes)] =
                    Asleep(KeepSiblings([Top EXCEPT !.done = @ \cup Passed]), NextStep)]
    /\ result' = record_bound_exceeded(result)
    /\ terminal_schedules' =
          Append(terminal_schedules, Append(Schedule(trace), NextStep))
    /\ UNCHANGED <<params, call, trace, history>>

Outcome == execute_enabled_step(program, Top.state, NextStep)

Executed(outcome) ==
    LET l == Top.enabled_transitions[NextStep]
    IN  [endpoint |-> NextStep, effective_action |-> l.effective_action,
         occurrence |-> l.occurrence,
         clock |-> outcome.state.thread_clock[NextStep.thread],
         spawned_thread |-> outcome.report.spawned_thread]

CanExecute == InLoop /\ ~step_bound_reached(Top.state, NextStep.thread)

\* The nodes after the transition's own backtracks.
WithTransition(extended) ==
    add_backtracks_for_transition(
        program, [nodes EXCEPT ![Len(nodes)].done = @ \cup Passed], extended)

(***************************************************************************)
(* What follows the execution of NextStep: the outcome, the trace extended *)
(* with its transition, and the nodes ns with the transition's backtracks. *)
(***************************************************************************)
\* A modeled error or an assertion failure ends the path.
FailureLeaf(outcome, extended, ns) ==
    /\ Failed(outcome)
    /\ nodes' = [add_disabled_backtracks(program, Top, ns, extended)
                    EXCEPT ![Len(nodes)] = Asleep(KeepSiblings(@), NextStep)]
    /\ result' = WithLeaf(WithStepReport(result, outcome.report, Schedule(extended)))
    /\ terminal_schedules' = Append(terminal_schedules, Schedule(extended))
    /\ UNCHANGED <<params, call, trace, history>>

\* A behavioral state of the path recurs: the path is cut, and the step not put to sleep.
CycleCut(outcome, extended, ns) ==
    /\ ~Failed(outcome)
    /\ \E start \in CycleStart(history, outcome.state) :
       \E report \in make_nontermination_report(program, Schedule(extended), start, memory_model) :
          result' = record_nontermination(
                        WithStepReport(result, outcome.report, Schedule(extended)), report)
    /\ nodes' = [ns EXCEPT ![Len(nodes)] = KeepSiblings(@)]
    /\ terminal_schedules' = Append(terminal_schedules, Schedule(extended))
    /\ UNCHANGED <<params, call, trace, history>>

Descend(outcome, extended, ns) ==
    /\ ~Failed(outcome)
    /\ CycleStart(history, outcome.state) = {}
    /\ nodes' = ns
    /\ trace' = extended
    /\ history' = Observed(program, history, outcome.state, Len(extended))
    /\ LET next == Node(program, outcome.state)
       IN  call' = {[next EXCEPT !.sleep =
                        inherited_sleep_set(program, next, ns[Len(ns)], Last(extended))]}
    /\ result' = WithStepReport(result, outcome.report, Schedule(extended))
    /\ UNCHANGED <<params, terminal_schedules>>

TakeStep ==
    /\ CanExecute
    /\ LET outcome == Outcome
           extended == Append(trace, Executed(outcome))
           ns == WithTransition(extended)
       IN  \/ FailureLeaf(outcome, extended, ns)
           \/ CycleCut(outcome, extended, ns)
           \/ Descend(outcome, extended, ns)

Close ==
    /\ call = {} /\ nodes # <<>>
    /\ capped \/ Candidates = {}
    /\ ReturnTo(Front(nodes))
    /\ UNCHANGED <<params, result, terminal_schedules>>

Next ==
    \/ CallCapped \/ Terminal \/ SleepBlocked \/ Open
    \/ BoundLeaf \/ TakeStep \/ Close

Spec == Init /\ [][Next]_vars
=============================================================================
