-------------------------------- MODULE Naive --------------------------------
(***************************************************************************)
(* The exhaustive search: dfs, and collect_naive_schedules_dfs, which has  *)
(* the same control and lists the schedules dfs counts                     *)
(* (src/model/checker.cpp).  The recursion is a stack of frames; the steps *)
(* enabled in the state of a frame are taken in their order.               *)
(***************************************************************************)
EXTENDS Report

VARIABLES
    frames,          \* the open calls: each its state and the steps still to be taken
    schedule,        \* state.schedule of the last frame
    history,         \* StateHistory& state_history
    schedules        \* the schedules counted (collect_naive_schedules)

vars == <<params, result, frames, schedule, history, schedules>>

Frame(s) == [state |-> s, rest |-> enabled_steps(program, s)]

Init ==
    /\ program \in Programs
    /\ memory_model \in MemoryModels
    /\ max_schedules \in ScheduleCaps
    /\ LET s == initial_state(program, memory_model)
       IN  frames = <<Frame(s)>> /\ history = initial_state_history(program, s)
    /\ schedule = <<>> /\ schedules = <<>>
    /\ result = NoResult

Top == frames[Len(frames)]
NextStep == LeastStep(Top.rest)
Finished == frames = <<>>

\* The last frame returns, and its caller restores the history.
Pop ==
    /\ frames' = Front(frames)
    /\ schedule' = IF schedule = <<>> THEN schedule ELSE Front(schedule)
    /\ history' = IF schedule = <<>> THEN history ELSE Restored(history, Len(schedule))

\* A state without enabled steps: the program is done, or deadlocked.
Leaf ==
    /\ ~Finished /\ ~capped
    /\ enabled_steps(program, Top.state) = {}
    /\ result' = WithDeadlock(WithLeaf(result), program, Top.state, schedule)
    /\ schedules' = Append(schedules, schedule)
    /\ Pop
    /\ UNCHANGED params

\* All steps have been taken, or the cap is met.
Return ==
    /\ ~Finished
    /\ capped \/ (Top.rest = {} /\ enabled_steps(program, Top.state) # {})
    /\ Pop
    /\ UNCHANGED <<params, result, schedules>>

-----------------------------------------------------------------------------
Taking == ~Finished /\ ~capped /\ Top.rest # {}

\* Variant: a path that is cut takes its siblings with it.
CutsSiblings(step) == [frames EXCEPT ![Len(frames)].rest = {}]

WithoutStep(step) == [frames EXCEPT ![Len(frames)].rest = @ \ {step}]

\* A path that ends with its next step, and the result r.
CountPath(r, step) ==
    /\ result' = r
    /\ schedules' = Append(schedules, Append(schedule, step))
    /\ frames' = WithoutStep(step)
    /\ UNCHANGED <<params, schedule, history>>

BoundLeaf ==
    /\ Taking
    /\ step_bound_reached(Top.state, NextStep.thread)
    /\ CountPath(record_bound_exceeded(result), NextStep)

FailureLeaf(step, outcome, reported) ==
    /\ Failed(outcome)
    /\ CountPath(WithLeaf(reported), step)

CycleLeaf(step, outcome, reported) ==
    /\ ~Failed(outcome)
    /\ \E start \in CycleStart(history, outcome.state) :
       \E report \in make_nontermination_report(program, Append(schedule, step), start,
                                                memory_model) :
          CountPath(record_nontermination(reported, report), step)

Descend(step, outcome, reported) ==
    /\ ~Failed(outcome)
    /\ CycleStart(history, outcome.state) = {}
    /\ frames' = Append(WithoutStep(step), Frame(outcome.state))
    /\ schedule' = Append(schedule, step)
    /\ history' = Observed(program, history, outcome.state, Len(schedule) + 1)
    /\ result' = reported
    /\ UNCHANGED <<params, schedules>>

TakeStep ==
    /\ Taking
    /\ ~step_bound_reached(Top.state, NextStep.thread)
    /\ LET step == NextStep
           outcome == execute_enabled_step(program, Top.state, step)
           reported == WithStepReport(result, outcome.report, Append(schedule, step))
       IN  \/ FailureLeaf(step, outcome, reported)
           \/ CycleLeaf(step, outcome, reported)
           \/ Descend(step, outcome, reported)

Next == Leaf \/ Return \/ BoundLeaf \/ TakeStep

Spec == Init /\ [][Next \/ (Finished /\ UNCHANGED vars)]_vars

-----------------------------------------------------------------------------
Abstract == INSTANCE Exploration

\* dfs counts each complete execution once, by what its replay shows, and keeps the
\* first report of every kind with a schedule that replays to it.
ImplementsExploration == Abstract!Spec

-----------------------------------------------------------------------------
(***************************************************************************)
(* The schedules there are: every way to go on from the initial state,     *)
(* step by step and without a search order.  Executions[n] has those of n  *)
(* steps that go on, with the states they passed through, and the complete *)
(* ones of at most n steps.                                                *)
(***************************************************************************)
\* The execution ends with this outcome, after states.
Closes(states, outcome) ==
    \/ Failed(outcome)
    \/ /\ requires_cycle_detection(program)
       /\ \E i \in DOMAIN states : behavioral_state_fingerprint(states[i]) =
                                       behavioral_state_fingerprint(outcome.state)

\* The executions one step longer: complete, or to be continued.
Longer(e, step) ==
    LET extended == Append(e.schedule, step)
        outcome == execute_enabled_step(program, Last(e.states), step)
    IN  [schedule |-> extended, states |-> Append(e.states, outcome.state),
         complete |-> \/ step_bound_reached(Last(e.states), step.thread)
                      \/ Closes(e.states, outcome)]

NoStep ==
    [open |-> {[schedule |-> <<>>, complete |-> FALSE,
                states |-> <<initial_state(program, memory_model)>>]},
     complete |-> {}]

OneStepMore(before) ==
    LET stuck == {e \in before.open : enabled_steps(program, Last(e.states)) = {}}
        longer == UNION {{Longer(e, step) : step \in enabled_steps(program, Last(e.states))} :
                          e \in before.open}
    IN  [open |-> {e \in longer : ~e.complete},
         complete |-> before.complete \cup
             {e.schedule : e \in stuck \cup {l \in longer : l.complete}}]

Executions ==
    LET last == NumThreads * StepBound + 1
        executions[n \in 0 .. last] ==
            IF n = 0 THEN NoStep ELSE OneStepMore(executions[n - 1])
    IN  executions[last].complete

\* The lexicographic order of schedules.
Earlier(a, b) ==
    \E i \in DOMAIN a \cap DOMAIN b :
        StepLess(a[i], b[i]) /\ \A j \in 1 .. i - 1 : a[j] = b[j]

\* The search is the exhaustive one it is compared as, also under a cap: what it counts
\* are, each once and in lexicographic order, all complete schedules of the program, or
\* as many of the first as the cap allows; only a search at its cap leaves any out.
ExactSearch ==
    Finished =>
        /\ \A i \in 1 .. Len(schedules) - 1 : Earlier(schedules[i], schedules[i + 1])
        /\ Len(schedules) <= max_schedules
        /\ \A all \in {Executions} :
              /\ Range(schedules) \subseteq all
              /\ \A left \in all \ Range(schedules) :
                    Len(schedules) = max_schedules /\
                        (schedules # <<>> => Earlier(Last(schedules), left))
=============================================================================
