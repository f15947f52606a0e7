-------------------------------- MODULE Path --------------------------------
(***************************************************************************)
(* The paths of dfs (src/model/checker.cpp), each with the schedule that   *)
(* leads along it and what it reports: dfs takes the enabled steps one     *)
(* after the other, this specification chooses one.  Every report of a     *)
(* search is made on such a path.                                          *)
(***************************************************************************)
EXTENDS Replay

VARIABLES
    state,           \* ExecutionState state
    schedule,        \* state.schedule
    history,         \* StateHistory& state_history
    ended            \* the path has been counted as a schedule

vars == <<params, result, state, schedule, history, ended>>

Init ==
    /\ program \in Programs
    /\ memory_model \in MemoryModels
    /\ max_schedules \in ScheduleCaps
    /\ state = initial_state(program, memory_model)
    /\ history = initial_state_history(program, state)
    /\ schedule = <<>>
    /\ result = NoResult
    /\ ended = FALSE

\* The path ends here with the result r.
End(r) ==
    /\ result' = r
    /\ ended' = TRUE
    /\ UNCHANGED <<params, state, history>>

\* No step is enabled: the program is done, or deadlocked.
Terminal ==
    /\ enabled_steps(program, state) = {}
    /\ End(WithDeadlock(WithLeaf(result), program, state, schedule))
    /\ UNCHANGED schedule

BoundLeaf(step) ==
    /\ step_bound_reached(state, step.thread)
    /\ schedule' = Append(schedule, step)
    /\ End(record_bound_exceeded(result))

FailureLeaf(outcome, reported) ==
    /\ Failed(outcome)
    /\ End(WithLeaf(reported))

CycleLeaf(outcome, reported) ==
    /\ ~Failed(outcome)
    /\ \E start \in CycleStart(history, outcome.state) :
       \E report \in make_nontermination_report(program, schedule', start, memory_model) :
          End(record_nontermination(reported, report))

Extend(outcome, reported) ==
    /\ ~Failed(outcome)
    /\ CycleStart(history, outcome.state) = {}
    /\ state' = outcome.state
    /\ history' = Observed(program, history, outcome.state, Len(schedule) + 1)
    /\ result' = reported
    /\ UNCHANGED <<params, ended>>

\* What follows a step that executes.
Outcomes(outcome, reported) ==
    \/ FailureLeaf(outcome, reported)
    \/ CycleLeaf(outcome, reported)
    \/ Extend(outcome, reported)

TakeStep(step) ==
    /\ ~step_bound_reached(state, step.thread)
    /\ schedule' = Append(schedule, step)
    /\ LET outcome == execute_enabled_step(program, state, step)
           reported == WithStepReport(result, outcome.report, Append(schedule, step))
       IN  Outcomes(outcome, reported)

Walk ==
    /\ ~ended
    /\ \/ Terminal
       \/ \E step \in enabled_steps(program, state) : BoundLeaf(step) \/ TakeStep(step)

Returned == ended /\ UNCHANGED vars

Spec == Init /\ [][Walk \/ Returned]_vars

-----------------------------------------------------------------------------
(***************************************************************************)
(* Lassos.                                                                 *)
(***************************************************************************)
\* The execution that takes the cycle twice.
Twice(report) == Retrace(program, report.stem \o report.cycle \o report.cycle, memory_model)

\* A reported cycle can be taken forever: from the state in which it closes, which
\* differs from the one in which it started in clocks, histories and counters, all its
\* steps are enabled again in the same order, none fails, and it closes again.
CycleRepeats ==
    \A report \in result.first_nontermination : \A run \in {Twice(report)} :
        /\ run.replays
        /\ behavioral_state_fingerprint(Last(run.states)) =
              behavioral_state_fingerprint(run.states[Len(report.stem) + 1])

\* The fairness of the infinite repetition of cycle through the states of turn.
Moves(cycle, t) == \E i \in DOMAIN cycle : cycle[i].thread = t
Movable(turn, t) == {i \in DOMAIN turn : enabled_steps_for_thread(program, turn[i], t) # {}}
WeaklyFair(cycle, turn) ==
    \A t \in ThreadId : Moves(cycle, t) \/ Movable(turn, t) # DOMAIN turn
StronglyFair(cycle, turn) ==
    \A t \in ThreadId : Moves(cycle, t) \/ Movable(turn, t) = {}

\* The fairness label is that of the infinite execution in which the cycle is repeated:
\* "unfair" exactly when some thread never moves though it can at every later point,
\* "fair" exactly when every thread that never moves can move at no later point
\* (make_nontermination_report looks at the first turn only, here the second counts).
FairnessExact ==
    \A report \in result.first_nontermination : \A run \in {Twice(report)} :
        LET turn == SubSeq(run.states, Len(report.stem) + Len(report.cycle) + 1, Len(run.states))
        IN  /\ report.fairness = "UnfairScheduleWitness" <=> ~WeaklyFair(report.cycle, turn)
            /\ report.fairness = "FairDivergence" <=> StronglyFair(report.cycle, turn)

-----------------------------------------------------------------------------
(***************************************************************************)
(* Replay.                                                                 *)
(***************************************************************************)
\* The schedule of every path, complete or not, is accepted by replay, which reports
\* exactly what the search reported on it: the same races, errors, assertion failures,
\* deadlocks and lassos, with the same schedules, and the same kind of end.
ReplayExact ==
    ended \/ enabled_steps(program, state) # {} =>
        replay_schedule(program, schedule, StepBound, memory_model) = {result}

\* The steps of t that a schedule can name: its actions, the flush of its TSO buffer, and
\* the flush of each address of the program under PSO.
FlushAddresses == {NoFlushAddress} \cup 0 .. Cardinality(program_addresses(program)) - 1
NamedSteps(t) ==
    {SourceStep(t, index) : index \in 0 .. Len(program[t]) - 1}
        \cup {FlushStep(t, x) : x \in FlushAddresses}

\* replay_schedule throws on the schedule of the path with this step appended.
RefusedNext(step) ==
    replay_schedule(program, Append(schedule, step), StepBound, memory_model) = {}

\* A schedule that goes on after the end of its execution is rejected, whatever step it
\* names next, the flushes of stores that are still pending included: after an error, a
\* failed assertion, a closed cycle, a step beyond the bound, or in a state without
\* enabled steps.
NoContinuation == ended => \A t \in ThreadId : \A step \in NamedSteps(t) : RefusedNext(step)

-----------------------------------------------------------------------------
(***************************************************************************)
(* A renderer of an inspection: it starts from zeros and applies the       *)
(* recorded effects.                                                       *)
(***************************************************************************)
Shown ==
    [registers |-> [t \in ThreadId |-> [r \in Register |-> 0]],
     memory |-> [x \in program_addresses(program) |-> 0],
     buffers |-> [t \in ThreadId |-> <<>>], faithful |-> TRUE]

\* The value an effect gives to what it is about, or the old one.
Rendered(old, effects) == IF effects = {} THEN old ELSE (CHOOSE e \in effects : TRUE).after

Apply(view, step) ==
    [registers |-> [t \in ThreadId |-> [r \in Register |->
        Rendered(view.registers[t][r], {e \in step.registers : e.thread = t /\ e.reg = r})]],
     memory |-> [x \in DOMAIN view.memory |->
        Rendered(view.memory[x], {e \in step.memory : e.address = x})],
     buffers |-> [t \in ThreadId |->
        Rendered(view.buffers[t], {e \in step.buffers : e.thread = t})],
     faithful |-> /\ view.faithful
                  /\ \A e \in step.registers : e.before = view.registers[e.thread][e.reg]
                  /\ \A e \in step.memory : e.before = view.memory[e.address]
                  /\ \A e \in step.buffers : e.before = view.buffers[e.thread]]

\* Applied one after the other to zeros, the recorded effects of a schedule give the
\* registers, the memory and the buffers of its last state, those of threads that did not
\* take the step included, and every effect starts from the value the ones before it gave.
EffectsExplain ==
    ~ended =>
        \E steps \in inspect_replay_schedule(program, schedule, StepBound, memory_model) :
            FoldLeft(Apply, Shown, steps) =
                [registers |-> state.registers,
                 memory |-> [x \in program_addresses(program) |-> state.memory_values[x]],
                 buffers |-> [t \in ThreadId |-> observed_buffer(state, t)], faithful |-> TRUE]
=============================================================================
