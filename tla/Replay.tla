------------------------------- MODULE Replay -------------------------------
(***************************************************************************)
(* replay_schedule and replay_effective_trace of src/model/checker.cpp: a  *)
(* given schedule is executed step by step, and refused if a step is not   *)
(* enabled or follows the end of the execution.                            *)
(***************************************************************************)
EXTENDS Search, Independence

\* A replay before its first step.  It is "running" until an outcome ends the execution;
\* a "rejected" schedule is the exception the code throws.
ReplayStart(p, model) ==
    LET s == initial_state(p, model)
    IN  [phase |-> "running", state |-> s, history |-> initial_state_history(p, s),
         taken |-> <<>>, effective |-> <<>>, result |-> NoResult]

Ended(replay, taken, r) ==
    [replay EXCEPT !.phase = "ended", !.taken = taken, !.result = r]

\* What follows the execution of the last step of taken.
AfterStep(p, replay, taken, outcome) ==
    LET reported == WithStepReport(replay.result, outcome.report, taken)
        starts == {c \in CycleStart(replay.history, outcome.state) : ~Failed(outcome)}
        continued == [replay EXCEPT !.state = outcome.state, !.taken = taken, !.result = reported,
                                    !.history = Observed(p, @, outcome.state, Len(taken))]
    IN  CASE Failed(outcome) -> Ended(replay, taken, WithLeaf(reported))
          [] starts # {} ->
               Ended(replay, taken, record_nontermination(reported,
                   CHOOSE report \in make_nontermination_report(p, taken, Min(starts),
                                         outcome.state.memory_model) : TRUE))
          [] OTHER -> continued

\* {the waiters a Broadcast wakes}, {} for another action.
broadcast_waking_set_for(s, a) ==
    IF a.kind = "Broadcast" THEN {s.condition_waiters[a.condition]} ELSE {}

\* An entry of the effective trace: what the step really does at this state.
effective_step(p, s, step) ==
    LET a == effective_action_for_step(p, s, step)
    IN  [endpoint |-> step, effective_action |-> a,
         broadcast_waking_set |-> broadcast_waking_set_for(s, a),
         timed_wait |-> timed_wait_occurrence_for(s, step.thread, a)]

\* Variant: the step at the bound is still executed.
ReplayBeyondBound(p, step_bound, replay, step) ==
    IF replay.state.thread_steps[step.thread] > step_bound
    THEN Ended(replay, Append(replay.taken, step), record_bound_exceeded(replay.result))
    ELSE AfterStep(p,
             [replay EXCEPT !.effective = Append(@, effective_step(p, replay.state, step))],
             Append(replay.taken, step),
             execute_enabled_step(p, replay.state, step))

\* One iteration of the loop, for a valid step.
TakeReplayStep(p, step_bound, replay, step) ==
    IF replay.state.thread_steps[step.thread] >= step_bound
    THEN Ended(replay, Append(replay.taken, step), record_bound_exceeded(replay.result))
    ELSE AfterStep(p,
             [replay EXCEPT !.effective = Append(@, effective_step(p, replay.state, step))],
             Append(replay.taken, step),
             execute_enabled_step(p, replay.state, step))

\* Variant: the stores that the end of the execution leaves in a PSO buffer can still be
\* flushed.
DrainAfterEnd(p, step_bound, replay, step) ==
    IF /\ \/ replay.phase = "running"
          \/ replay.phase = "ended" /\ step.flush_address # NoFlushAddress
       /\ validate_replay_step(p, replay.state, step)
    THEN TakeReplayStep(p, step_bound, replay, step)
    ELSE [replay EXCEPT !.phase = "rejected"]

ReplayStep(p, step_bound, replay, step) ==
    IF replay.phase = "running" /\ validate_replay_step(p, replay.state, step)
    THEN TakeReplayStep(p, step_bound, replay, step)
    ELSE [replay EXCEPT !.phase = "rejected"]

ReplayLoop(p, schedule, step_bound, model) ==
    LET after[n \in 0 .. Len(schedule)] ==
            IF n = 0 THEN ReplayStart(p, model)
            ELSE ReplayStep(p, step_bound, after[n - 1], schedule[n])
    IN  after[Len(schedule)]

\* The CheckResult, or {} for a rejected schedule.
ReplayResult(p, schedule, replay) ==
    CASE replay.phase = "rejected" -> {}
      [] replay.phase = "running" /\ ~any_enabled(p, replay.state) ->
           {WithDeadlock(WithLeaf(replay.result), p, replay.state, schedule)}
      [] OTHER -> {replay.result}

replay_schedule(p, schedule, step_bound, model) ==
    ReplayResult(p, schedule, ReplayLoop(p, schedule, step_bound, model))

\* The replay of the schedule of a search: the step bound is the same.
ReplayOf(p, schedule, model) == replay_schedule(p, schedule, StepBound, model)

-----------------------------------------------------------------------------
(***************************************************************************)
(* The bugs a replay shows, as the minimizer and the reports identify them.*)
(***************************************************************************)
\* A race is an address and the unordered pair of its endpoints.
race_identity(race) == [address |-> race.address, endpoints |-> {race.first, race.second}]

identities_of(r) ==
    [race |-> {race_identity(f.report) : f \in r.first_race},
     deadlock |-> {f.report : f \in r.first_deadlock},
     error |-> {f.report.endpoint : f \in r.first_error},
     assertion |-> {f.report : f \in r.first_assertion}]

FirstOfKind(r) == [race |-> r.first_race, deadlock |-> r.first_deadlock,
                   error |-> r.first_error, assertion |-> r.first_assertion]

BugKinds == {"race", "deadlock", "error", "assertion"}
NoBug == [kind \in BugKinds |-> {}]

reproduces_identities(r, target) ==
    \A kind \in BugKinds : target[kind] # {} => identities_of(r)[kind] = target[kind]

-----------------------------------------------------------------------------
(***************************************************************************)
(* inspect_replay_schedule: a replay that records for each step what it    *)
(* changed, for renderers that show an execution without an interpreter of *)
(* their own.                                                              *)
(***************************************************************************)
\* A clock as a vector with a component for every thread of the program.
dense_clock(clock) == [i \in 1 .. NumThreads |-> clock[i - 1]]

\* The pending stores of t, under PSO one address after the other.
observed_buffer(s, t) ==
    CASE s.memory_model = "SC" -> <<>>
      [] s.memory_model = "TSO" -> s.store_buffers[t]
      [] s.memory_model = "PSO" ->
           FoldLeft(LAMBDA stores, x :
                       stores \o [i \in DOMAIN s.pso_store_buffers[t][x] |->
                                     [address |-> x, value |-> s.pso_store_buffers[t][x][i]]],
                    <<>>, AddressOrder)

\* Variant: only the registers of the thread that takes the step are compared.
OwnRegisterEffects(s, next, step) ==
    {[thread |-> step.thread, reg |-> r, before |-> s.registers[step.thread][r],
      after |-> next.registers[step.thread][r]] :
        r \in {q \in Register : s.registers[step.thread][q] # next.registers[step.thread][q]}}

\* A step may write a register of another thread: the result of a timed wait it wakes.
register_effects(s, next, step) ==
    {[thread |-> c[1], reg |-> c[2], before |-> s.registers[c[1]][c[2]],
      after |-> next.registers[c[1]][c[2]]] :
        c \in {d \in ThreadId \X Register :
                 s.registers[d[1]][d[2]] # next.registers[d[1]][d[2]]}}

buffer_effects(s, next) ==
    {[thread |-> t, before |-> observed_buffer(s, t), after |-> observed_buffer(next, t)] :
        t \in {u \in ThreadId : observed_buffer(s, u) # observed_buffer(next, u)}}

memory_effects(p, s, next) ==
    {[address |-> x, before |-> s.memory_values[x], after |-> next.memory_values[x]] :
        x \in {y \in program_addresses(p) : s.memory_values[y] # next.memory_values[y]}}

\* What is known of a step before it executes.
Before(p, s, step) ==
    effective_step(p, s, step) @@
    [executed |-> FALSE, enabled_before |-> enabled_steps(p, s),
     clock_before |-> dense_clock(s.thread_clock[step.thread]),
     clock_after |-> dense_clock(s.thread_clock[step.thread]),
     registers |-> {}, memory |-> {}, buffers |-> {}]

After(p, s, step, next) ==
    [Before(p, s, step) EXCEPT
        !.executed = TRUE,
        !.clock_after = dense_clock(next.thread_clock[step.thread]),
        !.registers = register_effects(s, next, step),
        !.memory = memory_effects(p, s, next),
        !.buffers = buffer_effects(s, next)]

\* An inspection before its first step; its phases are those of a replay.
InspectionStart(p, model) ==
    LET s == initial_state(p, model)
    IN  [phase |-> "running", state |-> s, history |-> initial_state_history(p, s), steps |-> <<>>]

InspectOutcome(p, run, step, outcome) ==
    [phase |-> IF Failed(outcome) \/ CycleStart(run.history, outcome.state) # {}
               THEN "ended" ELSE "running",
     state |-> outcome.state,
     history |-> Observed(p, run.history, outcome.state, Len(run.steps) + 1),
     steps |-> Append(run.steps, After(p, run.state, step, outcome.state))]

InspectStep(p, step_bound, run, step) ==
    CASE run.phase # "running" \/ ~validate_replay_step(p, run.state, step) ->
           [run EXCEPT !.phase = "rejected"]
      [] run.phase = "running" /\ validate_replay_step(p, run.state, step)
            /\ run.state.thread_steps[step.thread] >= step_bound ->
           [run EXCEPT !.phase = "ended", !.steps = Append(@, Before(p, run.state, step))]
      [] OTHER -> InspectOutcome(p, run, step, execute_enabled_step(p, run.state, step))

\* {the inspected steps}, or {} for a rejected schedule.
inspect_replay_schedule(p, s, step_bound, model) ==
    {run.steps : run \in
        {r \in {FoldLeft(LAMBDA run, step : InspectStep(p, step_bound, run, step),
                         InspectionStart(p, model), s)} : r.phase # "rejected"}}
=============================================================================
