------------------------------- MODULE Search -------------------------------
(***************************************************************************)
(* What the two searches of src/model/checker.cpp share: the parameters of *)
(* a ModelChecker and of a call, and the CheckResult they fill in.         *)
(***************************************************************************)
EXTENDS Lasso

CONSTANTS
    MemoryModels,    \* the memory models explored
    StepBound,       \* step_bound_, greater than zero
    ScheduleCaps     \* the values of max_schedules explored

ASSUME SearchAssumption ==
    StepBound \in Nat \ {0} /\ MemoryModels \subseteq MemoryModel /\ ScheduleCaps \subseteq Nat

VARIABLES
    program,         \* program_
    memory_model,    \* memory_model_
    max_schedules,   \* the schedule cap of the call
    result           \* CheckResult& result

params == <<program, memory_model, max_schedules>>

step_bound_reached(s, t) == s.thread_steps[t] >= StepBound

NoResult ==
    [exploration_capped |-> FALSE, schedules_explored |-> 0, bound_exceeded_executions |-> 0,
     cycles_detected |-> 0, fair_cycles |-> 0, unfair_cycles |-> 0, strongly_unfair_cycles |-> 0,
     first_race |-> {}, first_error |-> {}, first_assertion |-> {}, first_deadlock |-> {},
     first_nontermination |-> {}]

\* The fields of a result that count executions.
CountFields == {"schedules_explored", "bound_exceeded_executions", "cycles_detected", "fair_cycles",
             "unfair_cycles", "strongly_unfair_cycles"}

capped == result.schedules_explored >= max_schedules

\* A report carries the schedule that led to it.
At(reports, schedule) == {[report |-> r, schedule |-> schedule] : r \in reports}

\* Variant: a later report replaces the first one.
WithLastReport(r, report, schedule) ==
    [r EXCEPT !.first_race = FirstNonempty(At(report.race, schedule), @),
              !.first_error = FirstNonempty(At(report.error, schedule), @),
              !.first_assertion = FirstNonempty(At(report.assertion, schedule), @)]

\* record_step_report: each kind of report is kept the first time it occurs.
WithStepReport(r, report, schedule) ==
    [r EXCEPT !.first_race = FirstNonempty(@, At(report.race, schedule)),
              !.first_error = FirstNonempty(@, At(report.error, schedule)),
              !.first_assertion = FirstNonempty(@, At(report.assertion, schedule))]

WithLeaf(r) == [r EXCEPT !.schedules_explored = @ + 1]

WithDeadlock(r, p, s, schedule) ==
    IF all_finished(p, s) THEN r
    ELSE [r EXCEPT !.first_deadlock =
             FirstNonempty(@, At({make_deadlock_report(p, s)}, schedule))]

record_bound_exceeded(r) == [WithLeaf(r) EXCEPT !.bound_exceeded_executions = @ + 1]

record_nontermination(r, report) ==
    LET class == report.fairness
        One(c) == IF c = class THEN 1 ELSE 0
    IN  [WithLeaf(r) EXCEPT
            !.cycles_detected = @ + 1,
            !.unfair_cycles = @ + One("UnfairScheduleWitness"),
            !.strongly_unfair_cycles = @ + One("StronglyUnfairScheduleWitness"),
            !.fair_cycles = @ + One("FairDivergence"),
            !.first_nontermination = FirstNonempty(@, {report})]
=============================================================================
