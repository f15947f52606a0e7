-------------------------------- MODULE Lasso --------------------------------
(***************************************************************************)
(* Replay of given steps and the report of a nonterminating execution: a   *)
(* stem, a cycle that returns to its first behavioral state, and how fair  *)
(* the endless repetition of the cycle is to the threads that take no part *)
(* in it (src/model/checker.cpp).                                          *)
(***************************************************************************)
EXTENDS PathHistory, SequencesExt

Failed(outcome) == outcome.report.error # {} \/ outcome.report.assertion # {}

\* The checks before a step of a given schedule; the code throws on the first that
\* fails, the model only tells that one does.
validate_replay_step(p, s, step) ==
    /\ step.thread \in ThreadId
    /\ IF is_flush_step(step)
       THEN /\ s.memory_model # "SC"
            /\ (s.memory_model = "TSO") = (step.flush_address = NoFlushAddress)
       ELSE /\ step.flush_address = NoFlushAddress
            /\ step.action_index < Len(p[step.thread])
            /\ step.action_index = s.pc[step.thread]
    /\ step \in enabled_steps(p, s)

-----------------------------------------------------------------------------
\* One more step: it is refused, or executed; replays is FALSE once a step is refused or
\* ends the execution.
RetraceStep(p, run, step) ==
    LET After(outcome) ==
            [states |-> Append(run.states, outcome.state), replays |-> ~Failed(outcome)]
    IN  IF run.replays /\ validate_replay_step(p, Last(run.states), step)
        THEN After(execute_enabled_step(p, Last(run.states), step))
        ELSE [run EXCEPT !.replays = FALSE]

\* The states of an execution that takes the steps of a schedule, the initial one first.
Retrace(p, schedule, memory_model) ==
    LET after[n \in 0 .. Len(schedule)] ==
            IF n = 0 THEN [states |-> <<initial_state(p, memory_model)>>, replays |-> TRUE]
            ELSE RetraceStep(p, after[n - 1], schedule[n])
    IN  after[Len(schedule)]

\* Variant: the threads of the stem count as participants.
EveryThreadScheduled(schedule, cycle_start) == {schedule[i].thread : i \in DOMAIN schedule}

participants(schedule, cycle_start) ==
    {schedule[i].thread : i \in cycle_start + 1 .. Len(schedule)}

\* What one turn of the cycle enables for the threads that take no step in it: one that
\* always has a step is postponed unfairly; one that has a step now and then only a
\* strongly fair scheduler would serve.
classify_fairness(p, turn, others) ==
    LET enabled == [t \in others |->
                       {enabled_steps_for_thread(p, turn[i], t) : i \in DOMAIN turn}]
        always == {t \in others : {} \notin enabled[t]}
        sometimes == {t \in others : enabled[t] # {{}}}
    IN  CASE always # {} -> "UnfairScheduleWitness"
          [] always = {} /\ sometimes # {} -> "StronglyUnfairScheduleWitness"
          [] sometimes = {} -> "FairDivergence"

\* The report, or {} where the code throws: the schedule does not replay, or its cycle
\* does not close.
LassoReport(p, schedule, cycle_start, replays, turn) ==
    IF replays /\ behavioral_state_fingerprint(Head(turn)) = behavioral_state_fingerprint(Last(turn))
    THEN {[fairness |-> classify_fairness(p, turn,
                            ThreadId \ participants(schedule, cycle_start)),
           stem |-> SubSeq(schedule, 1, cycle_start),
           cycle |-> SubSeq(schedule, cycle_start + 1, Len(schedule))]}
    ELSE {}

make_nontermination_report(p, schedule, cycle_start, memory_model) ==
    UNION {LassoReport(p, schedule, cycle_start, run.replays,
                       SubSeq(run.states, cycle_start + 1, Len(run.states))) :
             run \in {Retrace(p, schedule, memory_model)}}
=============================================================================
