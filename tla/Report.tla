------------------------------- MODULE Report -------------------------------
(***************************************************************************)
(* The report of a result (src/cli/report.cpp) and the schedule lines it   *)
(* ends with, which a replay reads again (src/cli/program_parser.cpp).     *)
(* A report is a record of what its lines say; the counters and the text   *)
(* of actions are left out, the phase a wait is labelled with is not.      *)
(***************************************************************************)
EXTENDS Replay

Priority == <<"race", "deadlock", "error", "assertion", "nontermination">>

\* Each kind of report a result may have, with its schedule.
FoundOf(r) ==
    [race |-> r.first_race, deadlock |-> r.first_deadlock, error |-> r.first_error,
     assertion |-> r.first_assertion,
     nontermination |-> {[report |-> n, schedule |-> n.stem \o n.cycle] :
                           n \in r.first_nontermination}]

ReportKinds == Range(Priority)

FoundKinds(r) == SelectSeq(Priority, LAMBDA kind : FoundOf(r)[kind] # {})
has_bug(r) == FoundKinds(r) # <<>>

verdict_of(r) ==
    CASE has_bug(r) -> Head(FoundKinds(r))
      [] ~has_bug(r) /\ r.bound_exceeded_executions > 0 -> "clean up to bound"
      [] OTHER -> "clean"

\* The report of the highest priority.
Primary(r) == CHOOSE found \in FoundOf(r)[verdict_of(r)] : TRUE
bug_schedule(r) == Primary(r).schedule

-----------------------------------------------------------------------------
is_selected_error_endpoint(r, schedule, i) ==
    \E error \in r.first_error : i = Len(schedule) /\ error.report.endpoint = schedule[i]

\* Variant: an occurrence counts for itself.
WaitLabelOffByOne(schedule, i) ==
    IF \E j \in 1 .. i : schedule[j] = schedule[i] THEN "(reacquire)" ELSE "(sleep)"

\* The label of the i-th step: a Wait is labelled by how often its endpoint has occurred
\* before, a TimedWait by what it does.
WaitLabel(schedule, i) ==
    IF \E j \in 1 .. i - 1 : schedule[j] = schedule[i] THEN "(reacquire)" ELSE "(sleep)"

TimedWaitLabel(effective) ==
    CASE effective.timed_wait # <<>> ->
           [Park |-> "(sleep)", Timeout |-> "(timeout)"][effective.timed_wait[1]]
      [] effective.timed_wait = <<>> /\ effective.effective_action.kind = "Lock" -> "(reacquire)"
      [] OTHER -> ""

StepLabel(p, r, schedule, i, effective) ==
    LET kind == IF is_flush_step(schedule[i]) THEN ""
                ELSE p[schedule[i].thread][schedule[i].action_index + 1].kind
    IN  CASE kind \notin {"Wait", "TimedWait"} \/ is_selected_error_endpoint(r, schedule, i) -> ""
          [] kind = "Wait" /\ ~is_selected_error_endpoint(r, schedule, i) ->
               WaitLabel(schedule, i)
          [] kind = "TimedWait" /\ ~is_selected_error_endpoint(r, schedule, i) ->
               TimedWaitLabel(effective)

\* {the labels of the trace}; {} where the code throws, because the schedule does not replay.
print_trace(p, r, schedule, replay) ==
    IF replay.phase # "rejected" /\ Len(replay.effective) = Len(schedule)
    THEN {[i \in DOMAIN schedule |-> StepLabel(p, r, schedule, i, replay.effective[i])]}
    ELSE {}

\* Variant: a flush is printed without its address.
PrintTwoNumbers(step) == <<step.thread, step.action_index>>

print_numeric_step(step) ==
    IF step.flush_address = NoFlushAddress THEN <<step.thread, step.action_index>>
    ELSE <<step.thread, step.action_index, step.flush_address>>

\* {the report}, {} for an exception.
print_report(p, r, step_bound, model) ==
    LET head == [verdict |-> verdict_of(r), capped |-> r.exploration_capped]
        bugs == [also_found |-> Tail(FoundKinds(r)), details |-> Primary(r).report,
                 schedule |-> [i \in DOMAIN bug_schedule(r) |->
                                  print_numeric_step(bug_schedule(r)[i])]]
    IN  IF ~has_bug(r) THEN {head}
        ELSE {[trace |-> trace] @@ bugs @@ head : trace \in
                print_trace(p, r, bug_schedule(r),
                            ReplayLoop(p, bug_schedule(r), step_bound, model))}

-----------------------------------------------------------------------------
\* A line of a schedule file: two or three numbers.
parse_step(words) ==
    [thread |-> words[1], action_index |-> words[2],
     flush_address |-> IF Len(words) = 3 THEN words[3] ELSE NoFlushAddress]

parse_schedule_file(lines) == [i \in DOMAIN lines |-> parse_step(lines[i])]

\* The replay command: {its report}, or {} for an exit with code 2.
run_replay(p, lines, step_bound, model) ==
    UNION {print_report(p, r, step_bound, model) :
             r \in replay_schedule(p, parse_schedule_file(lines), step_bound, model)}
=============================================================================
