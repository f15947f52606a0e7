------------------------------- MODULE Checker -------------------------------
(***************************************************************************)
(* A whole run of the tool after its search: explore_naive and explore_dpor*)
(* minimize the reports of the search one by one (src/model/checker.cpp),  *)
(* the check command prints the result, and the user gives the schedule it *)
(* ends with to the replay command (src/cli/main.cpp).                     *)
(*                                                                         *)
(* The search is explore_dpor's.  An exception ends the tool with exit     *)
(* code 2; here the stage is then never left, which is a deadlock.         *)
(***************************************************************************)
EXTENDS DporProps, Minimizer, Report

CONSTANT ReplayBound   \* the step bound of run_replay, kDefaultStepBound

ASSUME ReplayBoundAssumption == ReplayBound \in Nat \ {0}

VARIABLES
    stage,           \* "search", "minimize", "printed", "replayed"
    kinds,           \* the kinds whose report is still to be minimized
    report,          \* {the report of the check}
    replay_report    \* {the report of the replay}, {} if it is rejected

cvars == <<mvars, stage, kinds, report, replay_report>>

CheckerInit ==
    /\ MinimizerInit
    /\ stage = "search" /\ kinds = <<>> /\ report = {} /\ replay_report = {}

\* The search has returned.
BeginMinimization ==
    /\ stage = "search"
    /\ stage' = "minimize"
    /\ kinds' = <<"race", "deadlock", "error", "assertion">>
    /\ result' = [result EXCEPT !.exploration_capped = capped]
    /\ UNCHANGED <<mvars, report, replay_report>>

\* minimized_race_report and its siblings, in this order.
MinimizeNext ==
    /\ stage = "minimize" /\ phase = "off" /\ kinds # <<>>
    /\ LET kind == Head(kinds)
       IN  \/ /\ FirstOfKind(result)[kind] = {}
              /\ kinds' = Tail(kinds)
              /\ UNCHANGED mvars
           \/ /\ \E found \in FirstOfKind(result)[kind] :
                    FirstPass([NoBug EXCEPT ![kind] = identities_of(result)[kind]],
                              found.schedule)
              /\ UNCHANGED kinds
    /\ UNCHANGED <<result, stage, report, replay_report>>

FieldOf == [race |-> "first_race", deadlock |-> "first_deadlock", error |-> "first_error",
            assertion |-> "first_assertion"]

\* The report of the minimized schedule takes the place of the one found.
TakeOver ==
    /\ stage = "minimize" /\ phase = "done"
    /\ \E r \in replayed :
          result' = [result EXCEPT ![FieldOf[Head(kinds)]] = FirstOfKind(r)[Head(kinds)]]
    /\ phase' = "off"
    /\ kinds' = Tail(kinds)
    /\ UNCHANGED <<target, minimized, changed, tid, candidate, pending, replayed>>
    /\ UNCHANGED <<stage, report, replay_report>>

PrintCheck ==
    /\ stage = "minimize" /\ kinds = <<>>
    /\ report' = print_report(program, result, StepBound, memory_model)
    /\ stage' = "printed"
    /\ UNCHANGED <<mvars, result, kinds, replay_report>>

ReplayPrinted ==
    /\ stage = "printed" /\ has_bug(result)
    /\ \E printed \in report :
          replay_report' = run_replay(program, printed.schedule, ReplayBound, memory_model)
    /\ stage' = "replayed"
    /\ UNCHANGED <<mvars, result, kinds, report>>

Conclude ==
    \/ BeginMinimization
    \/ MinimizeNext
    \/ Minimize /\ UNCHANGED <<result, stage, kinds, report, replay_report>>
    \/ TakeOver
    \/ PrintCheck
    \/ ReplayPrinted

Concluded == stage = "replayed" \/ (stage = "printed" /\ ~has_bug(result))

\* A check, from the search to the replay of its report.
CInit == PInit /\ CheckerInit

CNext ==
    \/ stage = "search" /\ Search /\ UNCHANGED cvars
    \/ /\ Finished /\ Conclude
       /\ UNCHANGED <<params, call, nodes, trace, history, terminal_schedules, ends>>
    \/ Concluded /\ UNCHANGED <<vars, ends, cvars>>

CSpec == CInit /\ [][CNext]_<<vars, ends, cvars>>

-----------------------------------------------------------------------------
\* "For a reproducing bug schedule, replay must produce the same verdict and bug details
\* as check" (adr/0008-cli.md): unless the search was capped, the schedule lines of a
\* report are accepted by the replay command, whose report has the same verdict, the same
\* details and the same schedule.
VerdictReplays ==
    stage = "replayed" /\ ~result.exploration_capped =>
        \A a \in report : \E b \in replay_report :
            a.verdict = b.verdict /\ a.details = b.details /\ a.schedule = b.schedule

\* In the trace of a report the release-and-sleep phase of a Wait is labelled "(sleep)"
\* and its reacquisition "(reacquire)" (adr/0008-cli.md), though print_trace only counts
\* how often the step has occurred; in a loop the count is wrong from the second wait on.
PhasesRendered ==
    \A a \in report :
        stage = "printed" /\ has_bug(result) /\ ~requires_cycle_detection(program) =>
            \A replay \in {ReplayLoop(program, bug_schedule(result), StepBound, memory_model)} :
                \A i \in DOMAIN a.trace : a.trace[i] \in {"(sleep)", "(reacquire)"} =>
                    (a.trace[i] = "(sleep)") =
                        (replay.effective[i].effective_action.kind \in WaitKinds)
=============================================================================
