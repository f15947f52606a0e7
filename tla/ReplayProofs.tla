---------------------------- MODULE ReplayProofs ----------------------------
(***************************************************************************)
(* Replay reproduces what a path reported; the minimizer keeps the bug it  *)
(* was given and leaves no removable step; and a reported cycle repeats,   *)
(* with the fairness it is labelled with: for every program, memory model  *)
(* and step bound.                                                         *)
(***************************************************************************)
EXTENDS PathMinimizer, ReplayLemmas

-----------------------------------------------------------------------------
(***************************************************************************)
(* The invariant of a path: the loop of replay_schedule, given the schedule*)
(* of the path, stands where the path stands.                              *)
(***************************************************************************)
\* Where the loop stands after the schedule of the path.
Matches(replay) ==
    \/ ~ended /\ IsAt(replay, "running", state, history, schedule, result)
    \/ ended /\ EndedWith(replay, result)
    \/ /\ ended /\ IsAt(replay, "running", state, history, schedule, replay.result)
       /\ enabled_steps(program, state) = {}
       /\ result = WithDeadlock(WithLeaf(replay.result), program, state, schedule)

PathInv ==
    /\ program \in Programs /\ memory_model \in MemoryModel
    /\ Sound(program, state) /\ state.memory_model = memory_model
    /\ schedule \in Seq(ScheduleStep)
    /\ Unambiguous(history)
    /\ ResultFields(result)
    /\ ended \in BOOLEAN
    /\ \E after : /\ IsReplay(after, program, schedule, StepBound, memory_model)
                  /\ Matches(after[Len(schedule)])

\* A path starts in it.
LEMMA InitPathInv == Init => PathInv
<1> SUFFICES ASSUME Init PROVE PathInv
  OBVIOUS
<1>1. /\ program \in Programs /\ memory_model \in MemoryModel
      /\ state = initial_state(program, memory_model)
      /\ history = initial_state_history(program, state)
      /\ schedule = <<>> /\ result = NoResult /\ ended = FALSE
  BY SearchAssumption DEF Init
<1>2. Sound(program, state) /\ state.memory_model = memory_model
  BY <1>1, InitialSound
<1>3. Unambiguous(history)
  BY <1>1 DEF initial_state_history, Unambiguous
<1>4. ResultFields(result)
  BY <1>1 DEF ResultFields
<1> DEFINE start == ReplayStart(program, memory_model)
           after == [n \in 0 .. 0 |-> start]
<1>5. IsAt(start, "running", state, history, schedule, result)
  BY <1>1 DEF ReplayStart, IsAt
<1> HIDE DEF start
<1>6. Len(schedule) = 0 /\ schedule \in Seq(ScheduleStep)
  BY <1>1
<1>7. IsReplay(after, program, schedule, StepBound, memory_model) /\ after[0] = start
  BY <1>6 DEF IsReplay, start
<1> HIDE DEF after
<1>8. Matches(after[Len(schedule)])
  BY <1>1, <1>5, <1>6, <1>7 DEF Matches
<1> QED BY <1>1, <1>2, <1>3, <1>4, <1>6, <1>7, <1>8 DEF PathInv

\* The end of a path in a state without enabled steps.
LEMMA TerminalPath ==
    ASSUME PathInv, ~ended, Terminal
    PROVE  PathInv'
<1>1. PICK after : /\ IsReplay(after, program, schedule, StepBound, memory_model)
                   /\ Matches(after[Len(schedule)])
  BY DEF PathInv
<1>2. IsAt(after[Len(schedule)], "running", state, history, schedule, result)
  BY <1>1 DEF Matches
<1>3. /\ UNCHANGED <<program, memory_model, state, history, schedule>> /\ ended' = TRUE
      /\ enabled_steps(program, state) = {}
      /\ result' = WithDeadlock(WithLeaf(result), program, state, schedule)
  BY DEF Terminal, End, params
<1>4. after[Len(schedule)].result = result
  BY <1>2 DEF IsAt
<1>5. Matches(after[Len(schedule)])'
  BY <1>2, <1>3, <1>4 DEF Matches
<1>6. ResultFields(result')
  BY <1>3, ResultFieldsKept DEF PathInv
<1> QED BY <1>1, <1>3, <1>5, <1>6 DEF PathInv

\* A step of the path, which ends it or not.
LEMMA StepPath ==
    ASSUME PathInv, ~ended, NEW step \in enabled_steps(program, state),
           BoundLeaf(step) \/ TakeStep(step)
    PROVE  PathInv'
<1> DEFINE out == execute_enabled_step(program, state, step)
           reported == WithStepReport(result, out.report, Append(schedule, step))
           starts == CycleStart(history, out.state)
<1>1. PICK after : /\ IsReplay(after, program, schedule, StepBound, memory_model)
                   /\ Matches(after[Len(schedule)])
  BY DEF PathInv
<1>2. IsAt(after[Len(schedule)], "running", state, history, schedule, result)
  BY <1>1 DEF Matches
<1>3. /\ program \in Programs /\ memory_model \in MemoryModel /\ Sound(program, state)
      /\ state.memory_model = memory_model /\ schedule \in Seq(ScheduleStep)
      /\ Unambiguous(history) /\ ResultFields(result)
  BY DEF PathInv
<1>4. validate_replay_step(program, state, step) /\ step \in ScheduleStep
  BY <1>3, EnabledValid
<1>5. Sound(program, out.state) /\ out.state.memory_model = memory_model
  BY <1>3, EnabledGiven, StepSound
<1>6. PICK longer :
        /\ IsReplay(longer, program, Append(schedule, step), StepBound, memory_model)
        /\ longer[Len(schedule) + 1] =
              ReplayStep(program, StepBound, after[Len(schedule)], step)
  BY <1>1, <1>3, <1>4, ReplayExtends
<1> DEFINE next == longer[Len(schedule) + 1]
<1>7. /\ step_bound_reached(state, step.thread) => EndedWith(next, record_bound_exceeded(result))
      /\ ~step_bound_reached(state, step.thread) =>
           /\ Failed(out) => EndedWith(next, WithLeaf(reported))
           /\ ~Failed(out) /\ starts # {} =>
                 EndedWith(next, record_nontermination(reported,
                     CHOOSE report \in make_nontermination_report(program,
                                           Append(schedule, step), Min(starts),
                                           out.state.memory_model) : TRUE))
           /\ ~Failed(out) /\ starts = {} =>
                 IsAt(next, "running", out.state,
                      Observed(program, history, out.state, Len(schedule) + 1),
                      Append(schedule, step), reported)
  <2>1. Takes(next, program, StepBound, state, history, schedule, result, step)
    BY <1>2, <1>3, <1>4, <1>6, ReplayTakes
  <2> HIDE DEF next
  <2> QED BY <2>1 DEF Takes, step_bound_reached
<1>8. /\ schedule' = Append(schedule, step) /\ UNCHANGED <<program, memory_model>>
      /\ schedule' \in Seq(ScheduleStep) /\ Len(schedule') = Len(schedule) + 1
  <2>1. schedule' = Append(schedule, step)
    BY DEF BoundLeaf, TakeStep
  <2>2. UNCHANGED <<program, memory_model>>
    BY DEF BoundLeaf, TakeStep, Outcomes, FailureLeaf, CycleLeaf, Extend, End, params
  <2> QED BY <1>3, <1>4, <2>1, <2>2
<1> HIDE DEF out, next
<1>9. ASSUME NEW r, End(r), EndedWith(next, r), ResultFields(r)
      PROVE  PathInv'
  <2>1. result' = r /\ ended' = TRUE /\ UNCHANGED <<state, history>>
    BY <1>9 DEF End
  <2>2. Matches(longer[Len(schedule)])'
    BY <1>8, <1>9, <2>1 DEF Matches, next
  <2> QED BY <1>3, <1>6, <1>8, <1>9, <2>1, <2>2 DEF PathInv
<1>10. ResultFields(reported)
  BY <1>3, ResultFieldsKept
<1> HIDE DEF reported
<1>11. CASE BoundLeaf(step)
  BY <1>3, <1>7, <1>9, <1>11, ResultFieldsKept DEF BoundLeaf
<1>12. CASE TakeStep(step)
  <2>1. ~step_bound_reached(state, step.thread) /\ Outcomes(out, reported)
    BY <1>12 DEF TakeStep, out, reported
  <2>2. CASE FailureLeaf(out, reported)
    BY <1>7, <1>9, <1>10, <2>1, <2>2, ResultFieldsKept DEF FailureLeaf
  <2>3. CASE CycleLeaf(out, reported)
    <3>1. PICK start \in starts : \E report \in
              make_nontermination_report(program, schedule', start, memory_model) :
            End(record_nontermination(reported, report))
      BY <2>3 DEF CycleLeaf
    <3>2. PICK report \in
              make_nontermination_report(program, schedule', start, memory_model) :
            End(record_nontermination(reported, report))
      BY <3>1
    <3>3. Min(starts) = start /\ ~Failed(out)
      BY <1>3, <2>3, <3>1, OneStart DEF CycleLeaf
    <3>4. EndedWith(next, record_nontermination(reported, report))
      BY <1>5, <1>7, <1>8, <2>1, <3>1, <3>2, <3>3, OneReport
    <3>5. ResultFields(record_nontermination(reported, report))
      BY <1>10, ResultFieldsKept
    <3> QED BY <1>9, <3>2, <3>4, <3>5
  <2>4. CASE Extend(out, reported)
    <3>1. /\ state' = out.state /\ result' = reported /\ ended' = ended
          /\ history' = Observed(program, history, out.state, Len(schedule) + 1)
          /\ ~Failed(out) /\ starts = {}
      BY <2>4 DEF Extend
    <3>2. Unambiguous(history')
      <4> DEFINE e == [key |-> behavioral_state_fingerprint(out.state),
                       position |-> Len(schedule) + 1]
      <4>1. history' \in {history, history \cup {e}}
        BY <3>1 DEF Observed
      <4>2. e.key = behavioral_state_fingerprint(out.state) /\ e.position \in Nat
        BY <1>3
      <4> HIDE DEF e
      <4>3. ASSUME NEW f \in history, f.key = e.key PROVE FALSE
        <5>1. f.position \in starts
          BY <4>2, <4>3 DEF CycleStart
        <5> QED BY <3>1, <5>1
      <4> QED BY <1>3, <4>1, <4>2, <4>3 DEF Unambiguous
    <3>3. Matches(longer[Len(schedule)])'
      BY <1>7, <1>8, <2>1, <3>1 DEF Matches, next
    <3> QED BY <1>3, <1>5, <1>6, <1>8, <1>10, <3>1, <3>2, <3>3 DEF PathInv
  <2> QED BY <2>1, <2>2, <2>3, <2>4 DEF Outcomes
<1> QED BY <1>11, <1>12

\* Every step keeps it.
LEMMA NextPathInv == PathInv /\ [Walk \/ Returned]_vars => PathInv'
<1>1. CASE UNCHANGED vars
  BY <1>1 DEF vars, params, PathInv, Matches
<1>2. ASSUME PathInv, Walk PROVE PathInv'
  BY <1>2, TerminalPath, StepPath DEF Walk
<1> QED BY <1>1, <1>2 DEF Returned

\* It holds in every state of every path.
LEMMA PathInvariance == Spec => []PathInv
BY InitPathInv, NextPathInv, PTL DEF Spec

\* What replay_schedule makes of the schedule of the path, and of a longer one.
LEMMA PathReplays ==
    ASSUME PathInv
    PROVE  /\ ended \/ enabled_steps(program, state) # {} =>
                 replay_schedule(program, schedule, StepBound, memory_model) = {result}
           /\ ~ended /\ enabled_steps(program, state) = {} =>
                 replay_schedule(program, schedule, StepBound, memory_model) =
                     {WithDeadlock(WithLeaf(result), program, state, schedule)}
           /\ ended => \A step \in ScheduleStep :
                 replay_schedule(program, Append(schedule, step), StepBound, memory_model) = {}
<1>1. PICK after : /\ IsReplay(after, program, schedule, StepBound, memory_model)
                   /\ Matches(after[Len(schedule)])
  BY DEF PathInv
<1> DEFINE L == after[Len(schedule)]
<1>2. /\ program \in Programs /\ schedule \in Seq(ScheduleStep) /\ Sound(program, state)
      /\ ended \in BOOLEAN
  BY DEF PathInv
<1>3. ReplayLoop(program, schedule, StepBound, memory_model) = L
  BY <1>1, <1>2, ReplayLoopIs
<1>4. replay_schedule(program, schedule, StepBound, memory_model) =
        ReplayResult(program, schedule, L)
  BY <1>3 DEF replay_schedule
<1>5. any_enabled(program, state) <=> enabled_steps(program, state) # {}
  BY <1>2, AnyEnabled
<1> HIDE DEF L
<1>6. Matches(L)
  BY <1>1 DEF L
<1>7. CASE ~ended /\ IsAt(L, "running", state, history, schedule, result)
  BY <1>4, <1>5, <1>7 DEF ReplayResult, IsAt
<1>8. ASSUME NEW step \in ScheduleStep,
             ReplayStep(program, StepBound, L, step).phase = "rejected"
      PROVE  replay_schedule(program, Append(schedule, step), StepBound, memory_model) = {}
  <2>1. PICK longer :
          /\ IsReplay(longer, program, Append(schedule, step), StepBound, memory_model)
          /\ longer[Len(schedule) + 1] = ReplayStep(program, StepBound, L, step)
    BY <1>1, <1>2, <1>8, ReplayExtends DEF L
  <2> DEFINE k == Append(schedule, step)
  <2>2. k \in Seq(ScheduleStep) /\ Len(k) = Len(schedule) + 1
    BY <1>2, <1>8
  <2>3. ReplayLoop(program, k, StepBound, memory_model) = ReplayStep(program, StepBound, L, step)
    <3>1. IsReplay(longer, program, k, StepBound, memory_model)
      BY <2>1
    <3> HIDE DEF k
    <3>2. ReplayLoop(program, k, StepBound, memory_model) = longer[Len(k)]
      BY <2>2, <3>1, ReplayLoopIs
    <3> QED BY <2>1, <2>2, <3>2
  <2> QED BY <1>8, <2>3 DEF replay_schedule, ReplayResult
<1>9. CASE ended /\ EndedWith(L, result)
  <2>1. \A step : ReplayStep(program, StepBound, L, step).phase = "rejected"
    BY <1>9 DEF ReplayStep, EndedWith
  <2> QED BY <1>4, <1>8, <1>9, <2>1 DEF ReplayResult, EndedWith
<1>10. CASE /\ ended /\ IsAt(L, "running", state, history, schedule, L.result)
            /\ enabled_steps(program, state) = {}
            /\ result = WithDeadlock(WithLeaf(L.result), program, state, schedule)
  <2>1. \A step : ~validate_replay_step(program, L.state, step)
    BY <1>10 DEF validate_replay_step, IsAt
  <2>2. \A step : ReplayStep(program, StepBound, L, step).phase = "rejected"
    BY <1>10, <2>1 DEF ReplayStep, IsAt
  <2>3. ReplayResult(program, schedule, L) = {result}
    BY <1>5, <1>10 DEF ReplayResult, IsAt
  <2> QED BY <1>4, <1>8, <1>10, <2>2, <2>3
<1> QED BY <1>6, <1>7, <1>9, <1>10 DEF Matches

(***************************************************************************)
(* replay_schedule accepts the schedule of every path and reports exactly  *)
(* what the search reported on it, for every program.                      *)
(***************************************************************************)
THEOREM ReplayIsExact == Spec => []ReplayExact
<1>1. PathInv => ReplayExact
  BY PathReplays DEF ReplayExact
<1> QED BY <1>1, PathInvariance, PTL

(***************************************************************************)
(* No schedule goes on after the end of its execution: replay_schedule     *)
(* refuses every further step, any action of any thread and any flush,     *)
(* with or without an address, of the program or not.                      *)
(***************************************************************************)
THEOREM NothingFollows ==
    Spec => [](NoContinuation /\ (ended => \A step \in ScheduleStep : RefusedNext(step)))
<1>1. ASSUME PathInv, ended, NEW step \in ScheduleStep PROVE RefusedNext(step)
  BY <1>1, PathReplays DEF RefusedNext
<1>2. ASSUME PathInv, NEW t \in ThreadId, NEW step \in NamedSteps(t) PROVE step \in ScheduleStep
  <2>1. CASE step \in {SourceStep(t, index) : index \in 0 .. Len(program[t]) - 1}
    BY <2>1 DEF SourceStep, ScheduleStep
  <2>2. CASE step \in {FlushStep(t, x) : x \in FlushAddresses}
    <3>1. FlushAddresses \subseteq Nat \cup {NoFlushAddress}
      <4>1. \A n : 0 .. n - 1 \subseteq Nat
        OBVIOUS
      <4> QED BY <4>1 DEF FlushAddresses
    <3> QED BY <2>2, <3>1, SizesAssumption DEF FlushStep, ScheduleStep
  <2> QED BY <1>2, <2>1, <2>2 DEF NamedSteps
<1>3. PathInv => NoContinuation /\ (ended => \A step \in ScheduleStep : RefusedNext(step))
  BY <1>1, <1>2 DEF NoContinuation
<1> QED BY <1>3, PathInvariance, PTL

-----------------------------------------------------------------------------
(***************************************************************************)
(* The minimizer.                                                          *)
(***************************************************************************)
MInv == PathInv /\ Minimizing

\* No minimization has begun.
LEMMA InitMInv == MInit => MInv
BY InitPathInv, InitMinimizing DEF MInit, MInv

\* A report that the path has just made is shown by the replay of its schedule.
LEMMA ReportShown ==
    ASSUME PathInv, NEW kind \in BugKinds, NEW found \in FirstOfKind(result)[kind]
    PROVE  ShowsIn(program, memory_model, schedule,
                   [NoBug EXCEPT ![kind] = identities_of(result)[kind]])
<1> DEFINE bugs == [NoBug EXCEPT ![kind] = identities_of(result)[kind]]
           end == WithDeadlock(WithLeaf(result), program, state, schedule)
<1>1. ASSUME NEW r, identities_of(r)[kind] = identities_of(result)[kind]
      PROVE  reproduces_identities(r, bugs)
  <2>1. \A k \in BugKinds : k # kind => bugs[k] = {}
    BY DEF NoBug
  <2>2. bugs[kind] = identities_of(result)[kind]
    BY DEF NoBug
  <2> HIDE DEF bugs
  <2> QED BY <1>1, <2>1, <2>2 DEF reproduces_identities
<1>2. identities_of(end)[kind] = identities_of(result)[kind]
  <2> DEFINE leaf == WithLeaf(result)
  <2>1. /\ ResultFields(result) /\ ResultFields(leaf) /\ ResultFields(end)
        /\ DOMAIN NoResult = {"exploration_capped", "schedules_explored",
             "bound_exceeded_executions", "cycles_detected", "fair_cycles", "unfair_cycles",
             "strongly_unfair_cycles", "first_race", "first_error", "first_assertion",
             "first_deadlock", "first_nontermination"}
    BY ResultFieldsKept DEF PathInv, NoResult
  <2>2. /\ leaf.first_race = result.first_race /\ leaf.first_error = result.first_error
        /\ leaf.first_assertion = result.first_assertion
        /\ leaf.first_deadlock = result.first_deadlock
    BY <2>1 DEF WithLeaf, ResultFields
  <2> HIDE DEF leaf
  <2>3. /\ end.first_race = leaf.first_race /\ end.first_error = leaf.first_error
        /\ end.first_assertion = leaf.first_assertion
        /\ leaf.first_deadlock # {} => end.first_deadlock = leaf.first_deadlock
    BY <2>1 DEF WithDeadlock, ResultFields, FirstNonempty, leaf
  <2>4. kind = "deadlock" => result.first_deadlock # {}
    BY DEF FirstOfKind
  <2> HIDE DEF end
  <2>5. CASE kind = "race"
    BY <2>2, <2>3, <2>5 DEF identities_of
  <2>6. CASE kind = "deadlock"
    BY <2>2, <2>3, <2>4, <2>6 DEF identities_of
  <2>7. CASE kind = "error"
    BY <2>2, <2>3, <2>7 DEF identities_of
  <2>8. CASE kind = "assertion"
    BY <2>2, <2>3, <2>8 DEF identities_of
  <2> QED BY <2>5, <2>6, <2>7, <2>8 DEF BugKinds
<1>3. replay_schedule(program, schedule, StepBound, memory_model) \in {{result}, {end}}
  <2>1. ended \in BOOLEAN
    BY DEF PathInv
  <2> QED BY <2>1, PathReplays
<1> HIDE DEF bugs, end
<1>4. ShowsIn(program, memory_model, schedule, bugs)
  BY <1>1, <1>2, <1>3 DEF ShowsIn
<1> QED BY <1>4 DEF bugs

\* The steps of the path before the minimization, and the ways it begins.
LEMMA BeginMInv ==
    ASSUME MInv, phase = "off"
    PROVE  /\ (Walk \/ Returned) /\ UNCHANGED mvars => MInv'
           /\ (MinimizeReport \/ Given(schedule)) /\ UNCHANGED vars => MInv'
<1>1. ASSUME Walk \/ Returned, UNCHANGED mvars PROVE MInv'
  <2>1. PathInv'
    BY <1>1, NextPathInv DEF MInv
  <2>2. phase' = "off" /\ ~pending' /\ UNCHANGED <<minimized, candidate, tid, pending>>
    BY <1>1 DEF mvars, MInv, Minimizing, Asking
  <2> QED BY <2>1, <2>2 DEF MInv, Minimizing, Asking
<1>2. ASSUME UNCHANGED vars
      PROVE  /\ PathInv' /\ program' = program /\ memory_model' = memory_model
             /\ schedule \in Seq(ScheduleStep)
  BY <1>2, NextPathInv DEF MInv, PathInv, vars, params
<1>3. ASSUME MinimizeReport, UNCHANGED vars PROVE MInv'
  <2>1. PICK kind \in BugKinds : \E found \in FirstOfKind(result)[kind] :
          FirstPass([NoBug EXCEPT ![kind] = identities_of(result)[kind]], schedule)
    BY <1>3 DEF MinimizeReport
  <2> DEFINE bugs == [NoBug EXCEPT ![kind] = identities_of(result)[kind]]
  <2>2. ShowsIn(program, memory_model, schedule, bugs)
    BY <2>1, ReportShown DEF MInv
  <2>3. FirstPass(bugs, schedule)
    BY <2>1
  <2> HIDE DEF bugs
  <2>4. ~pending
    BY DEF MInv, Minimizing, Asking
  <2>5. Minimizing'
    BY <1>2, <1>3, <2>2, <2>3, <2>4, BeginMinimizing DEF MInv
  <2> QED BY <1>2, <1>3, <2>5 DEF MInv
<1>4. ASSUME Given(schedule), UNCHANGED vars PROVE MInv'
  BY <1>2, <1>4 DEF Given, Ask, MInv, Minimizing, Asking
<1> QED BY <1>1, <1>3, <1>4

\* It holds in every state of every minimization.
LEMMA MInvariance == MSpec => []MInv
<1>1. MInv /\ [MNext]_<<vars, mvars>> => MInv'
  <2> SUFFICES ASSUME MInv, [MNext]_<<vars, mvars>> PROVE MInv'
    OBVIOUS
  <2>1. CASE UNCHANGED <<vars, mvars>>
    <3>1. PathInv'
      BY <2>1, NextPathInv DEF MInv
    <3> QED BY <2>1, <3>1 DEF MInv, Minimizing, vars, params, mvars
  <2>2. CASE phase = "off" /\ (Walk \/ Returned) /\ UNCHANGED mvars
    BY <2>2, BeginMInv
  <2>3. CASE phase = "off" /\ (MinimizeReport \/ Given(schedule)) /\ UNCHANGED vars
    BY <2>3, BeginMInv
  <2>4. CASE Minimize /\ UNCHANGED vars
    <3>1. PathInv' /\ program' = program /\ memory_model' = memory_model
      BY <2>4, NextPathInv DEF MInv, vars, params
    <3> QED BY <2>4, <3>1, MinimizesOn DEF MInv
  <2> QED BY <2>1, <2>2, <2>3, <2>4 DEF MNext
<1> QED BY <1>1, InitMInv, PTL DEF MSpec

(***************************************************************************)
(* minimize_schedule and the minimized reports of a search keep the bug:   *)
(* the logic_error of the final replay is never thrown, and the report of  *)
(* the minimized schedule identifies the same bugs.                        *)
(***************************************************************************)
THEOREM BugKept == MSpec => []SameBug
BY MInvariance, MinimizingSound, PTL DEF MInv

(***************************************************************************)
(* The minimized schedule is 1-minimal: the passes of the loop stop only   *)
(* when the last step of no thread can be dropped.                         *)
(***************************************************************************)
THEOREM NothingToDrop == MSpec => []OneMinimal
BY MInvariance, MinimizingSound, PTL DEF MInv

-----------------------------------------------------------------------------
(***************************************************************************)
(* States of equal behavior: they enable the same steps, and the same step *)
(* leads from both to states of equal behavior, or fails in both.          *)
(***************************************************************************)
\* The fields that a step reads or writes.
StateFields ==
    {"memory_model", "pc", "started", "mutex_owner", "mutex_clock", "rwlocks", "semaphores",
     "barriers", "condition_waiters", "thread_clock", "registers", "thread_steps",
     "wait_phase", "memory", "memory_values", "atomic_location_clock", "store_buffers",
     "pso_store_buffers"}

\* A state with these fields; a barrier has the parties the program names.
HasShape(p, s) ==
    /\ StateFields \subseteq DOMAIN s
    /\ DOMAIN s.rwlocks = RwLocks /\ DOMAIN s.semaphores = Semaphores
    /\ DOMAIN s.barriers = Barriers
    /\ \A l \in RwLocks : {"reader_holders", "writer_holder"} \subseteq DOMAIN s.rwlocks[l]
    /\ \A q \in Semaphores : "permits" \in DOMAIN s.semaphores[q]
    /\ \A b \in Barriers : /\ {"arrivals", "parties"} \subseteq DOMAIN s.barriers[b]
                           /\ s.barriers[b].parties = BarrierParties(p, b)

\* What decides control and enabledness is the same, whatever the clocks, the access
\* histories, the step counts and the barrier generations are.
SameControl(s, z) ==
    /\ s.memory_model = z.memory_model /\ s.pc = z.pc /\ s.started = z.started
    /\ s.registers = z.registers /\ s.wait_phase = z.wait_phase
    /\ s.mutex_owner = z.mutex_owner /\ s.condition_waiters = z.condition_waiters
    /\ s.memory_values = z.memory_values
    /\ s.store_buffers = z.store_buffers /\ s.pso_store_buffers = z.pso_store_buffers

\* So for the locks, semaphores and barriers.
SameObjects(s, z) ==
    /\ \A l \in RwLocks : /\ s.rwlocks[l].writer_holder = z.rwlocks[l].writer_holder
                          /\ s.rwlocks[l].reader_holders = z.rwlocks[l].reader_holders
    /\ \A q \in Semaphores : s.semaphores[q].permits = z.semaphores[q].permits
    /\ \A b \in Barriers : s.barriers[b].arrivals = z.barriers[b].arrivals

\* Two states of equal behavior.
Alike(p, s, z) ==
    HasShape(p, s) /\ HasShape(p, z) /\ SameControl(s, z) /\ SameObjects(s, z)

\* Two outcomes of a step.
AlikeOut(p, o, q) == Alike(p, o.state, q.state) /\ (Failed(o) <=> Failed(q))

\* behavioral_state_fingerprint: equal exactly for states alike.
LEMMA AlikeFingerprint ==
    ASSUME NEW p, NEW s, NEW z
    PROVE  /\ Alike(p, s, z) => behavioral_state_fingerprint(s) = behavioral_state_fingerprint(z)
           /\ HasShape(p, s) /\ HasShape(p, z)
                /\ behavioral_state_fingerprint(s) = behavioral_state_fingerprint(z)
              => Alike(p, s, z)
<1>1. ASSUME Alike(p, s, z)
      PROVE  behavioral_state_fingerprint(s) = behavioral_state_fingerprint(z)
  <2>1. /\ [l \in RwLocks |-> s.rwlocks[l].writer_holder] = [l \in RwLocks |-> z.rwlocks[l].writer_holder]
        /\ [l \in RwLocks |-> s.rwlocks[l].reader_holders] = [l \in RwLocks |-> z.rwlocks[l].reader_holders]
        /\ [q \in Semaphores |-> s.semaphores[q].permits] = [q \in Semaphores |-> z.semaphores[q].permits]
        /\ [b \in Barriers |-> s.barriers[b].arrivals] = [b \in Barriers |-> z.barriers[b].arrivals]
    BY <1>1 DEF Alike, SameObjects
  <2> QED BY <1>1, <2>1 DEF Alike, SameControl, behavioral_state_fingerprint
<1>2. ASSUME behavioral_state_fingerprint(s) = behavioral_state_fingerprint(z)
      PROVE  SameControl(s, z) /\ SameObjects(s, z)
  <2> DEFINE f == behavioral_state_fingerprint(s)
             g == behavioral_state_fingerprint(z)
  <2>1. /\ f.memory_model = s.memory_model /\ f.pc = s.pc /\ f.started = s.started
        /\ f.registers = s.registers /\ f.wait_phase = s.wait_phase
        /\ f.mutex_owner = s.mutex_owner /\ f.condition_waiters = s.condition_waiters
        /\ f.memory_values = s.memory_values
        /\ f.store_buffers = s.store_buffers /\ f.pso_store_buffers = s.pso_store_buffers
        /\ \A l \in RwLocks : /\ f.writer_holder[l] = s.rwlocks[l].writer_holder
                              /\ f.reader_holders[l] = s.rwlocks[l].reader_holders
        /\ \A q \in Semaphores : f.permits[q] = s.semaphores[q].permits
        /\ \A b \in Barriers : f.arrivals[b] = s.barriers[b].arrivals
    BY DEF behavioral_state_fingerprint
  <2>2. /\ g.memory_model = z.memory_model /\ g.pc = z.pc /\ g.started = z.started
        /\ g.registers = z.registers /\ g.wait_phase = z.wait_phase
        /\ g.mutex_owner = z.mutex_owner /\ g.condition_waiters = z.condition_waiters
        /\ g.memory_values = z.memory_values
        /\ g.store_buffers = z.store_buffers /\ g.pso_store_buffers = z.pso_store_buffers
        /\ \A l \in RwLocks : /\ g.writer_holder[l] = z.rwlocks[l].writer_holder
                              /\ g.reader_holders[l] = z.rwlocks[l].reader_holders
        /\ \A q \in Semaphores : g.permits[q] = z.semaphores[q].permits
        /\ \A b \in Barriers : g.arrivals[b] = z.barriers[b].arrivals
    BY DEF behavioral_state_fingerprint
  <2>3. f = g
    BY <1>2
  <2> HIDE DEF f, g
  <2> QED BY <2>1, <2>2, <2>3 DEF SameControl, SameObjects
<1> QED BY <1>1, <1>2 DEF Alike

\* What touches only clocks, counts and access histories.
LEMMA AlikeClocks ==
    ASSUME NEW p, NEW s, NEW z, Alike(p, s, z), NEW t, NEW x, NEW c, NEW d, NEW e, NEW f
    PROVE  /\ Alike(p, BeginStep(s, t), BeginStep(z, t))
           /\ Alike(p, [s EXCEPT !.thread_clock[t] = c], [z EXCEPT !.thread_clock[t] = d])
           /\ Alike(p, [s EXCEPT !.atomic_location_clock[x] = c],
                       [z EXCEPT !.atomic_location_clock[x] = d])
           /\ Alike(p, [s EXCEPT !.memory[x] = c], [z EXCEPT !.memory[x] = d])
           /\ Alike(p, [s EXCEPT !.mutex_owner[x] = t, !.mutex_clock[x] = c],
                       [z EXCEPT !.mutex_owner[x] = t, !.mutex_clock[x] = d])
           /\ Alike(p, [s EXCEPT !.mutex_owner[x] = t, !.thread_clock[e] = c],
                       [z EXCEPT !.mutex_owner[x] = t, !.thread_clock[e] = d])
BY DEF Alike, HasShape, StateFields, SameControl, SameObjects, BeginStep

\* What moves a counter, or writes a register, a value or a buffer.
LEMMA AlikeWrites ==
    ASSUME NEW p, NEW s, NEW z, Alike(p, s, z), NEW t, NEW x, NEW v, NEW w
    PROVE  /\ Alike(p, advance_pc(p, s, t), advance_pc(p, z, t))
           /\ Alike(p, write_register(s, t, x, v), write_register(z, t, x, v))
           /\ Alike(p, [s EXCEPT !.memory_values[x] = v], [z EXCEPT !.memory_values[x] = v])
           /\ Alike(p, [s EXCEPT !.pc[t] = v], [z EXCEPT !.pc[t] = v])
BY DEF Alike, HasShape, StateFields, SameControl, SameObjects, advance_pc, write_register

\* No failure, or the same.
LEMMA AlikeDone ==
    ASSUME NEW p, NEW s, NEW z, Alike(p, s, z)
    PROVE  /\ AlikeOut(p, Done(s), Done(z))
           /\ \A race, other : AlikeOut(p, DoneWithRace(s, race), DoneWithRace(z, other))
           /\ \A step, message, text :
                 AlikeOut(p, ModelError(s, step, message), ModelError(z, step, text))
BY DEF AlikeOut, Failed, Done, DoneWithRace, ModelError, NoReport

\* Recording an access changes the history and reports at most a race.
LEMMA AlikeRecord ==
    ASSUME NEW p, NEW s, NEW z, Alike(p, s, z), NEW x, NEW c, NEW d
    PROVE  /\ AlikeOut(p, record_read(s, x, c), record_read(z, x, d))
           /\ AlikeOut(p, record_write(s, x, c), record_write(z, x, d))
           /\ AlikeOut(p, record_atomic(s, x, c), record_atomic(z, x, d))
BY AlikeClocks, AlikeDone DEF record_read, record_write, record_atomic

\* The same values are read.
LEMMA AlikeValues ==
    ASSUME NEW p, NEW s, NEW z, Alike(p, s, z)
    PROVE  /\ \A t, x : read_plain_value(s, t, x) = read_plain_value(z, t, x)
           /\ \A t, r : read_register(s, t, r) = read_register(z, t, r)
           /\ \A t, o, v : evaluate_operand_or(s, t, o, v) = evaluate_operand_or(z, t, o, v)
           /\ \A t : next_action(p, s, t) = next_action(p, z, t)
           /\ \A x : s.memory_values[x] = z.memory_values[x]
BY DEF Alike, SameControl, read_plain_value, read_register, evaluate_operand_or, next_action

\* A plain read or write, in memory or through the buffers.
LEMMA AlikePlain ==
    ASSUME NEW p, NEW s, NEW z, Alike(p, s, z), NEW step, NEW a, s.memory_model \in MemoryModel
    PROVE  /\ AlikeOut(p, ReadEffect(s, step, a), ReadEffect(z, step, a))
           /\ AlikeOut(p, WriteEffect(s, step, a), WriteEffect(z, step, a))
<1> DEFINE t == step.thread
           x == a.address
           v == evaluate_operand_or(s, t, a.value, 0)
           e == read_plain_value(s, t, x)
<1>1. AlikeOut(p, ReadEffect(s, step, a), ReadEffect(z, step, a))
  <2> DEFINE q == write_register(s, t, a.destination, e)
             r == write_register(z, t, a.destination, e)
  <2>1. e = read_plain_value(z, t, x)
    BY AlikeValues
  <2>2. /\ ReadEffect(s, step, a) = record_read(q, x, Access(q, step, FALSE, FALSE))
        /\ ReadEffect(z, step, a) = record_read(r, x, Access(r, step, FALSE, FALSE))
    BY <2>1 DEF ReadEffect
  <2>3. Alike(p, q, r)
    BY AlikeWrites
  <2> HIDE DEF q, r
  <2> QED BY <2>2, <2>3, AlikeRecord
<1>2. v = evaluate_operand_or(z, t, a.value, 0) /\ s.memory_model = z.memory_model
  BY AlikeValues DEF Alike, SameControl
<1>3. CASE s.memory_model = "SC"
  <2> DEFINE q == [s EXCEPT !.memory_values[x] = v]
             r == [z EXCEPT !.memory_values[x] = v]
  <2>1. /\ WriteEffect(s, step, a) = record_write(q, x, Access(q, step, FALSE, TRUE))
        /\ WriteEffect(z, step, a) = record_write(r, x, Access(r, step, FALSE, TRUE))
    BY <1>2, <1>3 DEF WriteEffect
  <2> HIDE DEF v
  <2>2. Alike(p, q, r)
    BY AlikeWrites
  <2> HIDE DEF q, r
  <2> QED BY <1>1, <2>1, <2>2, AlikeRecord
<1>4. CASE s.memory_model = "TSO"
  <2> DEFINE q == [s EXCEPT !.store_buffers[t] = Append(@, [address |-> x, value |-> v])]
             r == [z EXCEPT !.store_buffers[t] = Append(@, [address |-> x, value |-> v])]
  <2>1. WriteEffect(s, step, a) = Done(q) /\ WriteEffect(z, step, a) = Done(r)
    BY <1>2, <1>4 DEF WriteEffect
  <2> HIDE DEF v
  <2>2. Alike(p, q, r)
    BY DEF Alike, HasShape, StateFields, SameControl, SameObjects
  <2> HIDE DEF q, r
  <2> QED BY <1>1, <2>1, <2>2, AlikeDone
<1>5. CASE s.memory_model = "PSO"
  <2> DEFINE q == [s EXCEPT !.pso_store_buffers[t][x] = Append(@, v)]
             r == [z EXCEPT !.pso_store_buffers[t][x] = Append(@, v)]
  <2>1. WriteEffect(s, step, a) = Done(q) /\ WriteEffect(z, step, a) = Done(r)
    BY <1>2, <1>5 DEF WriteEffect
  <2> HIDE DEF v
  <2>2. Alike(p, q, r)
    BY DEF Alike, HasShape, StateFields, SameControl, SameObjects
  <2> HIDE DEF q, r
  <2> QED BY <1>1, <2>1, <2>2, AlikeDone
<1> QED BY <1>1, <1>3, <1>4, <1>5 DEF MemoryModel

\* A flush of the oldest buffered store.
LEMMA AlikeFlush ==
    ASSUME NEW p, NEW s, NEW z, Alike(p, s, z), NEW step, NEW a
    PROVE  AlikeOut(p, FlushEffect(s, step, a), FlushEffect(z, step, a))
<1> DEFINE t == step.thread
           x == a.address
           v == Head(s.store_buffers[t]).value
           w == Head(s.pso_store_buffers[t][x])
<1>1. /\ v = Head(z.store_buffers[t]).value /\ w = Head(z.pso_store_buffers[t][x])
      /\ s.memory_model = z.memory_model
  BY DEF Alike, SameControl
<1> HIDE DEF v, w
<1>2. CASE s.memory_model = "TSO"
  <2> DEFINE q == [s EXCEPT !.memory_values[x] = v, !.store_buffers[t] = Tail(@)]
             r == [z EXCEPT !.memory_values[x] = v, !.store_buffers[t] = Tail(@)]
  <2>1. /\ FlushEffect(s, step, a) = record_write(q, x, Access(q, step, FALSE, TRUE))
        /\ FlushEffect(z, step, a) = record_write(r, x, Access(r, step, FALSE, TRUE))
    BY <1>1, <1>2 DEF FlushEffect, v
  <2>2. Alike(p, q, r)
    BY DEF Alike, HasShape, StateFields, SameControl, SameObjects
  <2> HIDE DEF q, r
  <2> QED BY <2>1, <2>2, AlikeRecord
<1>3. CASE s.memory_model # "TSO"
  <2> DEFINE q == [s EXCEPT !.memory_values[x] = w, !.pso_store_buffers[t][x] = Tail(@)]
             r == [z EXCEPT !.memory_values[x] = w, !.pso_store_buffers[t][x] = Tail(@)]
  <2>1. /\ FlushEffect(s, step, a) = record_write(q, x, Access(q, step, FALSE, TRUE))
        /\ FlushEffect(z, step, a) = record_write(r, x, Access(r, step, FALSE, TRUE))
    BY <1>1, <1>3 DEF FlushEffect, w
  <2>2. Alike(p, q, r)
    BY DEF Alike, HasShape, StateFields, SameControl, SameObjects
  <2> HIDE DEF q, r
  <2> QED BY <2>1, <2>2, AlikeRecord
<1> QED BY <1>2, <1>3

\* The atomic accesses.
LEMMA AlikeAtomic ==
    ASSUME NEW p, NEW s, NEW z, Alike(p, s, z), NEW step, NEW a
    PROVE  /\ AlikeOut(p, AtomicLoadEffect(s, step, a), AtomicLoadEffect(z, step, a))
           /\ AlikeOut(p, AtomicStoreEffect(s, step, a), AtomicStoreEffect(z, step, a))
           /\ AlikeOut(p, AtomicRmwEffect(s, step, a), AtomicRmwEffect(z, step, a))
           /\ AlikeOut(p, CompareExchangeEffect(s, step, a), CompareExchangeEffect(z, step, a))
<1> DEFINE t == step.thread
           x == a.address
           old == s.memory_values[x]
<1>1. \A q, r : Alike(p, q, r) =>
         /\ Alike(p, AcquireLocation(q, t, x), AcquireLocation(r, t, x))
         /\ Alike(p, ReleaseLocation(q, t, x), ReleaseLocation(r, t, x))
  BY AlikeClocks DEF AcquireLocation, ReleaseLocation
<1>2. /\ old = z.memory_values[x]
      /\ \A o, v : evaluate_operand_or(s, t, o, v) = evaluate_operand_or(z, t, o, v)
  BY AlikeValues
<1>3. \A q, r : Alike(p, q, r) =>
         /\ \A i, v : Alike(p, write_register(q, t, i, v), write_register(r, t, i, v))
         /\ \A v : Alike(p, [q EXCEPT !.memory_values[x] = v], [r EXCEPT !.memory_values[x] = v])
         /\ \A c, d : AlikeOut(p, record_atomic(q, x, c), record_atomic(r, x, d))
  BY AlikeWrites, AlikeRecord
<1>4. AlikeOut(p, AtomicLoadEffect(s, step, a), AtomicLoadEffect(z, step, a))
  BY <1>1, <1>2, <1>3 DEF AtomicLoadEffect
<1>5. AlikeOut(p, AtomicStoreEffect(s, step, a), AtomicStoreEffect(z, step, a))
  BY <1>1, <1>2, <1>3 DEF AtomicStoreEffect
<1>6. AlikeOut(p, AtomicRmwEffect(s, step, a), AtomicRmwEffect(z, step, a))
  BY <1>1, <1>2, <1>3 DEF AtomicRmwEffect
<1>7. AlikeOut(p, CompareExchangeEffect(s, step, a), CompareExchangeEffect(z, step, a))
  BY <1>1, <1>2, <1>3 DEF CompareExchangeEffect
<1> QED BY <1>4, <1>5, <1>6, <1>7

\* The accesses to memory.
LEMMA AlikeMemory ==
    ASSUME NEW p, NEW s, NEW z, Alike(p, s, z), NEW step, NEW a, s.memory_model \in MemoryModel,
           a.kind \in {"Read", "Write"} \cup AtomicKinds
    PROVE  AlikeOut(p, MemoryEffect(p, s, step, a), MemoryEffect(p, z, step, a))
<1> DEFINE n == advance_pc(p, s, step.thread)
           m == advance_pc(p, z, step.thread)
<1>1. Alike(p, n, m)
  BY AlikeWrites
<1>2. n.memory_model \in MemoryModel
  BY DEF advance_pc, Alike, HasShape, StateFields
<1> HIDE DEF n, m
<1>3. CASE a.address = NoAddress
  BY <1>1, <1>3, AlikeDone DEF MemoryEffect, n, m
<1>4. CASE a.address # NoAddress
  BY <1>1, <1>2, <1>4, AlikePlain, AlikeAtomic DEF MemoryEffect, n, m, AtomicKinds
<1> QED BY <1>3, <1>4

\* The operations on a mutex.
LEMMA AlikeMutex ==
    ASSUME NEW p, NEW s, NEW z, Alike(p, s, z), NEW step, NEW a, a.kind \in MutexKinds
    PROVE  AlikeOut(p, MutexEffect(p, s, step, a), MutexEffect(p, z, step, a))
<1> DEFINE t == step.thread
           free == s.mutex_owner[a.mutex] = NoThread
           own == s.mutex_owner[a.mutex] = t
<1>0. Alike(p, advance_pc(p, s, t), advance_pc(p, z, t))
  BY AlikeWrites
<1>1. s.mutex_owner = z.mutex_owner
  BY DEF Alike, SameControl
<1>2. \A q, r : Alike(p, q, r) =>
         /\ Alike(p, AcquireMutex(q, t, a.mutex), AcquireMutex(r, t, a.mutex))
         /\ Alike(p, ReleaseMutex(q, t, a.mutex), ReleaseMutex(r, t, a.mutex))
  BY AlikeClocks DEF AcquireMutex, ReleaseMutex
<1>3. AlikeOut(p, LockEffect(p, s, step, a), LockEffect(p, z, step, a))
  BY <1>0, <1>1, <1>2, AlikeDone DEF LockEffect
<1>4. AlikeOut(p, TryLockEffect(p, s, step, a), TryLockEffect(p, z, step, a))
  <2> DEFINE v == IF free THEN 1 ELSE 0
             q == write_register(advance_pc(p, s, t), t, RegisterOr0(a.destination), v)
             r == write_register(advance_pc(p, z, t), t, RegisterOr0(a.destination), v)
  <2>1. Alike(p, q, r)
    BY <1>0, AlikeWrites
  <2>2. /\ TryLockEffect(p, s, step, a) = Done(IF free THEN AcquireMutex(q, t, a.mutex) ELSE q)
        /\ TryLockEffect(p, z, step, a) = Done(IF free THEN AcquireMutex(r, t, a.mutex) ELSE r)
    BY <1>1 DEF TryLockEffect
  <2> HIDE DEF q, r, free
  <2> QED BY <1>2, <2>1, <2>2, AlikeDone
<1>5. AlikeOut(p, UnlockEffect(p, s, step, a), UnlockEffect(p, z, step, a))
  BY <1>0, <1>1, <1>2, AlikeDone DEF UnlockEffect
<1> QED BY <1>3, <1>4, <1>5 DEF MutexEffect, MutexKinds

\* The phases of a wait.
LEMMA AlikeWait ==
    ASSUME NEW p, NEW s, NEW z, Alike(p, s, z), NEW step, NEW a, a.kind \in WaitKinds,
           s.wait_phase[step.thread] \in WaitPhase,
           s.wait_phase[step.thread] = "Waiting" => a.kind = "TimedWait"
    PROVE  AlikeOut(p, WaitEffect(p, s, step, a), WaitEffect(p, z, step, a))
<1> DEFINE t == step.thread
           m == a.mutex
           c == a.condition
<1>1. s.mutex_owner = z.mutex_owner /\ s.wait_phase = z.wait_phase
  BY DEF Alike, SameControl
<1>2. AlikeOut(p, ReacquireEffect(p, s, step, a), ReacquireEffect(p, z, step, a))
  <2> DEFINE q == [AcquireMutex(s, t, m) EXCEPT !.wait_phase[t] = "None"]
             r == [AcquireMutex(z, t, m) EXCEPT !.wait_phase[t] = "None"]
  <2>1. Alike(p, q, r)
    BY DEF Alike, HasShape, StateFields, SameControl, SameObjects, AcquireMutex
  <2> HIDE DEF q, r
  <2> QED BY <2>1, AlikeWrites, AlikeDone DEF ReacquireEffect, q, r
<1>3. AlikeOut(p, TimeoutEffect(s, step, a), TimeoutEffect(z, step, a))
  <2> DEFINE n == write_register(s, t, RegisterOr0(a.destination), 0)
             k == write_register(z, t, RegisterOr0(a.destination), 0)
             q == [n EXCEPT !.condition_waiters[c] = @ \ {t}, !.wait_phase[t] = "Woken"]
             r == [k EXCEPT !.condition_waiters[c] = @ \ {t}, !.wait_phase[t] = "Woken"]
  <2>1. Alike(p, n, k)
    BY AlikeWrites
  <2>2. TimeoutEffect(s, step, a) = Done(q) /\ TimeoutEffect(z, step, a) = Done(r)
    BY DEF TimeoutEffect
  <2> HIDE DEF n, k
  <2>3. Alike(p, q, r)
    BY <2>1 DEF Alike, HasShape, StateFields, SameControl, SameObjects
  <2> HIDE DEF q, r
  <2> QED BY <2>2, <2>3, AlikeDone
<1>4. AlikeOut(p, ParkEffect(p, s, step, a), ParkEffect(p, z, step, a))
  <2> DEFINE q == [ReleaseMutex(s, t, m) EXCEPT
                      !.condition_waiters[c] = @ \cup {t}, !.wait_phase[t] = "Waiting"]
             r == [ReleaseMutex(z, t, m) EXCEPT
                      !.condition_waiters[c] = @ \cup {t}, !.wait_phase[t] = "Waiting"]
  <2>1. Alike(p, q, r)
    BY DEF Alike, HasShape, StateFields, SameControl, SameObjects, ReleaseMutex
  <2>2. Alike(p, advance_pc(p, s, t), advance_pc(p, z, t))
    BY AlikeWrites
  <2>3. /\ s.mutex_owner[m] = t =>
             ParkEffect(p, s, step, a) = Done(q) /\ ParkEffect(p, z, step, a) = Done(r)
        /\ s.mutex_owner[m] # t =>
             /\ ParkEffect(p, s, step, a) = ModelError(advance_pc(p, s, t), step, "wait")
             /\ ParkEffect(p, z, step, a) = ModelError(advance_pc(p, z, t), step, "wait")
    BY <1>1 DEF ParkEffect
  <2> HIDE DEF q, r
  <2> QED BY <2>1, <2>2, <2>3, AlikeDone
<1> QED BY <1>1, <1>2, <1>3, <1>4 DEF WaitEffect, WaitPhase

\* Signal and Broadcast wake the same waiters.
LEMMA AlikeNotify ==
    ASSUME NEW p, NEW s, NEW z, Alike(p, s, z), NEW step, NEW a
    PROVE  /\ AlikeOut(p, SignalEffect(p, s, step, a), SignalEffect(p, z, step, a))
           /\ AlikeOut(p, BroadcastEffect(p, s, step, a), BroadcastEffect(p, z, step, a))
<1> DEFINE t == step.thread
           c == a.condition
<1>1. ASSUME NEW q, NEW r, Alike(p, q, r), NEW woken
      PROVE  AlikeOut(p, Done(Wake(p, q, t, c, woken)), Done(Wake(p, r, t, c, woken)))
  <2> DEFINE Written(k) ==
                [u \in ThreadId |->
                    IF u \in woken /\ next_action(p, k, u).kind = "TimedWait"
                    THEN [k.registers[u] EXCEPT ![WakeResult(p, k, u)] = 1]
                    ELSE k.registers[u]]
             Phases(k) == [u \in ThreadId |-> IF u \in woken THEN "Woken" ELSE k.wait_phase[u]]
             Clocks(k) == [u \in ThreadId |-> IF u \in woken
                              THEN Join(k.thread_clock[u], k.thread_clock[t])
                              ELSE k.thread_clock[u]]
             Woke(k) == [k EXCEPT !.condition_waiters[c] = @ \ woken, !.wait_phase = Phases(k),
                                  !.thread_clock = Clocks(k), !.registers = Written(k)]
  <2>1. Phases(q) = Phases(r)
    BY <1>1 DEF Alike, SameControl
  <2>2. Written(q) = Written(r)
    <3>1. q.registers = r.registers
      BY <1>1 DEF Alike, SameControl
    <3>2. \A u : next_action(p, q, u) = next_action(p, r, u)
      BY <1>1, AlikeValues
    <3> QED BY <3>1, <3>2 DEF WakeResult
  <2>3. Wake(p, q, t, c, woken) = Woke(q) /\ Wake(p, r, t, c, woken) = Woke(r)
    BY <1>1 DEF Wake, Alike, HasShape, StateFields
  <2> HIDE DEF Phases, Written, Clocks
  <2>4. Alike(p, Woke(q), Woke(r))
    BY <1>1, <2>1, <2>2 DEF Alike, HasShape, StateFields, SameControl, SameObjects
  <2> HIDE DEF Woke
  <2> QED BY <2>3, <2>4, AlikeDone
<1>2. Alike(p, advance_pc(p, s, t), advance_pc(p, z, t))
  BY AlikeWrites
<1>3. s.condition_waiters = z.condition_waiters
  BY DEF Alike, SameControl
<1> QED BY <1>1, <1>2, <1>3 DEF SignalEffect, BroadcastEffect

\* The operations on a reader-writer lock.
LEMMA AlikeRwLock ==
    ASSUME NEW p, NEW s, NEW z, Alike(p, s, z), NEW step, NEW a, a.kind \in RwLockKinds,
           a.rwlock \in RwLocks
    PROVE  AlikeOut(p, RwLockEffect(p, s, step, a), RwLockEffect(p, z, step, a))
<1> DEFINE t == step.thread
           x == a.rwlock
           l == s.rwlocks[x]
           k == z.rwlocks[x]
           n == advance_pc(p, s, t)
           m == advance_pc(p, z, t)
           SameHolders(f, g) == /\ {"reader_holders", "writer_holder"} \subseteq DOMAIN f
                                /\ {"reader_holders", "writer_holder"} \subseteq DOMAIN g
                                /\ f.reader_holders = g.reader_holders
                                /\ f.writer_holder = g.writer_holder
<1>1. Alike(p, n, m) /\ n.rwlocks = s.rwlocks /\ m.rwlocks = z.rwlocks
  <2>1. n.rwlocks = s.rwlocks /\ m.rwlocks = z.rwlocks
    BY DEF advance_pc, Alike, HasShape, StateFields
  <2> QED BY <2>1, AlikeWrites
<1>2. SameHolders(l, k)
  BY DEF Alike, SameObjects, HasShape
<1> HIDE DEF n, m
<1>3. ASSUME NEW f, NEW g, SameHolders(f, g), NEW c, NEW d
      PROVE  /\ Alike(p, [n EXCEPT !.thread_clock[t] = c, !.rwlocks[x] = f],
                         [m EXCEPT !.thread_clock[t] = d, !.rwlocks[x] = g])
             /\ Alike(p, [n EXCEPT !.rwlocks[x] = f], [m EXCEPT !.rwlocks[x] = g])
  BY <1>1, <1>3 DEF Alike, HasShape, StateFields, SameControl, SameObjects
<1>4. \A text : AlikeOut(p, ModelError(n, step, text), ModelError(m, step, text))
  BY <1>1, AlikeDone
<1>5. \A q, r : Alike(p, q, r) => AlikeOut(p, Done(q), Done(r))
  BY AlikeDone
<1>6. AlikeOut(p, RLockEffect(p, s, step, a), RLockEffect(p, z, step, a))
  <2> DEFINE f == [l EXCEPT !.reader_holders = @ \cup {t}]
             g == [k EXCEPT !.reader_holders = @ \cup {t}]
  <2>1. SameHolders(f, g)
    BY <1>2
  <2> DEFINE refused == t \in l.reader_holders \/ l.writer_holder = t
             q == [n EXCEPT !.thread_clock[t] = Join(n.thread_clock[t], l.writer_release),
                            !.rwlocks[x] = f]
             r == [m EXCEPT !.thread_clock[t] = Join(m.thread_clock[t], k.writer_release),
                            !.rwlocks[x] = g]
             text == "rwlock reentrancy"
  <2>2. /\ RLockEffect(p, s, step, a) = IF refused THEN ModelError(n, step, text) ELSE Done(q)
        /\ RLockEffect(p, z, step, a) = IF refused THEN ModelError(m, step, text) ELSE Done(r)
    BY <1>1, <1>2 DEF RLockEffect, n, m, Alike, HasShape, StateFields
  <2> HIDE DEF f, g
  <2>3. Alike(p, q, r)
    BY <1>3, <2>1
  <2> HIDE DEF q, r, refused
  <2> QED BY <1>4, <1>5, <2>2, <2>3
<1>7. ASSUME NEW f, NEW g, SameHolders(f, g)
      PROVE  AlikeOut(p, Done(AcquireExclusive(n, t, a, f)), Done(AcquireExclusive(m, t, a, g)))
  <2>1. SameHolders([f EXCEPT !.reader_releases = Zero, !.writer_holder = t],
                    [g EXCEPT !.reader_releases = Zero, !.writer_holder = t])
    BY <1>7
  <2> QED BY <1>3, <1>5, <2>1 DEF AcquireExclusive
<1>8. AlikeOut(p, WLockEffect(p, s, step, a), WLockEffect(p, z, step, a))
  BY <1>2, <1>4, <1>7 DEF WLockEffect, n, m
<1>9. AlikeOut(p, UpgradeEffect(p, s, step, a), UpgradeEffect(p, z, step, a))
  <2>1. SameHolders([l EXCEPT !.reader_holders = @ \ {t}], [k EXCEPT !.reader_holders = @ \ {t}])
    BY <1>2
  <2> QED BY <1>2, <1>4, <1>7, <2>1 DEF UpgradeEffect, n, m
<1>10. AlikeOut(p, RUnlockEffect(p, s, step, a), RUnlockEffect(p, z, step, a))
  <2>1. \A c, d : SameHolders([l EXCEPT !.reader_releases = c, !.reader_holders = @ \ {t}],
                              [k EXCEPT !.reader_releases = d, !.reader_holders = @ \ {t}])
    BY <1>2
  <2> QED BY <1>2, <1>3, <1>4, <1>5, <2>1 DEF RUnlockEffect, n, m
<1>11. ASSUME NEW readers
       PROVE  AlikeOut(p, Done(ReleaseExclusive(n, t, a, readers)), Done(ReleaseExclusive(m, t, a, readers)))
  <2>1. \A c, d : SameHolders([l EXCEPT !.writer_release = c, !.writer_holder = NoThread,
                                        !.reader_holders = @ \cup readers],
                              [k EXCEPT !.writer_release = d, !.writer_holder = NoThread,
                                        !.reader_holders = @ \cup readers])
    BY <1>2
  <2> QED BY <1>1, <1>3, <1>5, <2>1 DEF ReleaseExclusive
<1>12. /\ AlikeOut(p, WUnlockEffect(p, s, step, a), WUnlockEffect(p, z, step, a))
       /\ AlikeOut(p, DowngradeEffect(p, s, step, a), DowngradeEffect(p, z, step, a))
  BY <1>2, <1>4, <1>11 DEF WUnlockEffect, DowngradeEffect, n, m
<1> QED BY <1>6, <1>8, <1>9, <1>10, <1>12 DEF RwLockEffect, RwLockKinds

\* Post and wait of a semaphore.
LEMMA AlikeSemaphore ==
    ASSUME NEW p, NEW s, NEW z, Alike(p, s, z), NEW step, NEW a, a.semaphore \in Semaphores
    PROVE  /\ AlikeOut(p, SemPostEffect(p, s, step, a), SemPostEffect(p, z, step, a))
           /\ AlikeOut(p, SemWaitEffect(p, s, step, a), SemWaitEffect(p, z, step, a))
<1> DEFINE t == step.thread
           x == a.semaphore
           n == advance_pc(p, s, t)
           m == advance_pc(p, z, t)
           l == s.semaphores[x]
           k == z.semaphores[x]
           SamePermits(f, g) == /\ "permits" \in DOMAIN f /\ "permits" \in DOMAIN g
                                /\ f.permits = g.permits
<1>1. Alike(p, n, m)
  BY AlikeWrites
<1>2. SamePermits(l, k)
  BY DEF Alike, SameObjects, HasShape
<1> HIDE DEF n, m
<1>3. ASSUME NEW f, NEW g, SamePermits(f, g), NEW c, NEW d
      PROVE  /\ Alike(p, [n EXCEPT !.semaphores[x] = f, !.thread_clock[t] = c],
                         [m EXCEPT !.semaphores[x] = g, !.thread_clock[t] = d])
             /\ Alike(p, [n EXCEPT !.semaphores[x] = f], [m EXCEPT !.semaphores[x] = g])
  BY <1>1, <1>3 DEF Alike, HasShape, StateFields, SameControl, SameObjects
<1>4. AlikeOut(p, SemPostEffect(p, s, step, a), SemPostEffect(p, z, step, a))
  <2> DEFINE f == [l EXCEPT !.permits = @ + 1, !.post_releases = Join(@, s.thread_clock[t])]
             g == [k EXCEPT !.permits = @ + 1, !.post_releases = Join(@, z.thread_clock[t])]
  <2>1. SamePermits(f, g)
    BY <1>2
  <2> DEFINE q == [n EXCEPT !.semaphores[x] = f]
             r == [m EXCEPT !.semaphores[x] = g]
  <2>2. SemPostEffect(p, s, step, a) = Done(q) /\ SemPostEffect(p, z, step, a) = Done(r)
    BY DEF SemPostEffect, n, m
  <2> HIDE DEF f, g
  <2>3. Alike(p, q, r)
    BY <1>3, <2>1
  <2> HIDE DEF q, r
  <2> QED BY <2>2, <2>3, AlikeDone
<1>5. AlikeOut(p, SemWaitEffect(p, s, step, a), SemWaitEffect(p, z, step, a))
  <2> DEFINE f == [l EXCEPT !.permits = @ - 1]
             g == [k EXCEPT !.permits = @ - 1]
             q == [n EXCEPT !.semaphores[x] = f,
                            !.thread_clock[t] = Join(n.thread_clock[t], l.post_releases)]
             r == [m EXCEPT !.semaphores[x] = g,
                            !.thread_clock[t] = Join(m.thread_clock[t], k.post_releases)]
  <2>1. SamePermits(f, g)
    BY <1>2
  <2>2. SemWaitEffect(p, s, step, a) = Done(q) /\ SemWaitEffect(p, z, step, a) = Done(r)
    BY <1>1 DEF SemWaitEffect, n, m, Alike, HasShape, StateFields
  <2> HIDE DEF f, g
  <2>3. Alike(p, q, r)
    BY <1>3, <2>1
  <2> HIDE DEF q, r
  <2> QED BY <2>2, <2>3, AlikeDone
<1> QED BY <1>4, <1>5

\* An arrival at a barrier, which the last one opens.
LEMMA AlikeBarrier ==
    ASSUME NEW p, NEW s, NEW z, Alike(p, s, z), NEW step, NEW a, a.barrier \in Barriers,
           a.parties \in Nat,
           Cardinality(s.barriers[a.barrier].arrivals \cup {step.thread}) \in Nat
    PROVE  AlikeOut(p, BarrierWaitEffect(p, s, step, a), BarrierWaitEffect(p, z, step, a))
<1> DEFINE t == step.thread
           x == a.barrier
           l == s.barriers[x]
           k == z.barriers[x]
           team == l.arrivals \cup {t}
           SameArrivals(f, g) == /\ {"arrivals", "parties"} \subseteq DOMAIN f
                                 /\ {"arrivals", "parties"} \subseteq DOMAIN g
                                 /\ f.arrivals = g.arrivals
                                 /\ f.parties = BarrierParties(p, x)
                                 /\ g.parties = BarrierParties(p, x)
<1>1. SameArrivals(l, k) /\ team = k.arrivals \cup {t} /\ l.parties = k.parties
  BY DEF Alike, SameObjects, HasShape
<1>2. ASSUME NEW f, NEW g, SameArrivals(f, g)
      PROVE  /\ Alike(p, [s EXCEPT !.barriers[x] = f], [z EXCEPT !.barriers[x] = g])
             /\ \A c, d, e : Alike(p, [s EXCEPT !.thread_clock = c, !.pc = e, !.barriers[x] = f],
                                      [z EXCEPT !.thread_clock = d, !.pc = e, !.barriers[x] = g])
  BY <1>2 DEF Alike, HasShape, StateFields, SameControl, SameObjects
<1>3. \A text : AlikeOut(p, ModelError(advance_pc(p, s, t), step, text),
                            ModelError(advance_pc(p, z, t), step, text))
  BY AlikeWrites, AlikeDone
<1>4. ASSUME NEW c, NEW d
      PROVE  AlikeOut(p, Done(ReleaseGeneration(p, s, x, team, c)),
                         Done(ReleaseGeneration(p, z, x, team, d)))
  <2> DEFINE f == [l EXCEPT !.arrivals = {}, !.arrival_releases = Zero, !.generation = @ + 1]
             g == [k EXCEPT !.arrivals = {}, !.arrival_releases = Zero, !.generation = @ + 1]
             Clocks(i, j) == [u \in ThreadId |-> IF u \in team THEN Join(i.thread_clock[u], j)
                                                 ELSE i.thread_clock[u]]
             moved == [u \in ThreadId |-> IF u \in team THEN normalize_pc(p, u, s.pc[u] + 1)
                                          ELSE s.pc[u]]
             q == [s EXCEPT !.thread_clock = Clocks(s, c), !.pc = moved, !.barriers[x] = f]
             r == [z EXCEPT !.thread_clock = Clocks(z, d), !.pc = moved, !.barriers[x] = g]
  <2>1. SameArrivals(f, g)
    BY <1>1
  <2>2. s.pc = z.pc
    BY DEF Alike, SameControl
  <2>3. ReleaseGeneration(p, s, x, team, c) = q /\ ReleaseGeneration(p, z, x, team, d) = r
    BY <2>2 DEF ReleaseGeneration, Alike, HasShape, StateFields
  <2> HIDE DEF f, g, Clocks, moved
  <2>4. Alike(p, q, r)
    BY <1>2, <2>1
  <2> HIDE DEF q, r
  <2> QED BY <2>3, <2>4, AlikeDone
<1>5. ASSUME NEW c, NEW d
      PROVE  AlikeOut(p, Done([s EXCEPT !.barriers[x] =
                                   [l EXCEPT !.arrivals = team, !.arrival_releases = c]]),
                         Done([z EXCEPT !.barriers[x] =
                                   [k EXCEPT !.arrivals = team, !.arrival_releases = d]]))
  <2> DEFINE f == [l EXCEPT !.arrivals = team, !.arrival_releases = c]
             g == [k EXCEPT !.arrivals = team, !.arrival_releases = d]
  <2>1. SameArrivals(f, g)
    BY <1>1
  <2> HIDE DEF f, g
  <2> QED BY <1>2, <2>1, AlikeDone DEF f, g
<1> DEFINE wrong == a.parties = 0 \/ a.parties # l.parties
           short == Cardinality(team) < l.parties
           full == Cardinality(team) >= l.parties
           c == Join(l.arrival_releases, s.thread_clock[t])
           d == Join(k.arrival_releases, z.thread_clock[t])
<1>6. a.parties = l.parties => (short <=> ~full)
  <2>1. Cardinality(team) \in Nat
    OBVIOUS
  <2> QED BY <2>1
<1>7. CASE wrong
  BY <1>1, <1>3, <1>7 DEF BarrierWaitEffect
<1>8. CASE ~wrong /\ short
  <2> DEFINE q == Done([s EXCEPT !.barriers[x] =
                                   [l EXCEPT !.arrivals = team, !.arrival_releases = c]])
             r == Done([z EXCEPT !.barriers[x] =
                                   [k EXCEPT !.arrivals = team, !.arrival_releases = d]])
  <2>1. BarrierWaitEffect(p, s, step, a) = q /\ BarrierWaitEffect(p, z, step, a) = r
    BY <1>1, <1>6, <1>8 DEF BarrierWaitEffect
  <2>2. AlikeOut(p, q, r)
    BY <1>5
  <2> HIDE DEF q, r
  <2> QED BY <2>1, <2>2
<1>9. CASE ~wrong /\ ~short
  <2>1. full
    BY <1>6, <1>9
  <2>2. /\ BarrierWaitEffect(p, s, step, a) = Done(ReleaseGeneration(p, s, x, team, c))
        /\ BarrierWaitEffect(p, z, step, a) = Done(ReleaseGeneration(p, z, x, team, d))
    BY <1>1, <1>6, <1>9, <2>1 DEF BarrierWaitEffect
  <2> QED BY <1>4, <2>2
<1> QED BY <1>7, <1>8, <1>9

\* Spawn and Join.
LEMMA AlikeThreads ==
    ASSUME NEW p, NEW s, NEW z, Alike(p, s, z), NEW step, NEW a
    PROVE  /\ AlikeOut(p, SpawnEffect(p, s, step, a), SpawnEffect(p, z, step, a))
           /\ AlikeOut(p, JoinEffect(p, s, step, a), JoinEffect(p, z, step, a))
<1> DEFINE t == step.thread
           n == advance_pc(p, s, t)
           m == advance_pc(p, z, t)
           u == a.target
<1>1. Alike(p, n, m)
  BY AlikeWrites
<1>2. s.started = z.started
  BY DEF Alike, SameControl
<1> HIDE DEF n, m
<1>3. \A text : AlikeOut(p, ModelError(n, step, text), ModelError(m, step, text))
  BY <1>1, AlikeDone
<1>4. AlikeOut(p, SpawnEffect(p, s, step, a), SpawnEffect(p, z, step, a))
  <2> DEFINE Begun(k, c) == [k EXCEPT !.started[u] = TRUE, !.pc[u] = normalize_pc(p, u, @),
                                      !.thread_clock[u] = Join(@, c)]
             Out(k) == [state |-> k, report |-> [NoReport EXCEPT !.spawned_thread = u]]
             refused == InvalidTarget(t, a) \/ s.started[u]
             q == Begun(n, s.thread_clock[t])
             r == Begun(m, z.thread_clock[t])
  <2>1. n.pc[u] = m.pc[u]
    BY <1>1 DEF Alike, SameControl
  <2>2. Alike(p, q, r)
    BY <1>1, <2>1 DEF Alike, HasShape, StateFields, SameControl, SameObjects
  <2>3. /\ SpawnEffect(p, s, step, a) = IF refused THEN ModelError(n, step, "spawn") ELSE Out(q)
        /\ SpawnEffect(p, z, step, a) = IF refused THEN ModelError(m, step, "spawn") ELSE Out(r)
    BY <1>2 DEF SpawnEffect, n, m
  <2> HIDE DEF q, r, refused
  <2>4. AlikeOut(p, Out(q), Out(r))
    BY <2>2 DEF AlikeOut, Failed, NoReport
  <2> HIDE DEF Out
  <2> QED BY <1>3, <2>3, <2>4
<1>5. AlikeOut(p, JoinEffect(p, s, step, a), JoinEffect(p, z, step, a))
  <2>1. \A c, d : Alike(p, [n EXCEPT !.thread_clock[t] = Join(@, c)],
                           [m EXCEPT !.thread_clock[t] = Join(@, d)])
    BY <1>1 DEF Alike, HasShape, StateFields, SameControl, SameObjects
  <2> QED BY <1>3, <2>1, AlikeDone DEF JoinEffect, n, m
<1> QED BY <1>4, <1>5

\* The actions of one thread alone.
LEMMA AlikeLocal ==
    ASSUME NEW p, NEW s, NEW z, Alike(p, s, z), NEW step, NEW a,
           a.kind \in {"Set", "BranchNonzero", "Assert", "Fence", "Yield"}
    PROVE  AlikeOut(p, LocalEffect(p, s, step, a), LocalEffect(p, z, step, a))
<1> DEFINE t == step.thread
<1>1. /\ \A r : read_register(s, t, r) = read_register(z, t, r)
      /\ \A o, v : evaluate_operand_or(s, t, o, v) = evaluate_operand_or(z, t, o, v)
  BY AlikeValues
<1>2. \A q, r : Alike(p, q, r) =>
         /\ Alike(p, advance_pc(p, q, t), advance_pc(p, r, t))
         /\ \A i, v : Alike(p, write_register(q, t, i, v), write_register(r, t, i, v))
         /\ \A i : Alike(p, [q EXCEPT !.pc[t] = i], [r EXCEPT !.pc[t] = i])
         /\ AlikeOut(p, Done(q), Done(r))
         /\ \A text : AlikeOut(p, ModelError(q, step, text), ModelError(r, step, text))
  BY AlikeWrites, AlikeDone
<1>3. AlikeOut(p, SetEffect(p, s, step, a), SetEffect(p, z, step, a))
  BY <1>1, <1>2 DEF SetEffect
<1>4. AlikeOut(p, BranchEffect(p, s, step, a), BranchEffect(p, z, step, a))
  <2> DEFINE taken == read_register(s, t, RegisterOr0(a.source_register)) # 0
             next == resolve_label(p, t, a.label)
             i == normalize_pc(p, t, CHOOSE j \in next : TRUE)
  <2>1. taken <=> read_register(z, t, RegisterOr0(a.source_register)) # 0
    BY <1>1
  <2> HIDE DEF taken, next
  <2>2. CASE taken /\ next # {}
    <3>1. /\ BranchEffect(p, s, step, a) = Done([s EXCEPT !.pc[t] = i])
          /\ BranchEffect(p, z, step, a) = Done([z EXCEPT !.pc[t] = i])
      BY <2>1, <2>2 DEF BranchEffect, taken, next
    <3> QED BY <1>2, <3>1
  <2>3. CASE taken /\ next = {}
    BY <1>2, <2>1, <2>3 DEF BranchEffect, taken, next
  <2>4. CASE ~taken
    BY <1>2, <2>1, <2>4 DEF BranchEffect, taken, next
  <2> QED BY <2>2, <2>3, <2>4
<1>5. AlikeOut(p, AssertEffect(p, s, step, a), AssertEffect(p, z, step, a))
  <2>1. \A q, r, report : Alike(p, q, r) =>
           AlikeOut(p, [state |-> q, report |-> report], [state |-> r, report |-> report])
    BY DEF AlikeOut, Failed
  <2> QED BY <1>1, <1>2, <2>1 DEF AssertEffect
<1>6. AlikeOut(p, Done(advance_pc(p, s, t)), Done(advance_pc(p, z, t)))
  BY <1>2
<1> QED BY <1>3, <1>4, <1>5, <1>6 DEF LocalEffect

\* The same steps are enabled.
LEMMA AlikeEnabled ==
    ASSUME NEW p \in Programs, NEW s, NEW z, Alike(p, s, z), NEW t \in ThreadId, s.pc[t] \in Nat
    PROVE  /\ is_program_action_enabled(p, s, t) <=> is_program_action_enabled(p, z, t)
           /\ FlushSteps(p, s, t) = FlushSteps(p, z, t)
           /\ enabled_steps_for_thread(p, s, t) = enabled_steps_for_thread(p, z, t)
<1> DEFINE a == next_action(p, s, t)
<1>1. SameControl(s, z) /\ SameObjects(s, z) /\ a = next_action(p, z, t)
  BY AlikeValues DEF Alike
<1>2. /\ has_pending_store(s, t) <=> has_pending_store(z, t)
      /\ \A u : is_finished(p, s, u) <=> is_finished(p, z, u)
      /\ has_next_action(p, s, t) <=> has_next_action(p, z, t)
  BY <1>1 DEF SameControl, has_pending_store, is_finished, has_next_action
<1>3. FlushSteps(p, s, t) = FlushSteps(p, z, t)
  BY <1>1 DEF SameControl, FlushSteps
<1>4. has_next_action(p, s, t) => a \in Action
  BY ActionType DEF has_next_action, next_action
<1> HIDE DEF a
<1>5. ASSUME a \in Action
      PROVE  /\ a.kind \in {"RLock", "WLock", "Upgrade"} => a.rwlock \in RwLocks
             /\ a.kind = "SemWait" => a.semaphore \in Semaphores
             /\ a.kind = "BarrierWait" => a.barrier \in Barriers
  BY <1>5, KindFields DEF RwLockActions, SemaphoreActions, BarrierActions, RwLockKinds,
                          SemaphoreKinds
<1>6. \A b \in Barriers : s.barriers[b].parties = z.barriers[b].parties
  BY DEF Alike, HasShape
<1>7. is_program_action_enabled(p, s, t) <=> is_program_action_enabled(p, z, t)
  BY <1>1, <1>2, <1>4, <1>5, <1>6 DEF is_program_action_enabled, SameControl, SameObjects, a
<1> QED BY <1>1, <1>3, <1>7 DEF SameControl, enabled_steps_for_thread

\* Every source action.
LEMMA AlikeSource ==
    ASSUME NEW p, NEW m, NEW s, NEW z, NEW step, NEW a, Alike(p, s, z), Steps(p, m, s, step, a)
    PROVE  AlikeOut(p, SourceEffect(p, s, step, a), SourceEffect(p, z, step, a))
<1> DEFINE t == step.thread
           out == SourceEffect(p, s, step, a)
           other == SourceEffect(p, z, step, a)
<1>1. /\ t \in ThreadId /\ s \in CountedState(p, m) /\ a \in Action /\ a.kind # "Label"
      /\ a.kind = "Wait" => s.wait_phase[t] # "Waiting"
  BY StepsFacts DEF Steps, is_program_action_enabled
<1>2. s.memory_model \in MemoryModel /\ s.wait_phase[t] \in WaitPhase
  BY <1>1 DEF CountedState
<1>3. CASE a.kind \in {"Read", "Write"} \cup AtomicKinds
  <2>1. out = MemoryEffect(p, s, step, a) /\ other = MemoryEffect(p, z, step, a)
    BY <1>3 DEF SourceEffect, ThreadLocalKinds, RwLockKinds, MutexKinds, AtomicKinds,
                      WaitKinds, NotifyKinds, SemaphoreKinds, ThreadKinds
  <2> HIDE DEF out, other
  <2>2. AlikeOut(p, out, other)
    BY <1>2, <1>3, <2>1, AlikeMemory
  <2> QED BY <2>2 DEF out, other
<1>4. CASE a.kind \in MutexKinds
  <2>1. out = MutexEffect(p, s, step, a) /\ other = MutexEffect(p, z, step, a)
    BY <1>4 DEF SourceEffect, ThreadLocalKinds, RwLockKinds, MutexKinds, AtomicKinds,
                      WaitKinds, NotifyKinds, SemaphoreKinds, ThreadKinds
  <2> HIDE DEF out, other
  <2>2. AlikeOut(p, out, other)
    BY <1>4, <2>1, AlikeMutex
  <2> QED BY <2>2 DEF out, other
<1>5. CASE a.kind \in RwLockKinds
  <2>1. out = RwLockEffect(p, s, step, a) /\ other = RwLockEffect(p, z, step, a)
    BY <1>5 DEF SourceEffect, ThreadLocalKinds, RwLockKinds, MutexKinds, AtomicKinds,
                      WaitKinds, NotifyKinds, SemaphoreKinds, ThreadKinds
  <2> HIDE DEF out, other
  <2>2. a.rwlock \in RwLocks
    BY <1>1, <1>5, KindFields DEF RwLockActions
  <2>3. AlikeOut(p, out, other)
    BY <1>5, <2>1, <2>2, AlikeRwLock
  <2> QED BY <2>3 DEF out, other
<1>6. CASE a.kind \in {"Set", "BranchNonzero", "Assert", "Fence", "Yield"}
  <2>1. out = LocalEffect(p, s, step, a) /\ other = LocalEffect(p, z, step, a)
    BY <1>6 DEF SourceEffect, ThreadLocalKinds, RwLockKinds, MutexKinds, AtomicKinds,
                      WaitKinds, NotifyKinds, SemaphoreKinds, ThreadKinds
  <2> HIDE DEF out, other
  <2>2. AlikeOut(p, out, other)
    BY <1>6, <2>1, AlikeLocal
  <2> QED BY <2>2 DEF out, other
<1>7. CASE a.kind \in WaitKinds \cup NotifyKinds \cup SemaphoreKinds \cup ThreadKinds
                        \cup {"BarrierWait"}
  <2>1. out = OtherSyncEffect(p, s, step, a) /\ other = OtherSyncEffect(p, z, step, a)
    BY <1>1, <1>7 DEF SourceEffect, ThreadLocalKinds, RwLockKinds, MutexKinds, AtomicKinds,
                      WaitKinds, NotifyKinds, SemaphoreKinds, ThreadKinds
  <2> HIDE DEF out, other
  <2>2. CASE a.kind \in WaitKinds
    <3>1. AlikeOut(p, WaitEffect(p, s, step, a), WaitEffect(p, z, step, a))
      BY <1>1, <1>2, <2>2, AlikeWait DEF WaitKinds
    <3> QED BY <2>1, <2>2, <3>1 DEF OtherSyncEffect, WaitKinds, out, other
  <2>3. CASE a.kind \in NotifyKinds
    BY <2>1, <2>3, AlikeNotify DEF OtherSyncEffect, NotifyKinds, WaitKinds, out, other
  <2>4. CASE a.kind \in SemaphoreKinds
    <3>1. a.semaphore \in Semaphores
      BY <1>1, <2>4, KindFields DEF SemaphoreActions
    <3>2. \/ /\ out = SemPostEffect(p, s, step, a) /\ other = SemPostEffect(p, z, step, a)
          \/ /\ out = SemWaitEffect(p, s, step, a) /\ other = SemWaitEffect(p, z, step, a)
      BY <2>1, <2>4 DEF OtherSyncEffect, SemaphoreKinds, WaitKinds
    <3>3. AlikeOut(p, out, other)
      BY <3>1, <3>2, AlikeSemaphore
    <3> QED BY <3>3 DEF out, other
  <2>5. CASE a.kind \in ThreadKinds
    BY <2>1, <2>5, AlikeThreads DEF OtherSyncEffect, ThreadKinds, WaitKinds, out, other
  <2>6. CASE a.kind = "BarrierWait"
    <3>1. a.barrier \in Barriers /\ a.parties \in Nat
      BY <1>1, <2>6, KindFields DEF BarrierActions
    <3>2. Cardinality(s.barriers[a.barrier].arrivals \cup {t}) \in Nat
      <4>1. s.barriers[a.barrier].arrivals \cup {t} \in SUBSET ThreadId
        BY <1>1, <3>1 DEF CountedState, BarrierBelow
      <4>2. IsFiniteSet(ThreadId)
        BY SizesAssumption, FS_Interval DEF ThreadId
      <4> QED BY <4>1, <4>2, FS_Subset, FS_CardinalityType
    <3>3. AlikeOut(p, BarrierWaitEffect(p, s, step, a), BarrierWaitEffect(p, z, step, a))
      BY <3>1, <3>2, AlikeBarrier
    <3> QED BY <2>1, <2>6, <3>3 DEF OtherSyncEffect, WaitKinds, out, other
  <2> QED BY <1>7, <2>2, <2>3, <2>4, <2>5, <2>6
<1> QED BY <1>1, <1>3, <1>4, <1>5, <1>6, <1>7, Dispatch

\* Two states alike take the same steps, and take them alike.
LEMMA AlikeStep ==
    ASSUME NEW p \in Programs, NEW s, NEW z, Alike(p, s, z), Sound(p, s)
    PROVE  /\ \A t \in ThreadId : enabled_steps_for_thread(p, s, t) = enabled_steps_for_thread(p, z, t)
           /\ enabled_steps(p, s) = enabled_steps(p, z)
           /\ \A step \in enabled_steps(p, s) :
                 AlikeOut(p, execute_enabled_step(p, s, step), execute_enabled_step(p, z, step))
<1>1. \A t \in ThreadId : s.pc[t] \in Nat
  BY DEF Sound, Good, CountedState, Counters
<1>2. \A t \in ThreadId : enabled_steps_for_thread(p, s, t) = enabled_steps_for_thread(p, z, t)
  BY <1>1, AlikeEnabled
<1>3. enabled_steps(p, s) = enabled_steps(p, z)
  BY <1>2 DEF enabled_steps
<1>4. ASSUME NEW step \in enabled_steps(p, s)
      PROVE  AlikeOut(p, execute_enabled_step(p, s, step), execute_enabled_step(p, z, step))
  <2> DEFINE t == step.thread
             m == CountedBy(Tick(s.thread_steps, t))
             q == BeginStep(s, t)
             r == BeginStep(z, t)
  <2>1. t \in ThreadId /\ GivenStep(p, s, step)
    BY EnabledGiven
  <2>3. Alike(p, q, r)
    BY AlikeClocks
  <2>4. /\ effective_action_for_step(p, s, step) = effective_action_for_step(p, z, step)
        /\ next_action(p, s, t) = next_action(p, z, t)
        /\ next_action(p, q, t) = next_action(p, s, t)
    <3>1. q.pc = s.pc
      BY DEF Alike, HasShape, StateFields, BeginStep
    <3> QED BY <3>1 DEF Alike, SameControl, effective_action_for_step, effective_next_action,
                        next_action
  <2> HIDE DEF m, q, r
  <2>5. CASE is_flush_step(step)
    BY <2>3, <2>4, <2>5, AlikeFlush DEF execute_enabled_step, q, r
  <2>6. CASE ~is_flush_step(step)
    <3> DEFINE n == CountedBy(s.thread_steps)
               a == next_action(p, s, t)
    <3>1. /\ n \in Counts /\ Good(p, n, s) /\ m \in Counts /\ CountsTick(n, m, t)
          /\ Tick(s.thread_clock[t], t) \in m.clocks
      <4>1. n \in Counts /\ Good(p, n, s) /\ s.thread_steps \in Clock
        BY AnyClockCounts DEF Sound
      <4>2. s.thread_clock[t] \in Clock
        BY <2>1, <4>1, CountedClocked DEF Good, Clocked
      <4> QED BY <2>1, <4>1, <4>2, AnyClockCounts, TickType DEF m
    <3>2. is_program_action_enabled(p, s, t) /\ step \in ScheduleStep
      <4>1. step \notin FlushSteps(p, s, t)
        BY <2>1, <2>6, <3>1, FlushTarget
      <4> QED BY <2>1, <4>1, EnabledTyped DEF GivenStep
    <3>3. a \in Action
      BY <1>1, <2>1, <3>2, ActionType DEF is_program_action_enabled, has_next_action, next_action
    <3> HIDE DEF n, a
    <3>4. Steps(p, m, q, step, a)
      <4>1. Good(p, m, q) /\ is_program_action_enabled(p, q, t)
        BY <2>1, <3>1, <3>2, EnabledNotArrived, BegunGood DEF q
      <4> QED BY <2>4, <3>1, <3>2, <3>3, <4>1 DEF Steps, a
    <3>5. AlikeOut(p, SourceEffect(p, q, step, a), SourceEffect(p, r, step, a))
      BY <2>3, <3>4, AlikeSource
    <3> QED BY <2>4, <2>6, <3>5 DEF execute_enabled_step, q, r, a
  <2> QED BY <2>5, <2>6
<1> QED BY <1>2, <1>3, <1>4

\* An execution starts in such a state.
LEMMA AlikeInitial ==
    ASSUME NEW p \in Programs, NEW model
    PROVE  HasShape(p, initial_state(p, model))
BY DEF HasShape, StateFields, initial_state, initial_barriers, FreeRwLock

-----------------------------------------------------------------------------
(***************************************************************************)
(* Executions that take the steps of a schedule, and Retrace.              *)
(***************************************************************************)
\* From state s the step leads to state q, and does not end the execution.
Follows(p, s, step, q) ==
    /\ step \in enabled_steps(p, s)
    /\ q = execute_enabled_step(p, s, step).state
    /\ ~Failed(execute_enabled_step(p, s, step))

\* The states are those of an execution that takes the steps k, the initial one first.
Executes(states, p, k, model) ==
    /\ IsSeq(states) /\ Len(states) = Len(k) + 1
    /\ states[1] = initial_state(p, model)
    /\ \A i \in 1 .. Len(k) : Follows(p, states[i], k[i], states[i + 1])

\* What is known of each of them.
Lived(p, model, s) == Sound(p, s) /\ HasShape(p, s) /\ s.memory_model = model

\* A step leads from such a state to such a state.
LEMMA LivesOn ==
    ASSUME NEW p \in Programs, NEW model, NEW s, Lived(p, model, s), NEW step, NEW q,
           Follows(p, s, step, q)
    PROVE  Lived(p, model, q) /\ step \in ScheduleStep /\ validate_replay_step(p, s, step)
<1> DEFINE out == execute_enabled_step(p, s, step)
<1>1. /\ Sound(p, s) /\ HasShape(p, s) /\ s.memory_model = model
      /\ step \in enabled_steps(p, s) /\ q = out.state
  BY DEF Lived, Follows
<1>2. step.thread \in ThreadId /\ GivenStep(p, s, step)
  BY <1>1, EnabledGiven
<1>3. Sound(p, out.state) /\ out.state.memory_model = s.memory_model
  BY <1>1, <1>2, StepSound
<1>4. HasShape(p, out.state)
  <2>1. Alike(p, s, s)
    BY <1>1 DEF Alike, SameControl, SameObjects
  <2>2. AlikeOut(p, out, out)
    BY <1>1, <2>1, AlikeStep
  <2> HIDE DEF out
  <2> QED BY <2>2 DEF AlikeOut, Alike
<1>5. validate_replay_step(p, s, step) /\ step \in ScheduleStep
  BY <1>1, EnabledValid
<1> HIDE DEF out
<1> QED BY <1>1, <1>3, <1>4, <1>5 DEF Lived

\* An execution lives through its last state: a first one that did not live would follow
\* one that does.
LEMMA ExecutesLives ==
    ASSUME NEW p \in Programs, NEW model \in MemoryModel, NEW k, Len(k) \in Nat,
           NEW states, Executes(states, p, k, model)
    PROVE  \A i \in 1 .. Len(k) + 1 : Lived(p, model, states[i])
<1> DEFINE dead == {i \in 1 .. Len(k) + 1 : ~Lived(p, model, states[i])}
<1> SUFFICES ASSUME dead # {} PROVE FALSE
  OBVIOUS
<1> DEFINE n == Min(dead)
<1>1. n \in dead /\ \A m \in dead : n <= m
  <2>1. dead \in SUBSET Nat
    OBVIOUS
  <2> HIDE DEF dead
  <2> QED BY <2>1, LeastNatural
<1> HIDE DEF n
<1>2. Lived(p, model, states[1])
  BY InitialSound, AlikeInitial DEF Executes, Lived
<1>3. n # 1
  BY <1>1, <1>2
<1>4. n - 1 \in 1 .. Len(k) /\ n - 1 \in 1 .. Len(k) + 1 /\ n - 1 \notin dead /\ (n - 1) + 1 = n
  BY <1>1, <1>3
<1>5. Lived(p, model, states[n - 1]) /\ Follows(p, states[n - 1], k[n - 1], states[n])
  <2>1. \A i \in 1 .. Len(k) : Follows(p, states[i], k[i], states[i + 1])
    BY DEF Executes
  <2> QED BY <1>4, <2>1
<1> QED BY <1>1, <1>5, LivesOn

\* One more step that an execution can take.
LEMMA ExecutesMore ==
    ASSUME NEW p, NEW model, NEW S, NEW k \in Seq(S), NEW step \in S, NEW states,
           Executes(states, p, k, model),
           NEW q, Follows(p, states[Len(k) + 1], step, q)
    PROVE  Executes(Append(states, q), p, Append(k, step), model)
<1> DEFINE h == Append(k, step)
           longer == Append(states, q)
<1>1. /\ Len(k) \in Nat /\ Len(h) = Len(k) + 1 /\ h[Len(k) + 1] = step
      /\ \A i \in 1 .. Len(k) : h[i] = k[i]
  OBVIOUS
<1>2. /\ IsSeq(states) /\ Len(states) = Len(k) + 1 /\ states[1] = initial_state(p, model)
      /\ \A i \in 1 .. Len(k) : Follows(p, states[i], k[i], states[i + 1])
  BY DEF Executes
<1>3. /\ IsSeq(longer) /\ Len(longer) = Len(k) + 2 /\ longer[Len(k) + 2] = q
      /\ \A i \in 1 .. Len(k) + 1 : longer[i] = states[i]
  <2>1. Len(states) + 1 = Len(k) + 2
    BY <1>1, <1>2
  <2> QED BY <1>2, <2>1, SeqAppend
<1> HIDE DEF h, longer
<1>4. ASSUME NEW i \in 1 .. Len(h) PROVE Follows(p, longer[i], h[i], longer[i + 1])
  <2>1. CASE i \in 1 .. Len(k)
    <3>1. i \in 1 .. Len(k) + 1 /\ i + 1 \in 1 .. Len(k) + 1
      BY <1>1, <2>1
    <3> QED BY <1>1, <1>2, <1>3, <2>1, <3>1
  <2>2. CASE i = Len(k) + 1
    <3>1. i \in 1 .. Len(k) + 1 /\ i + 1 = Len(k) + 2
      BY <1>1, <2>2
    <3> QED BY <1>1, <1>3, <2>2, <3>1
  <2> QED BY <1>1, <2>1, <2>2
<1>5. Len(longer) = Len(h) + 1 /\ longer[1] = initial_state(p, model)
  BY <1>1, <1>2, <1>3
<1>6. Executes(longer, p, h, model)
  BY <1>3, <1>4, <1>5 DEF Executes
<1> QED BY <1>6 DEF h, longer

\* after[n] is what Retrace makes of the first n steps of the schedule h.
IsRetrace(after, p, h, model) ==
    after = [n \in 0 .. Len(h) |->
                IF n = 0 THEN [states |-> <<initial_state(p, model)>>, replays |-> TRUE]
                ELSE RetraceStep(p, after[n - 1], h[n])]

\* There is only one such function, and Retrace is its last value.
LEMMA RetraceIs ==
    ASSUME NEW after, NEW p, NEW model, NEW S, NEW h \in Seq(S),
           IsRetrace(after, p, h, model)
    PROVE  Retrace(p, h, model) = after[Len(h)]
<1> DEFINE start == [states |-> <<initial_state(p, model)>>, replays |-> TRUE]
           Q(f) == f = [n \in 0 .. Len(h) |-> IF n = 0 THEN start
                                              ELSE RetraceStep(p, f[n - 1], h[n])]
           other == CHOOSE f : Q(f)
<1>1. Q(after)
  BY DEF IsRetrace
<1>2. Retrace(p, h, model) = other[Len(h)]
  BY DEF Retrace
<1> HIDE DEF start
<1>3. Q(other)
  <2> HIDE DEF Q
  <2> QED BY <1>1
<1> HIDE DEF other
<1>4. Len(h) \in Nat
  OBVIOUS
<1>5. ASSUME NEW f, Q(f)
      PROVE  f[0] = start /\ \A n \in 1 .. Len(h) : f[n] = RetraceStep(p, f[n - 1], h[n])
  BY <1>4, <1>5
<1>6. /\ after[0] = start /\ other[0] = start
      /\ \A n \in 1 .. Len(h) : /\ after[n] = RetraceStep(p, after[n - 1], h[n])
                                /\ other[n] = RetraceStep(p, other[n - 1], h[n])
  <2> HIDE DEF Q
  <2> QED BY <1>1, <1>3, <1>5
<1> HIDE DEF Q
<1> DEFINE differ == {n \in 0 .. Len(h) : after[n] # other[n]}
<1>7. CASE differ # {}
  <2> DEFINE k == Min(differ)
  <2>1. k \in differ /\ \A n \in differ : k <= n
    <3>1. differ \in SUBSET Nat
      BY <1>4
    <3> HIDE DEF differ
    <3> QED BY <1>7, <3>1, LeastNatural
  <2> HIDE DEF k
  <2>2. k # 0
    BY <1>6, <2>1
  <2>3. k - 1 \in 0 .. Len(h) /\ k - 1 \notin differ
    BY <1>4, <2>1, <2>2
  <2>4. after[k - 1] = other[k - 1]
    BY <2>3
  <2> QED BY <1>4, <1>6, <2>1, <2>2, <2>4
<1>8. CASE differ = {}
  BY <1>2, <1>4, <1>8
<1> QED BY <1>7, <1>8

\* Another step of the schedule.
LEMMA RetraceExtends ==
    ASSUME NEW after, NEW p, NEW model, NEW S, NEW h \in Seq(S), NEW x \in S,
           IsRetrace(after, p, h, model)
    PROVE  \E longer : /\ IsRetrace(longer, p, Append(h, x), model)
                       /\ longer[Len(h) + 1] = RetraceStep(p, after[Len(h)], x)
<1> DEFINE start == [states |-> <<initial_state(p, model)>>, replays |-> TRUE]
           longer == [n \in 0 .. Len(h) + 1 |->
                         IF n = Len(h) + 1 THEN RetraceStep(p, after[Len(h)], x) ELSE after[n]]
           k == Append(h, x)
<1>1. /\ Len(h) \in Nat /\ Len(k) = Len(h) + 1 /\ k[Len(h) + 1] = x
      /\ \A n \in 1 .. Len(h) : k[n] = h[n]
  OBVIOUS
<1> HIDE DEF k
<1>2. after = [n \in 0 .. Len(h) |-> IF n = 0 THEN start ELSE RetraceStep(p, after[n - 1], h[n])]
  BY DEF IsRetrace
<1> HIDE DEF start
<1>3. after[0] = start /\ \A n \in 1 .. Len(h) : after[n] = RetraceStep(p, after[n - 1], h[n])
  BY <1>1, <1>2
<1>4. /\ longer[0] = start
      /\ longer[Len(h) + 1] = RetraceStep(p, after[Len(h)], x)
      /\ \A n \in 0 .. Len(h) : longer[n] = after[n]
  BY <1>1, <1>3
<1>5. \A n \in 1 .. Len(h) + 1 : longer[n] = RetraceStep(p, longer[n - 1], k[n])
  <2> SUFFICES ASSUME NEW n \in 1 .. Len(h) + 1
               PROVE  longer[n] = RetraceStep(p, longer[n - 1], k[n])
    OBVIOUS
  <2>1. CASE n = Len(h) + 1
    <3>1. longer[n - 1] = after[Len(h)] /\ k[n] = x
      BY <1>1, <1>4, <2>1
    <3> HIDE DEF longer
    <3> QED BY <1>4, <2>1, <3>1
  <2>2. CASE n # Len(h) + 1
    <3>1. n \in 1 .. Len(h) /\ n - 1 \in 0 .. Len(h) /\ n \in 0 .. Len(h)
      BY <1>1, <2>2
    <3> HIDE DEF longer
    <3> QED BY <1>1, <1>3, <1>4, <3>1
  <2> QED BY <2>1, <2>2
<1>6. longer = [n \in 0 .. Len(k) |-> longer[n]]
  BY <1>1
<1> HIDE DEF longer
<1>7. IsRetrace(longer, p, k, model)
  <2>1. \A n \in 0 .. Len(k) :
          longer[n] = IF n = 0 THEN start ELSE RetraceStep(p, longer[n - 1], k[n])
    BY <1>1, <1>4, <1>5
  <2> QED BY <1>6, <2>1, Zenon DEF IsRetrace, start
<1> QED BY <1>4, <1>7 DEF k

\* The retrace of a schedule that replays holds the states of its execution.
Retraced(run, p, k, model) ==
    /\ DOMAIN run = {"states", "replays"} /\ run.replays \in BOOLEAN
    /\ run.replays => Executes(run.states, p, k, model)

\* Also after another step.
LEMMA RetracedMore ==
    ASSUME NEW p, NEW model, NEW S, NEW k \in Seq(S), NEW step \in S,
           NEW run, Retraced(run, p, k, model)
    PROVE  Retraced(RetraceStep(p, run, step), p, Append(k, step), model)
<1> DEFINE s == Last(run.states)
           out == execute_enabled_step(p, s, step)
           more == [states |-> Append(run.states, out.state), replays |-> ~Failed(out)]
           refused == [run EXCEPT !.replays = FALSE]
<1>1. /\ run.replays /\ validate_replay_step(p, s, step) => RetraceStep(p, run, step) = more
      /\ ~(run.replays /\ validate_replay_step(p, s, step)) => RetraceStep(p, run, step) = refused
  BY DEF RetraceStep
<1>2. DOMAIN run = {"states", "replays"} /\ run.replays \in BOOLEAN
  BY DEF Retraced
<1>3. Retraced(refused, p, Append(k, step), model)
  <2>1. DOMAIN refused = {"states", "replays"} /\ refused.replays = FALSE
    BY <1>2
  <2> HIDE DEF refused
  <2> QED BY <2>1 DEF Retraced
<1>4. ASSUME run.replays, validate_replay_step(p, s, step), ~Failed(out)
      PROVE  Executes(Append(run.states, out.state), p, Append(k, step), model)
  <2>1. Executes(run.states, p, k, model)
    BY <1>4 DEF Retraced
  <2>2. s = run.states[Len(k) + 1]
    BY <2>1 DEF Executes, Last
  <2>3. Follows(p, s, step, out.state)
    BY <1>4 DEF validate_replay_step, Follows
  <2> DEFINE q == out.state
  <2>4. Follows(p, run.states[Len(k) + 1], step, q)
    BY <2>2, <2>3
  <2> HIDE DEF s, out, q
  <2>5. Executes(Append(run.states, q), p, Append(k, step), model)
    BY <2>1, <2>4, ExecutesMore
  <2> QED BY <2>5 DEF q
<1>5. ASSUME run.replays, validate_replay_step(p, s, step)
      PROVE  Retraced(more, p, Append(k, step), model)
  <2>1. /\ DOMAIN more = {"states", "replays"} /\ more.replays = ~Failed(out)
        /\ more.states = Append(run.states, out.state)
    OBVIOUS
  <2>2. more.replays \in BOOLEAN
    BY DEF Failed
  <2> HIDE DEF out, s
  <2>3. more.replays => ~Failed(out)
    OBVIOUS
  <2>4. more.replays => Executes(more.states, p, Append(k, step), model)
    <3> HIDE DEF more
    <3> QED BY <1>4, <1>5, <2>1, <2>3
  <2> HIDE DEF more
  <2> QED BY <2>1, <2>2, <2>4 DEF Retraced
<1> QED BY <1>1, <1>3, <1>5

\* A prefix and the step after it.
LEMMA PrefixMore ==
    ASSUME NEW S, NEW k \in Seq(S), NEW n \in 1 .. Len(k)
    PROVE  /\ SubSeq(k, 1, n - 1) \in Seq(S) /\ Len(SubSeq(k, 1, n - 1)) = n - 1 /\ k[n] \in S
           /\ Append(SubSeq(k, 1, n - 1), k[n]) = SubSeq(k, 1, n)
<1> DEFINE q == SubSeq(k, 1, n - 1)
<1>0. Len(k) \in Nat /\ n \in Nat /\ n - 1 \in Nat /\ n <= Len(k) /\ k[n] \in S
  OBVIOUS
<1>1. q \in Seq(S) /\ Len(q) = n - 1 /\ \A i \in 1 .. n - 1 : q[i] = k[i]
  BY <1>0
<1>2. SubSeq(k, 1, n) \in Seq(S) /\ Len(SubSeq(k, 1, n)) = n
      /\ \A i \in 1 .. n : SubSeq(k, 1, n)[i] = k[i]
  BY <1>0
<1> HIDE DEF q
<1>3. Append(q, k[n]) \in Seq(S) /\ Len(Append(q, k[n])) = n
      /\ \A i \in 1 .. n : Append(q, k[n])[i] = k[i]
  BY <1>0, <1>1
<1>4. \A i \in 1 .. n : Append(q, k[n])[i] = SubSeq(k, 1, n)[i]
  BY <1>2, <1>3
<1>5. Append(q, k[n]) = SubSeq(k, 1, n)
  BY <1>2, <1>3, <1>4, SeqEqual
<1> QED BY <1>0, <1>1, <1>5 DEF q

\* The retrace of any schedule: by induction over its prefixes, of which the shortest for
\* which it failed would be one step longer than one for which it holds.
LEMMA RetraceReplays ==
    ASSUME NEW p, NEW model, NEW S, NEW k \in Seq(S)
    PROVE  Retraced(Retrace(p, k, model), p, k, model)
<1> DEFINE Holds(n) == \E after : /\ IsRetrace(after, p, SubSeq(k, 1, n), model)
                                  /\ Retraced(after[n], p, SubSeq(k, 1, n), model)
           fails == {n \in 0 .. Len(k) : ~Holds(n)}
<1>1. Len(k) \in Nat /\ fails \in SUBSET Nat /\ SubSeq(k, 1, Len(k)) = k
  <2>1. Len(k) \in Nat
    OBVIOUS
  <2> HIDE DEF Holds
  <2> QED BY <2>1, SubSeqFull
<1>2. Holds(0)
  <2> DEFINE one == <<initial_state(p, model)>>
             start == [states |-> one, replays |-> TRUE]
             after == [n \in 0 .. 0 |-> start]
             none == SubSeq(k, 1, 0)
  <2>1. Len(none) = 0
    BY <1>1
  <2>2. IsSeq(one) /\ Len(one) = 1 /\ one[1] = initial_state(p, model)
    <3> DEFINE x == initial_state(p, model)
    <3> HIDE DEF x
    <3>1. <<x>> \in Seq({x}) /\ Len(<<x>>) = 1 /\ <<x>>[1] = x
      OBVIOUS
    <3> QED BY <3>1 DEF IsSeq, x
  <2>3. DOMAIN start = {"states", "replays"} /\ start.replays = TRUE /\ start.states = one
    OBVIOUS
  <2> HIDE DEF none, one
  <2>4. Executes(one, p, none, model)
    BY <2>1, <2>2 DEF Executes
  <2> HIDE DEF start
  <2>5. Retraced(start, p, none, model)
    BY <2>3, <2>4 DEF Retraced
  <2>6. after[0] = start /\ IsRetrace(after, p, none, model)
    BY <2>1 DEF IsRetrace, start, one
  <2> HIDE DEF after
  <2> QED BY <2>5, <2>6 DEF none
<1>3. ASSUME NEW n \in 1 .. Len(k), Holds(n - 1) PROVE Holds(n)
  <2> DEFINE q == SubSeq(k, 1, n - 1)
  <2>1. /\ q \in Seq(S) /\ Len(q) = n - 1 /\ k[n] \in S /\ Append(q, k[n]) = SubSeq(k, 1, n)
        /\ n \in Nat
    BY PrefixMore
  <2>2. PICK after : /\ IsRetrace(after, p, q, model) /\ Retraced(after[n - 1], p, q, model)
    BY <1>3
  <2> HIDE DEF q
  <2> DEFINE x == k[n]
  <2>3. PICK longer : /\ IsRetrace(longer, p, Append(q, x), model)
                      /\ longer[Len(q) + 1] = RetraceStep(p, after[Len(q)], x)
    <3>1. x \in S /\ q \in Seq(S) /\ IsRetrace(after, p, q, model)
      BY <2>1, <2>2
    <3> HIDE DEF x
    <3> QED BY <3>1, RetraceExtends
  <2>4. longer[n] = RetraceStep(p, after[n - 1], k[n])
    <3>1. Len(q) + 1 = n
      BY <2>1
    <3> QED BY <2>1, <2>3, <3>1
  <2>5. Retraced(longer[n], p, Append(q, k[n]), model)
    BY <2>1, <2>2, <2>4, RetracedMore
  <2> QED BY <2>1, <2>3, <2>5
<1> HIDE DEF Holds
<1>4. fails = {}
  <2> SUFFICES ASSUME fails # {} PROVE FALSE
    OBVIOUS
  <2> DEFINE n == Min(fails)
  <2>1. n \in fails /\ \A m \in fails : n <= m
    BY <1>1, LeastNatural
  <2> HIDE DEF n
  <2>2. n # 0
    BY <1>2, <2>1
  <2>3. n \in 1 .. Len(k) /\ n - 1 \in 0 .. Len(k) /\ n - 1 \notin fails
    BY <1>1, <2>1, <2>2
  <2> QED BY <1>3, <2>1, <2>3
<1>5. PICK after : IsRetrace(after, p, k, model) /\ Retraced(after[Len(k)], p, k, model)
  <2>1. Holds(Len(k))
    BY <1>1, <1>4
  <2> QED BY <1>1, <2>1 DEF Holds
<1> QED BY <1>5, RetraceIs

\* The retrace of the schedule of an execution: its states.
LEMMA RetraceExecutes ==
    ASSUME NEW p \in Programs, NEW model \in MemoryModel, NEW k \in Seq(ScheduleStep),
           NEW states, Executes(states, p, k, model)
    PROVE  Retrace(p, k, model) = [states |-> states, replays |-> TRUE]
<1> DEFINE after == [n \in 0 .. Len(k) |-> [states |-> SubSeq(states, 1, n + 1), replays |-> TRUE]]
<1>1. /\ Len(k) \in Nat /\ IsSeq(states) /\ Len(states) = Len(k) + 1
      /\ states[1] = initial_state(p, model)
      /\ \A i \in 1 .. Len(k) : Follows(p, states[i], k[i], states[i + 1])
  BY DEF Executes
<1>2. \A i \in 1 .. Len(k) + 1 : Lived(p, model, states[i])
  BY <1>1, ExecutesLives
<1>3. PICK T : states \in Seq(T)
  BY <1>1 DEF IsSeq
<1>4. after[0] = [states |-> <<initial_state(p, model)>>, replays |-> TRUE]
  <2>1. SubSeq(states, 1, 1) = <<initial_state(p, model)>>
    <3> DEFINE x == initial_state(p, model)
               q == SubSeq(states, 1, 1)
    <3> HIDE DEF x
    <3>1. q \in Seq(T) /\ Len(q) = 1 /\ q[1] = x
      BY <1>1, <1>3 DEF x
    <3> HIDE DEF q
    <3>2. q = <<x>>
      BY <3>1
    <3> QED BY <3>2 DEF q, x
  <2>2. 0 \in 0 .. Len(k) /\ 0 + 1 = 1
    BY <1>1
  <2>3. after[0] = [states |-> SubSeq(states, 1, 0 + 1), replays |-> TRUE]
    BY <2>2
  <2> HIDE DEF after
  <2> QED BY <2>1, <2>2, <2>3
<1>5. ASSUME NEW n \in 1 .. Len(k)
      PROVE  after[n] = RetraceStep(p, after[n - 1], k[n])
  <2> DEFINE run == after[n - 1]
             q == SubSeq(states, 1, n)
             s == states[n]
             out == execute_enabled_step(p, s, k[n])
  <2>0. n \in Nat /\ n - 1 \in 0 .. Len(k) /\ (n - 1) + 1 = n /\ n \in 1 .. Len(states) /\ n + 1 \in 1 .. Len(states)
    BY <1>1
  <2>1. run = [states |-> q, replays |-> TRUE]
    BY <2>0
  <2>2. after[n] = [states |-> SubSeq(states, 1, n + 1), replays |-> TRUE]
    BY <2>0
  <2> HIDE DEF after
  <2>3. q \in Seq(T) /\ Len(q) = n /\ q[n] = s
    BY <1>1, <1>3, <2>0
  <2>4. Follows(p, s, k[n], states[n + 1]) /\ Lived(p, model, s)
    BY <1>1, <1>2, <2>0
  <2>5. validate_replay_step(p, s, k[n])
    BY <2>4, LivesOn
  <2>6. states[n + 1] = out.state /\ ~Failed(out)
    BY <2>4 DEF Follows
  <2>7. Append(q, states[n + 1]) = SubSeq(states, 1, n + 1)
    <3>1. n + 1 \in 1 .. Len(states) /\ (n + 1) - 1 = n
      BY <2>0
    <3> QED BY <1>3, <3>1, PrefixMore
  <2> HIDE DEF q, s, out, run
  <2>8. run.replays = TRUE /\ run.states = q
    BY <2>1
  <2>9. Last(run.states) = s
    BY <2>3, <2>8 DEF Last
  <2>10. RetraceStep(p, run, k[n]) = [states |-> Append(q, out.state), replays |-> ~Failed(out)]
    BY <2>5, <2>8, <2>9 DEF RetraceStep, out
  <2>11. (~Failed(out)) = TRUE
    BY <2>6, Zenon
  <2>12. RetraceStep(p, run, k[n]) = [states |-> Append(q, states[n + 1]), replays |-> TRUE]
    BY <2>6, <2>10, <2>11, Zenon
  <2> QED BY <2>2, <2>7, <2>12 DEF q, run
<1>6. after = [n \in 0 .. Len(k) |-> after[n]]
  OBVIOUS
<1>7. after[Len(k)] = [states |-> states, replays |-> TRUE]
  <2>1. SubSeq(states, 1, Len(k) + 1) = states
    BY <1>1, <1>3, SubSeqFull
  <2>2. Len(k) \in 0 .. Len(k)
    BY <1>1
  <2>3. after[Len(k)] = [states |-> SubSeq(states, 1, Len(k) + 1), replays |-> TRUE]
    BY <2>2
  <2> HIDE DEF after
  <2> QED BY <2>1, <2>3
<1> HIDE DEF after
<1>8. IsRetrace(after, p, k, model)
  <2> DEFINE start == [states |-> <<initial_state(p, model)>>, replays |-> TRUE]
  <2>1. after[0] = start
    BY <1>4
  <2> HIDE DEF start
  <2>2. \A n \in 0 .. Len(k) : after[n] = IF n = 0 THEN start ELSE RetraceStep(p, after[n - 1], k[n])
    BY <1>1, <1>5, <2>1
  <2> QED BY <1>6, <2>2, Zenon DEF IsRetrace, start
<1> QED BY <1>7, <1>8, RetraceIs

\* A step of an execution is one of any state alike, and leads to a state alike.
LEMMA FollowsAlike ==
    ASSUME NEW p \in Programs, NEW s, NEW z, Alike(p, s, z), Sound(p, s), NEW step, NEW q,
           Follows(p, s, step, q)
    PROVE  \E r : Follows(p, z, step, r) /\ Alike(p, q, r)
<1> DEFINE out == execute_enabled_step(p, s, step)
           other == execute_enabled_step(p, z, step)
<1>1. step \in enabled_steps(p, s) /\ q = out.state /\ ~Failed(out)
  BY DEF Follows
<1>2. AlikeOut(p, out, other) /\ step \in enabled_steps(p, z)
  BY <1>1, AlikeStep
<1>3. ~Failed(other) /\ Alike(p, q, other.state)
  BY <1>1, <1>2 DEF AlikeOut
<1> QED BY <1>2, <1>3 DEF Follows

-----------------------------------------------------------------------------
(***************************************************************************)
(* A cycle is taken again.                                                 *)
(***************************************************************************)
\* The steps k, and those after the first start ones again.
CycleOf(k, start) == SubSeq(k, start + 1, Len(k))
TwiceOf(k, start) == k \o CycleOf(k, start)

\* The first Len(k) + j of them execute, through states alike those of the first turn.
AlikeTurn(p, k, start, states, again, j) ==
    /\ \A i \in 1 .. Len(k) + 1 : again[i] = states[i]
    /\ \A i \in 0 .. j : Alike(p, states[start + 1 + i], again[Len(k) + 1 + i])
TurnTaken(p, model, k, start, states, j) ==
    \E again : /\ Executes(again, p, SubSeq(TwiceOf(k, start), 1, Len(k) + j), model)
               /\ AlikeTurn(p, k, start, states, again, j)

\* Their steps.
LEMMA TwiceSteps ==
    ASSUME NEW S, NEW k \in Seq(S), NEW start \in 0 .. Len(k)
    PROVE  /\ CycleOf(k, start) \in Seq(S) /\ Len(CycleOf(k, start)) = Len(k) - start
           /\ \A j \in 1 .. Len(k) - start : CycleOf(k, start)[j] = k[start + j]
           /\ TwiceOf(k, start) \in Seq(S)
           /\ Len(TwiceOf(k, start)) = Len(k) + (Len(k) - start)
           /\ \A i \in 1 .. Len(k) : TwiceOf(k, start)[i] = k[i]
           /\ \A j \in 1 .. Len(k) - start : TwiceOf(k, start)[Len(k) + j] = k[start + j]
<1> DEFINE c == CycleOf(k, start)
           L == Len(k)
<1>1. L \in Nat /\ start \in Nat /\ start <= L
  OBVIOUS
<1>2. /\ c \in Seq(S) /\ Len(c) = L - start
      /\ \A j \in 1 .. L - start : c[j] = k[start + j]
  <2>1. \A j \in 1 .. L - start : (start + 1) + j - 1 = start + j
    BY <1>1
  <2>2. CASE start = L
    BY <1>1, <2>2 DEF CycleOf
  <2>3. CASE start # L
    BY <1>1, <2>1, <2>3 DEF CycleOf
  <2> QED BY <2>2, <2>3
<1> HIDE DEF c
<1>3. /\ k \o c \in Seq(S) /\ Len(k \o c) = L + (L - start)
      /\ \A i \in 1 .. L : (k \o c)[i] = k[i]
      /\ \A j \in 1 .. L - start : (k \o c)[L + j] = c[j]
  BY <1>1, <1>2
<1> QED BY <1>2, <1>3 DEF c, TwiceOf

\* One step more of the second turn.
LEMMA TurnGoesOn ==
    ASSUME NEW p \in Programs, NEW model \in MemoryModel, NEW k \in Seq(ScheduleStep),
           NEW start \in 0 .. Len(k), NEW states, Executes(states, p, k, model),
           NEW j \in 1 .. Len(k) - start, TurnTaken(p, model, k, start, states, j - 1)
    PROVE  TurnTaken(p, model, k, start, states, j)
<1> DEFINE K == TwiceOf(k, start)
           L == Len(k)
           step == k[start + j]
<1>1. /\ L \in Nat /\ start \in Nat /\ j \in Nat /\ 1 <= j /\ start + j \in 1 .. L
      /\ L + j \in Nat /\ 1 <= L + j /\ L + j <= L + (L - start) /\ (L + j) - 1 = L + (j - 1)
  OBVIOUS
<1>2. K \in Seq(ScheduleStep) /\ K[L + j] = step /\ L + j \in 1 .. Len(K)
  <2>1. /\ K \in Seq(ScheduleStep) /\ Len(K) = L + (L - start)
        /\ \A i \in 1 .. L - start : K[L + i] = k[start + i]
    BY TwiceSteps
  <2> HIDE DEF K
  <2> QED BY <1>1, <2>1
<1> DEFINE h == SubSeq(K, 1, L + (j - 1))
<1>3. PICK again : Executes(again, p, h, model) /\ AlikeTurn(p, k, start, states, again, j - 1)
  BY DEF TurnTaken
<1>4. /\ h \in Seq(ScheduleStep) /\ Len(h) = L + (j - 1) /\ step \in ScheduleStep
      /\ Append(h, step) = SubSeq(K, 1, L + j)
  BY <1>1, <1>2, PrefixMore
<1> HIDE DEF K, h, step
<1> DEFINE s == states[start + j]
           z == again[L + j]
           n == states[start + j + 1]
<1>5. Alike(p, s, z)
  <2>1. j - 1 \in 0 .. j - 1 /\ start + 1 + (j - 1) = start + j /\ L + 1 + (j - 1) = L + j
    BY <1>1
  <2>2. Alike(p, states[start + 1 + (j - 1)], again[L + 1 + (j - 1)])
    BY <1>3, <2>1 DEF AlikeTurn
  <2> QED BY <2>1, <2>2
<1>6. Sound(p, s) /\ Follows(p, s, step, n)
  <2>1. start + j \in 1 .. Len(k) /\ start + j \in 1 .. Len(k) + 1
    BY <1>1
  <2>2. Lived(p, model, s)
    BY <1>1, <2>1, ExecutesLives
  <2>3. Follows(p, s, k[start + j], n)
    BY <2>1 DEF Executes
  <2> QED BY <2>2, <2>3 DEF Lived, step
<1> HIDE DEF s, z, n
<1>7. PICK r : Follows(p, z, step, r) /\ Alike(p, n, r)
  BY <1>5, <1>6, FollowsAlike
<1> DEFINE longer == Append(again, r)
<1>8. Len(h) + 1 = L + j
  BY <1>1, <1>4
<1>9. Executes(longer, p, Append(h, step), model)
  <2>1. Follows(p, again[Len(h) + 1], step, r)
    BY <1>7, <1>8 DEF z
  <2> QED BY <1>3, <1>4, <2>1, ExecutesMore
<1>10. /\ \A i \in 1 .. L + j : longer[i] = again[i]
       /\ longer[L + j + 1] = r
  <2>1. IsSeq(again) /\ Len(again) = L + j
    BY <1>3, <1>8 DEF Executes
  <2> QED BY <2>1, SeqAppend
<1> HIDE DEF longer
<1>11. AlikeTurn(p, k, start, states, longer, j)
  <2>1. \A i \in 1 .. L + 1 : longer[i] = states[i]
    <3>1. \A i \in 1 .. L + 1 : i \in 1 .. L + j
      BY <1>1
    <3> QED BY <1>3, <1>10, <3>1 DEF AlikeTurn
  <2>2. ASSUME NEW i \in 0 .. j PROVE Alike(p, states[start + 1 + i], longer[L + 1 + i])
    <3>1. CASE i = j
      <4>1. start + 1 + i = start + j + 1 /\ L + 1 + i = L + j + 1
        BY <1>1, <3>1
      <4> QED BY <1>7, <1>10, <4>1 DEF n
    <3>2. CASE i # j
      <4>1. i \in 0 .. j - 1 /\ L + 1 + i \in 1 .. L + j
        BY <1>1, <3>2
      <4> QED BY <1>3, <1>10, <4>1 DEF AlikeTurn
    <3> QED BY <3>1, <3>2
  <2> QED BY <2>1, <2>2 DEF AlikeTurn
<1>12. Executes(longer, p, SubSeq(K, 1, L + j), model)
  BY <1>4, <1>9
<1> QED BY <1>11, <1>12 DEF TurnTaken, K

\* So the whole turn: it would fail for the first time at a step that goes on from one that
\* does not.
LEMMA TurnAgain ==
    ASSUME NEW p \in Programs, NEW model \in MemoryModel, NEW k \in Seq(ScheduleStep),
           NEW start \in 0 .. Len(k), NEW states, Executes(states, p, k, model),
           behavioral_state_fingerprint(states[start + 1]) =
              behavioral_state_fingerprint(states[Len(k) + 1])
    PROVE  \E again : /\ Executes(again, p, TwiceOf(k, start), model)
                      /\ AlikeTurn(p, k, start, states, again, Len(k) - start)
<1> DEFINE L == Len(k)
           n == L - start
           fails == {j \in 0 .. n : ~TurnTaken(p, model, k, start, states, j)}
<1>1. L \in Nat /\ start \in Nat /\ n \in Nat /\ start <= L
  OBVIOUS
<1>2. TurnTaken(p, model, k, start, states, 0)
  <2>1. /\ TwiceOf(k, start) \in Seq(ScheduleStep) /\ L <= Len(TwiceOf(k, start))
        /\ \A i \in 1 .. L : TwiceOf(k, start)[i] = k[i]
    <3>1. /\ TwiceOf(k, start) \in Seq(ScheduleStep)
          /\ Len(TwiceOf(k, start)) = Len(k) + (Len(k) - start)
          /\ \A i \in 1 .. Len(k) : TwiceOf(k, start)[i] = k[i]
      BY TwiceSteps
    <3>2. L <= L + n
      BY <1>1
    <3> QED BY <3>1, <3>2
  <2>2. SubSeq(TwiceOf(k, start), 1, L + 0) = k
    <3> DEFINE K == TwiceOf(k, start)
               q == SubSeq(K, 1, L + 0)
    <3> HIDE DEF K
    <3>1. q \in Seq(ScheduleStep) /\ Len(q) = L /\ \A i \in 1 .. L : q[i] = k[i]
      BY <1>1, <2>1 DEF K
    <3> HIDE DEF q
    <3>2. q = k
      BY <1>1, <3>1, SeqEqual
    <3> QED BY <3>2 DEF q, K
  <2>3. Alike(p, states[start + 1], states[L + 1])
    <3>1. start + 1 \in 1 .. L + 1 /\ L + 1 \in 1 .. L + 1
      BY <1>1
    <3>2. Lived(p, model, states[start + 1]) /\ Lived(p, model, states[L + 1])
      BY <1>1, <3>1, ExecutesLives
    <3> QED BY <3>2, AlikeFingerprint DEF Lived
  <2>4. AlikeTurn(p, k, start, states, states, 0)
    <3>1. \A i \in 0 .. 0 : start + 1 + i = start + 1 /\ L + 1 + i = L + 1
      BY <1>1
    <3> QED BY <2>3, <3>1 DEF AlikeTurn
  <2> QED BY <2>2, <2>4 DEF TurnTaken
<1>3. fails = {}
  <2> SUFFICES ASSUME fails # {} PROVE FALSE
    OBVIOUS
  <2> DEFINE j == Min(fails)
  <2>1. j \in fails /\ \A m \in fails : j <= m
    <3>1. fails \in SUBSET Nat
      BY <1>1
    <3> HIDE DEF fails
    <3> QED BY <3>1, LeastNatural
  <2> HIDE DEF j
  <2>2. j # 0
    BY <1>2, <2>1
  <2>3. j \in 1 .. n /\ j - 1 \in 0 .. n /\ j - 1 \notin fails
    BY <1>1, <2>1, <2>2
  <2> QED BY <2>1, <2>3, TurnGoesOn
<1>4. TurnTaken(p, model, k, start, states, n)
  BY <1>1, <1>3
<1>5. SubSeq(TwiceOf(k, start), 1, L + n) = TwiceOf(k, start)
  BY <1>1, TwiceSteps, SubSeqFull
<1> QED BY <1>4, <1>5 DEF TurnTaken

-----------------------------------------------------------------------------
(***************************************************************************)
(* The report of a lasso.                                                  *)
(***************************************************************************)
\* What a report says of the schedule and the cycle start it was made with.
ReportSays(p, model, k, start, states, report) ==
    /\ Executes(states, p, k, model)
    /\ behavioral_state_fingerprint(states[start + 1]) =
          behavioral_state_fingerprint(states[Len(k) + 1])
    /\ report.stem = SubSeq(k, 1, start) /\ report.cycle = CycleOf(k, start)
    /\ report.fairness = classify_fairness(p, SubSeq(states, start + 1, Len(k) + 1),
                                           ThreadId \ participants(k, start))

\* Each report comes from an execution of the schedule it was made with.
LEMMA ReportMade ==
    ASSUME NEW p, NEW model, NEW k \in Seq(ScheduleStep), NEW start \in 0 .. Len(k),
           NEW report \in make_nontermination_report(p, k, start, model)
    PROVE  \E states : ReportSays(p, model, k, start, states, report)
<1> DEFINE run == Retrace(p, k, model)
           states == run.states
           turn == SubSeq(states, start + 1, Len(states))
<1>1. Retraced(run, p, k, model)
  BY RetraceReplays
<1> HIDE DEF run
<1>2. report \in LassoReport(p, k, start, run.replays, turn)
  BY DEF make_nontermination_report, run
<1> HIDE DEF turn
<1>3. /\ run.replays
      /\ behavioral_state_fingerprint(Head(turn)) = behavioral_state_fingerprint(Last(turn))
      /\ report = [fairness |-> classify_fairness(p, turn, ThreadId \ participants(k, start)),
                   stem |-> SubSeq(k, 1, start), cycle |-> SubSeq(k, start + 1, Len(k))]
  BY <1>2 DEF LassoReport
<1>4. Executes(states, p, k, model)
  BY <1>1, <1>3 DEF Retraced
<1> HIDE DEF states
<1>5. Len(k) \in Nat /\ Len(states) = Len(k) + 1 /\ IsSeq(states)
  BY <1>4 DEF Executes
<1>6. Head(turn) = states[start + 1] /\ Last(turn) = states[Len(k) + 1]
  <2>1. PICK T : states \in Seq(T)
    BY <1>5 DEF IsSeq
  <2>2. /\ turn \in Seq(T) /\ Len(turn) = Len(k) + 1 - start
        /\ \A i \in 1 .. Len(k) + 1 - start : turn[i] = states[start + i]
    <3>1. /\ start + 1 \in 1 .. Len(states) /\ Len(k) + 1 - start \in Nat
          /\ \A i \in 1 .. Len(k) + 1 - start : start + 1 + i - 1 = start + i
      BY <1>5
    <3> QED BY <1>5, <2>1, <3>1 DEF turn
  <2>3. /\ 1 \in 1 .. Len(k) + 1 - start /\ Len(k) + 1 - start \in 1 .. Len(k) + 1 - start
        /\ start + (Len(k) + 1 - start) = Len(k) + 1
    BY <1>5
  <2>4. Head(turn) = turn[1] /\ Last(turn) = turn[Len(turn)]
    BY <2>2, <2>3 DEF Last
  <2> QED BY <2>2, <2>3, <2>4
<1>7. /\ report.stem = SubSeq(k, 1, start) /\ report.cycle = CycleOf(k, start)
      /\ report.fairness = classify_fairness(p, turn, ThreadId \ participants(k, start))
  BY <1>3 DEF CycleOf
<1> QED BY <1>3, <1>4, <1>5, <1>6, <1>7 DEF ReportSays, turn

\* A sequence, from its first n elements and the others.
LEMMA JoinedAgain ==
    ASSUME NEW S, NEW k \in Seq(S), NEW a \in Seq(S), NEW c \in Seq(S),
           Len(a) + Len(c) = Len(k),
           \A i \in 1 .. Len(a) : a[i] = k[i],
           \A j \in 1 .. Len(c) : c[j] = k[Len(a) + j]
    PROVE  a \o c = k
<1> DEFINE m == Len(a)
           n == Len(c)
           ac == a \o c
<1>1. /\ ac \in Seq(S) /\ Len(ac) = m + n
      /\ \A i \in 1 .. m + n : ac[i] = IF i <= m THEN a[i] ELSE c[i - m]
  BY ConcatProperties, Zenon
<1>2. m \in Nat /\ n \in Nat /\ m + n = Len(k)
  OBVIOUS
<1>3. /\ \A i \in 1 .. m : a[i] = k[i]
      /\ \A j \in 1 .. n : c[j] = k[m + j]
  OBVIOUS
<1> HIDE DEF m, n, ac
<1>4. ASSUME NEW i \in 1 .. Len(k) PROVE ac[i] = k[i]
  <2>1. i \in 1 .. m + n
    BY <1>2
  <2>2. CASE i <= m
    <3>1. i \in 1 .. m
      BY <1>2, <2>2
    <3> QED BY <1>1, <1>3, <2>1, <2>2, <3>1
  <2>3. CASE ~(i <= m)
    <3> DEFINE j == i - m
    <3>1. j \in 1 .. n /\ m + j = i
      BY <1>2, <2>3
    <3>2. ac[i] = c[j]
      BY <1>1, <2>1, <2>3
    <3> HIDE DEF j
    <3>3. c[j] = k[m + j]
      BY <1>3, <3>1
    <3> QED BY <3>1, <3>2, <3>3
  <2> QED BY <2>2, <2>3
<1>5. ac = k
  BY <1>1, <1>2, <1>4, SeqEqual
<1> QED BY <1>5 DEF ac

\* The stem and the cycle.
LEMMA LassoSteps ==
    ASSUME NEW S, NEW k \in Seq(S), NEW start \in 0 .. Len(k)
    PROVE  /\ SubSeq(k, 1, start) \o CycleOf(k, start) = k
           /\ Len(SubSeq(k, 1, start)) = start
<1> DEFINE a == SubSeq(k, 1, start)
           c == CycleOf(k, start)
<1>1. /\ Len(k) \in Nat /\ start \in Nat /\ start <= Len(k)
      /\ a \in Seq(S) /\ Len(a) = start /\ \A i \in 1 .. start : a[i] = k[i]
  OBVIOUS
<1>2. /\ c \in Seq(S) /\ Len(c) = Len(k) - start
      /\ \A j \in 1 .. Len(k) - start : c[j] = k[start + j]
  BY TwiceSteps
<1> HIDE DEF a, c
<1>3. Len(a) + Len(c) = Len(k)
  BY <1>1, <1>2
<1>4. /\ \A i \in 1 .. Len(a) : a[i] = k[i]
      /\ \A j \in 1 .. Len(c) : c[j] = k[Len(a) + j]
  BY <1>1, <1>2
<1>5. a \in Seq(S) /\ c \in Seq(S)
  BY <1>1, <1>2
<1>6. a \o c = k
  BY <1>3, <1>4, <1>5, JoinedAgain
<1> QED BY <1>1, <1>6 DEF a, c

\* The label, of any turn in whose states the same threads have a step.
LEMMA LabelOf ==
    ASSUME NEW p, NEW turn, NEW others, NEW n \in Nat \ {0}, DOMAIN turn = 1 .. n, NEW again,
           \A i \in 1 .. n : \A t \in others :
              enabled_steps_for_thread(p, turn[i], t) = enabled_steps_for_thread(p, again[i], t)
    PROVE  /\ classify_fairness(p, turn, others) = "UnfairScheduleWitness" <=>
                \E t \in others : \A i \in 1 .. n : enabled_steps_for_thread(p, again[i], t) # {}
           /\ classify_fairness(p, turn, others) = "FairDivergence" <=>
                \A t \in others : \A i \in 1 .. n : enabled_steps_for_thread(p, again[i], t) = {}
<1> DEFINE enabled == [t \in others |->
                          {enabled_steps_for_thread(p, turn[i], t) : i \in DOMAIN turn}]
           always == {t \in others : {} \notin enabled[t]}
           sometimes == {t \in others : enabled[t] # {{}}}
<1>1. ASSUME NEW t \in others
      PROVE  /\ {} \notin enabled[t] <=>
                   \A i \in 1 .. n : enabled_steps_for_thread(p, again[i], t) # {}
             /\ enabled[t] = {{}} <=>
                   \A i \in 1 .. n : enabled_steps_for_thread(p, again[i], t) = {}
  <2>1. enabled[t] = {enabled_steps_for_thread(p, again[i], t) : i \in 1 .. n}
    OBVIOUS
  <2>2. 1 \in 1 .. n
    OBVIOUS
  <2> HIDE DEF enabled
  <2> QED BY <2>1, <2>2
<1>2. /\ always # {} <=> \E t \in others : \A i \in 1 .. n : enabled_steps_for_thread(p, again[i], t) # {}
      /\ sometimes = {} <=> \A t \in others : \A i \in 1 .. n : enabled_steps_for_thread(p, again[i], t) = {}
  <2> HIDE DEF enabled
  <2> QED BY <1>1
<1>3. always # {} => sometimes # {}
  <2>1. 1 \in 1 .. n
    OBVIOUS
  <2> HIDE DEF always, sometimes
  <2> QED BY <1>2, <2>1
<1>4. classify_fairness(p, turn, others) =
        CASE always # {} -> "UnfairScheduleWitness"
          [] always = {} /\ sometimes # {} -> "StronglyUnfairScheduleWitness"
          [] sometimes = {} -> "FairDivergence"
  BY DEF classify_fairness
<1> HIDE DEF always, sometimes
<1> QED BY <1>2, <1>3, <1>4

-----------------------------------------------------------------------------
(***************************************************************************)
(* Lassos.                                                                 *)
(***************************************************************************)
\* Each was made on a schedule with a start in it; the positions of a history are.
LassoMade(report) ==
    \E k \in Seq(ScheduleStep) : \E start \in 0 .. Len(k) :
        report \in make_nontermination_report(program, k, start, memory_model)

LassoInv ==
    /\ \A report \in result.first_nontermination : LassoMade(report)
    /\ ~ended => \A e \in history : e.position \in 0 .. Len(schedule)

\* No cycle has closed.
LEMMA InitLassoInv == Init => LassoInv
<1> SUFFICES ASSUME Init PROVE LassoInv
  OBVIOUS
<1>1. result = NoResult /\ schedule = <<>> /\ history = initial_state_history(program, state)
  BY DEF Init
<1>2. result.first_nontermination = {}
  BY <1>1 DEF NoResult
<1>3. \A e \in history : e.position = 0
  BY <1>1 DEF initial_state_history
<1>4. 0 \in 0 .. Len(schedule)
  BY <1>1
<1> QED BY <1>2, <1>3, <1>4 DEF LassoInv

\* Only the closing of a cycle adds a lasso.
LEMMA SameLassos ==
    ASSUME NEW r, ResultFields(r)
    PROVE  /\ ResultFields(WithLeaf(r)) /\ WithLeaf(r).first_nontermination = r.first_nontermination
           /\ record_bound_exceeded(r).first_nontermination = r.first_nontermination
           /\ \A p, s, k : WithDeadlock(r, p, s, k).first_nontermination = r.first_nontermination
           /\ \A report, k : /\ ResultFields(WithStepReport(r, report, k))
                             /\ WithStepReport(r, report, k).first_nontermination =
                                   r.first_nontermination
           /\ \A report : record_nontermination(r, report).first_nontermination \in
                              {r.first_nontermination, {report}}
<1>1. ResultFields(WithLeaf(r)) /\ WithLeaf(r).first_nontermination = r.first_nontermination
  BY DEF ResultFields, NoResult, WithLeaf
<1>2. record_bound_exceeded(r).first_nontermination = r.first_nontermination
  BY DEF ResultFields, NoResult, WithLeaf, record_bound_exceeded
<1>3. \A p, s, k : WithDeadlock(r, p, s, k).first_nontermination = r.first_nontermination
  BY DEF ResultFields, NoResult, WithDeadlock
<1>4. \A report, k : /\ ResultFields(WithStepReport(r, report, k))
                     /\ WithStepReport(r, report, k).first_nontermination = r.first_nontermination
  BY DEF ResultFields, NoResult, WithStepReport
<1>5. ASSUME NEW report
      PROVE  record_nontermination(r, report).first_nontermination \in
                 {r.first_nontermination, {report}}
  <2>1. record_nontermination(r, report).first_nontermination =
           FirstNonempty(r.first_nontermination, {report})
    BY DEF ResultFields, NoResult, WithLeaf, record_nontermination
  <2> QED BY <2>1 DEF FirstNonempty
<1> QED BY <1>1, <1>2, <1>3, <1>4, <1>5

\* A step of the path keeps it.
LEMMA StepLassoInv ==
    ASSUME PathInv, LassoInv, ~ended, NEW step \in enabled_steps(program, state),
           BoundLeaf(step) \/ TakeStep(step)
    PROVE  LassoInv'
<1> DEFINE out == execute_enabled_step(program, state, step)
           reported == WithStepReport(result, out.report, Append(schedule, step))
<1>1. /\ ResultFields(result) /\ schedule \in Seq(ScheduleStep) /\ step \in ScheduleStep
      /\ \A e \in history : e.position \in 0 .. Len(schedule)
  BY EnabledValid DEF PathInv, LassoInv
<1>2. /\ schedule' = Append(schedule, step) /\ schedule' \in Seq(ScheduleStep)
      /\ program' = program /\ memory_model' = memory_model
      /\ Len(schedule) \in Nat /\ Len(schedule') = Len(schedule) + 1
  <2>1. /\ schedule' = Append(schedule, step)
        /\ program' = program /\ memory_model' = memory_model
    BY DEF BoundLeaf, TakeStep, Outcomes, FailureLeaf, CycleLeaf, Extend, End, params
  <2>2. Append(schedule, step) \in Seq(ScheduleStep) /\ Len(schedule) \in Nat
        /\ Len(Append(schedule, step)) = Len(schedule) + 1
    BY <1>1
  <2> QED BY <2>1, <2>2
<1>3. \A report : LassoMade(report) => LassoMade(report)'
  BY <1>2 DEF LassoMade
<1>4. /\ ResultFields(reported) /\ reported.first_nontermination = result.first_nontermination
  BY <1>1, SameLassos
<1>5. CASE BoundLeaf(step)
  <2>1. result' = record_bound_exceeded(result) /\ ended' = TRUE
    BY <1>5 DEF BoundLeaf, End
  <2>2. result'.first_nontermination = result.first_nontermination
    BY <1>1, <2>1, SameLassos
  <2> QED BY <1>3, <2>1, <2>2 DEF LassoInv
<1>6. CASE TakeStep(step)
  <2>0. Outcomes(out, reported)
    BY <1>6 DEF TakeStep
  <2> HIDE DEF out, reported
  <2>1. CASE FailureLeaf(out, reported)
    <3>1. result' = WithLeaf(reported) /\ ended' = TRUE
      BY <2>1 DEF FailureLeaf, End
    <3>2. result'.first_nontermination = result.first_nontermination
      BY <1>4, <3>1, SameLassos
    <3> QED BY <1>3, <3>1, <3>2 DEF LassoInv
  <2>2. CASE CycleLeaf(out, reported)
    <3>1. PICK start \in CycleStart(history, out.state) :
            \E report \in make_nontermination_report(program, schedule', start, memory_model) :
               End(record_nontermination(reported, report))
      BY <2>2 DEF CycleLeaf
    <3>2. PICK report \in make_nontermination_report(program, schedule', start, memory_model) :
               End(record_nontermination(reported, report))
      BY <3>1
    <3>3. start \in 0 .. Len(schedule')
      <4>1. start \in 0 .. Len(schedule)
        BY <1>1 DEF CycleStart
      <4> QED BY <1>2, <4>1
    <3>4. LassoMade(report)'
      BY <1>2, <3>2, <3>3 DEF LassoMade
    <3>5. result' = record_nontermination(reported, report) /\ ended' = TRUE
      BY <3>2 DEF End
    <3>6. result'.first_nontermination \in {result.first_nontermination, {report}}
      BY <1>4, <3>5, SameLassos
    <3> QED BY <1>3, <3>4, <3>5, <3>6 DEF LassoInv
  <2>3. CASE Extend(out, reported)
    <3>1. /\ result' = reported /\ ended' = ended
          /\ history' = Observed(program, history, out.state, Len(schedule) + 1)
      BY <2>3 DEF Extend
    <3>2. \A e \in history' : e.position \in 0 .. Len(schedule')
      <4>1. \A e \in history' : e \in history \/ e.position = Len(schedule) + 1
        BY <3>1 DEF Observed
      <4>2. Len(schedule) + 1 \in 0 .. Len(schedule')
            /\ \A i \in 0 .. Len(schedule) : i \in 0 .. Len(schedule')
        BY <1>2
      <4> QED BY <1>1, <4>1, <4>2
    <3> QED BY <1>3, <1>4, <3>1, <3>2 DEF LassoInv
  <2> QED BY <2>0, <2>1, <2>2, <2>3 DEF Outcomes
<1> QED BY <1>5, <1>6

\* So does every step of the specification.
LEMMA NextLassoInv == PathInv /\ LassoInv /\ [Walk \/ Returned]_vars => LassoInv'
<1> SUFFICES ASSUME PathInv, LassoInv, [Walk \/ Returned]_vars PROVE LassoInv'
  OBVIOUS
<1>1. CASE UNCHANGED vars
  BY <1>1 DEF vars, params, LassoInv, LassoMade
<1>2. CASE ~ended /\ Terminal
  <2>1. /\ result' = WithDeadlock(WithLeaf(result), program, state, schedule)
        /\ ended' = TRUE /\ program' = program /\ memory_model' = memory_model
    BY <1>2 DEF Terminal, End, params
  <2>2. ResultFields(result)
    BY DEF PathInv
  <2>3. result'.first_nontermination = result.first_nontermination
    BY <2>1, <2>2, SameLassos
  <2>4. \A report : LassoMade(report) => LassoMade(report)'
    BY <2>1 DEF LassoMade
  <2> QED BY <2>1, <2>3, <2>4 DEF LassoInv
<1>3. CASE ~ended /\ \E step \in enabled_steps(program, state) : BoundLeaf(step) \/ TakeStep(step)
  BY <1>3, StepLassoInv
<1> QED BY <1>1, <1>2, <1>3 DEF Walk, Returned

\* It holds in every state of every path.
LEMMA LassoInvariance == Spec => [](PathInv /\ LassoInv)
BY InitPathInv, NextPathInv, InitLassoInv, NextLassoInv, PTL DEF Spec

\* A lasso and the execution that takes its cycle twice.
LassoTwice(report, k, start, states, again) ==
    /\ k \in Seq(ScheduleStep) /\ start \in 0 .. Len(k)
    /\ ReportSays(program, memory_model, k, start, states, report)
    /\ Executes(again, program, TwiceOf(k, start), memory_model)
    /\ AlikeTurn(program, k, start, states, again, Len(k) - start)
    /\ Twice(report) = [states |-> again, replays |-> TRUE]
    /\ Len(report.stem) = start /\ Len(report.cycle) = Len(k) - start
    /\ Len(again) = Len(k) + (Len(k) - start) + 1

\* There is one for every lasso: the second turn goes through states alike the first.
LEMMA LassoTaken ==
    ASSUME PathInv, NEW report, LassoMade(report)
    PROVE  \E k, start, states, again : LassoTwice(report, k, start, states, again)
<1>0. PICK k \in Seq(ScheduleStep) : \E start \in 0 .. Len(k) :
         report \in make_nontermination_report(program, k, start, memory_model)
  BY DEF LassoMade
<1>1. PICK start \in 0 .. Len(k) :
         report \in make_nontermination_report(program, k, start, memory_model)
  BY <1>0
<1>2. program \in Programs /\ memory_model \in MemoryModel
  BY SearchAssumption DEF PathInv
<1>3. PICK states : ReportSays(program, memory_model, k, start, states, report)
  BY <1>1, ReportMade
<1>4. PICK again : /\ Executes(again, program, TwiceOf(k, start), memory_model)
                   /\ AlikeTurn(program, k, start, states, again, Len(k) - start)
  BY <1>2, <1>3, TurnAgain DEF ReportSays
<1>5. /\ report.stem = SubSeq(k, 1, start) /\ report.cycle = CycleOf(k, start)
      /\ Len(report.stem) = start /\ Len(report.cycle) = Len(k) - start
      /\ report.stem \o report.cycle \o report.cycle = TwiceOf(k, start)
  <2>1. report.stem = SubSeq(k, 1, start) /\ report.cycle = CycleOf(k, start)
    BY <1>3 DEF ReportSays
  <2>2. Len(SubSeq(k, 1, start)) = start /\ SubSeq(k, 1, start) \o CycleOf(k, start) = k
    BY LassoSteps
  <2>3. Len(CycleOf(k, start)) = Len(k) - start
    BY TwiceSteps
  <2> QED BY <2>1, <2>2, <2>3 DEF TwiceOf
<1>6. TwiceOf(k, start) \in Seq(ScheduleStep) /\ Len(TwiceOf(k, start)) = Len(k) + (Len(k) - start)
  BY TwiceSteps
<1>7. Twice(report) = [states |-> again, replays |-> TRUE]
  BY <1>2, <1>4, <1>5, <1>6, RetraceExecutes DEF Twice
<1>8. Len(again) = Len(k) + (Len(k) - start) + 1
  BY <1>4, <1>6 DEF Executes
<1>9. LassoTwice(report, k, start, states, again)
  BY <1>1, <1>3, <1>4, <1>5, <1>7, <1>8 DEF LassoTwice
<1> QED BY <1>9

\* Its last state is alike the one that closed the cycle, which is alike the start.
LEMMA LassoRepeats ==
    ASSUME PathInv, LassoInv
    PROVE  CycleRepeats
<1> SUFFICES ASSUME NEW report \in result.first_nontermination
             PROVE  /\ Twice(report).replays
                    /\ behavioral_state_fingerprint(Last(Twice(report).states)) =
                          behavioral_state_fingerprint(Twice(report).states[Len(report.stem) + 1])
  BY DEF CycleRepeats
<1>1. PICK k, start, states, again : LassoTwice(report, k, start, states, again)
  BY LassoTaken DEF LassoInv
<1> DEFINE L == Len(k)
           run == Twice(report)
<1>2. /\ L \in Nat /\ start \in 0 .. L
      /\ run = [states |-> again, replays |-> TRUE]
      /\ Len(report.stem) = start /\ Len(again) = L + (L - start) + 1
      /\ AlikeTurn(program, k, start, states, again, L - start)
      /\ behavioral_state_fingerprint(states[start + 1]) = behavioral_state_fingerprint(states[L + 1])
  BY <1>1 DEF LassoTwice, ReportSays
<1> HIDE DEF run
<1>3. again[start + 1] = states[start + 1]
  <2>1. start + 1 \in 1 .. L + 1
    BY <1>2
  <2> QED BY <1>2, <2>1 DEF AlikeTurn
<1>4. Alike(program, states[L + 1], again[Len(again)])
  <2>1. L - start \in 0 .. L - start /\ start + 1 + (L - start) = L + 1
        /\ L + 1 + (L - start) = Len(again)
    BY <1>2
  <2>2. Alike(program, states[start + 1 + (L - start)], again[L + 1 + (L - start)])
    BY <1>2, <2>1 DEF AlikeTurn
  <2> QED BY <2>1, <2>2
<1>5. run.replays = TRUE /\ run.states = again /\ Last(run.states) = again[Len(again)]
  BY <1>2 DEF Last
<1>6. behavioral_state_fingerprint(again[Len(again)]) =
         behavioral_state_fingerprint(states[L + 1])
  BY <1>4, AlikeFingerprint
<1>7. behavioral_state_fingerprint(Last(run.states)) =
         behavioral_state_fingerprint(run.states[Len(report.stem) + 1])
  BY <1>2, <1>3, <1>5, <1>6
<1> QED BY <1>5, <1>7 DEF run

\* The states of both turns enable the same steps, so a label of one is one of the other.
LEMMA LabelExact ==
    ASSUME PathInv, LassoInv
    PROVE  FairnessExact
<1> DEFINE Second(report) == SubSeq(Twice(report).states, Len(report.stem) + Len(report.cycle) + 1,
                                    Len(Twice(report).states))
<1> SUFFICES ASSUME NEW report \in result.first_nontermination
             PROVE  /\ report.fairness = "UnfairScheduleWitness" <=>
                          ~WeaklyFair(report.cycle, Second(report))
                    /\ report.fairness = "FairDivergence" <=>
                          StronglyFair(report.cycle, Second(report))
  BY DEF FairnessExact
<1>1. PICK k, start, states, again : LassoTwice(report, k, start, states, again)
  BY LassoTaken DEF LassoInv
<1> DEFINE L == Len(k)
           n == L - start + 1
           turn == SubSeq(states, start + 1, L + 1)
           second == SubSeq(again, L + 1, Len(again))
           others == ThreadId \ participants(k, start)
<1>2. /\ L \in Nat /\ start \in 0 .. L /\ k \in Seq(ScheduleStep)
      /\ Twice(report) = [states |-> again, replays |-> TRUE]
      /\ Len(report.stem) = start /\ Len(report.cycle) = L - start
      /\ Len(again) = L + (L - start) + 1
      /\ AlikeTurn(program, k, start, states, again, L - start)
      /\ Executes(states, program, k, memory_model)
      /\ Executes(again, program, TwiceOf(k, start), memory_model)
      /\ report.cycle = CycleOf(k, start)
      /\ report.fairness = classify_fairness(program, turn, others)
  BY <1>1 DEF LassoTwice, ReportSays
<1>3. Second(report) = second
  <2>1. start + (L - start) = L
    BY <1>2
  <2> QED BY <1>2, <2>1
<1> HIDE DEF Second
<1>4. /\ DOMAIN turn = 1 .. n /\ \A i \in 1 .. n : turn[i] = states[start + i]
      /\ n \in Nat \ {0}
  <2>1. IsSeq(states) /\ Len(states) = L + 1
    BY <1>2 DEF Executes
  <2>2. PICK T : states \in Seq(T)
    BY <2>1 DEF IsSeq
  <2>3. /\ n \in Nat \ {0} /\ start + 1 \in 1 .. L + 1 /\ (L + 1) - (start + 1) + 1 = n
        /\ \A i \in 1 .. n : start + 1 + i - 1 = start + i
    BY <1>2
  <2> QED BY <1>2, <2>1, <2>2, <2>3
<1>5. DOMAIN second = 1 .. n /\ \A i \in 1 .. n : second[i] = again[L + i]
  <2>1. IsSeq(again)
    BY <1>2 DEF Executes
  <2>2. PICK T : again \in Seq(T)
    BY <2>1 DEF IsSeq
  <2>3. /\ L + 1 \in 1 .. Len(again) /\ Len(again) - (L + 1) + 1 = n /\ Len(again) \in Nat
        /\ \A i \in 1 .. n : L + 1 + i - 1 = L + i
    <3>1. L \in Nat /\ start \in Nat /\ start <= L /\ Len(again) = L + (L - start) + 1
      BY <1>2
    <3> HIDE DEF L
    <3> QED BY <3>1
  <2> QED BY <1>2, <2>2, <2>3
<1> HIDE DEF turn, second
<1>6. ASSUME NEW i \in 1 .. n, NEW t \in ThreadId
      PROVE  enabled_steps_for_thread(program, turn[i], t) =
                enabled_steps_for_thread(program, second[i], t)
  <2>1. /\ i - 1 \in 0 .. L - start /\ start + 1 + (i - 1) = start + i /\ L + 1 + (i - 1) = L + i
        /\ start + i \in 1 .. L + 1
    BY <1>2
  <2>2. Alike(program, turn[i], second[i])
    <3>1. Alike(program, states[start + 1 + (i - 1)], again[L + 1 + (i - 1)])
      BY <1>2, <2>1 DEF AlikeTurn
    <3> QED BY <1>4, <1>5, <2>1, <3>1
  <2>3. program \in Programs /\ memory_model \in MemoryModel
    BY SearchAssumption DEF PathInv
  <2>4. Sound(program, turn[i])
    <3>1. Lived(program, memory_model, states[start + i])
      BY <1>2, <2>1, <2>3, ExecutesLives
    <3> QED BY <1>4, <3>1 DEF Lived
  <2> QED BY <2>2, <2>3, <2>4, AlikeStep
<1>7. \A t \in ThreadId : t \in others <=> ~Moves(report.cycle, t)
  <2>1. /\ Len(CycleOf(k, start)) = L - start /\ CycleOf(k, start) \in Seq(ScheduleStep)
        /\ \A j \in 1 .. L - start : CycleOf(k, start)[j] = k[start + j]
    BY <1>2, TwiceSteps
  <2>2. DOMAIN CycleOf(k, start) = 1 .. L - start
    BY <2>1
  <2>3. \A j \in 1 .. L - start : start + j \in start + 1 .. L
    BY <1>2
  <2>4. \A i \in start + 1 .. L : i - start \in 1 .. L - start /\ start + (i - start) = i
    BY <1>2
  <2>5. ASSUME NEW t \in ThreadId
        PROVE  t \in participants(k, start) <=> Moves(report.cycle, t)
    <3>1. ASSUME t \in participants(k, start) PROVE Moves(report.cycle, t)
      <4>1. PICK i \in start + 1 .. L : t = k[i].thread
        BY <3>1 DEF participants
      <4>2. CycleOf(k, start)[i - start] = k[i] /\ i - start \in DOMAIN CycleOf(k, start)
        BY <2>1, <2>2, <2>4
      <4> QED BY <1>2, <4>1, <4>2 DEF Moves
    <3>2. ASSUME Moves(report.cycle, t) PROVE t \in participants(k, start)
      <4>1. PICK j \in 1 .. L - start : CycleOf(k, start)[j].thread = t
        BY <1>2, <2>2, <3>2 DEF Moves
      <4> QED BY <2>1, <2>3, <4>1 DEF participants
    <3> QED BY <3>1, <3>2
  <2> QED BY <2>5
<1>8. others \subseteq ThreadId
  OBVIOUS
<1> HIDE DEF others, n
<1>9. /\ classify_fairness(program, turn, others) = "UnfairScheduleWitness" <=>
            \E t \in others : \A i \in 1 .. n :
               enabled_steps_for_thread(program, second[i], t) # {}
      /\ classify_fairness(program, turn, others) = "FairDivergence" <=>
            \A t \in others : \A i \in 1 .. n :
               enabled_steps_for_thread(program, second[i], t) = {}
  <2>1. \A i \in 1 .. n : \A t \in others :
           enabled_steps_for_thread(program, turn[i], t) =
              enabled_steps_for_thread(program, second[i], t)
    BY <1>6, <1>8
  <2>2. n \in Nat \ {0} /\ DOMAIN turn = 1 .. n
    BY <1>4
  <2> QED BY <2>1, <2>2, LabelOf
<1>10. WeaklyFair(report.cycle, second) <=>
          \A t \in others : \E i \in 1 .. n : enabled_steps_for_thread(program, second[i], t) = {}
  <2>1. \A t : Movable(second, t) # DOMAIN second <=>
               \E i \in 1 .. n : enabled_steps_for_thread(program, second[i], t) = {}
    BY <1>5 DEF Movable
  <2> QED BY <1>7, <1>8, <2>1 DEF WeaklyFair
<1>11. StronglyFair(report.cycle, second) <=>
          \A t \in others : \A i \in 1 .. n : enabled_steps_for_thread(program, second[i], t) = {}
  <2>1. \A t : Movable(second, t) = {} <=>
               \A i \in 1 .. n : enabled_steps_for_thread(program, second[i], t) = {}
    BY <1>5 DEF Movable
  <2> QED BY <1>7, <1>8, <2>1 DEF StronglyFair
<1> QED BY <1>2, <1>3, <1>9, <1>10, <1>11

(***************************************************************************)
(* A reported cycle can be taken forever, for every program: from the state*)
(* in which it closes all its steps are enabled again in the same order,   *)
(* none fails, and it closes again.  (The fingerprint decides what a step  *)
(* does to the fingerprint.)                                               *)
(***************************************************************************)
THEOREM CyclesRepeat == Spec => []CycleRepeats
BY LassoInvariance, LassoRepeats, PTL

(***************************************************************************)
(* The fairness label of a lasso, computed on the first turn of its cycle, *)
(* is that of the endless repetition of the cycle.                         *)
(***************************************************************************)
THEOREM FairnessIsExact == Spec => []FairnessExact
BY LassoInvariance, LabelExact, PTL
=============================================================================
