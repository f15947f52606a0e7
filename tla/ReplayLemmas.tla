---------------------------- MODULE ReplayLemmas ----------------------------
(***************************************************************************)
(* What replay makes of the schedule of a path while the path grows step   *)
(* by step, and what a search whose result carries all that its path has   *)
(* shown may say of it.  The path invariants of both searches and of Path  *)
(* are built from these operators on states, schedules and results.        *)
(***************************************************************************)
EXTENDS Report, Minimizer, StepProofs, SequenceTheorems

-----------------------------------------------------------------------------
(***************************************************************************)
(* Sequences, and the least step of a set.                                 *)
(***************************************************************************)
IsSeq(q) == \E S : q \in Seq(S)

\* Append: the new element is the last.
LEMMA SeqAppend ==
    ASSUME NEW q, IsSeq(q), NEW x
    PROVE  /\ IsSeq(Append(q, x)) /\ Len(q) \in Nat /\ Len(Append(q, x)) = Len(q) + 1
           /\ \A i \in 1 .. Len(q) : Append(q, x)[i] = q[i]
           /\ Append(q, x)[Len(q) + 1] = x
           /\ Last(Append(q, x)) = x
<1>1. PICK S : q \in Seq(S)
  BY DEF IsSeq
<1>2. q \in Seq(S \cup {x}) /\ x \in S \cup {x}
  BY <1>1
<1>3. /\ Append(q, x) \in Seq(S \cup {x}) /\ Len(q) \in Nat /\ Len(Append(q, x)) = Len(q) + 1
      /\ \A i \in 1 .. Len(q) : Append(q, x)[i] = q[i]
      /\ Append(q, x)[Len(q) + 1] = x
  BY <1>2
<1> QED BY <1>3 DEF IsSeq, Last

\* Front: all elements but the last.
LEMMA SeqFront ==
    ASSUME NEW q, IsSeq(q), q # <<>>
    PROVE  /\ IsSeq(Front(q)) /\ Len(q) \in Nat \ {0} /\ Len(Front(q)) = Len(q) - 1
           /\ \A i \in 1 .. Len(q) - 1 : Front(q)[i] = q[i]
<1>1. PICK S : q \in Seq(S)
  BY DEF IsSeq
<1>2. Len(q) \in Nat \ {0}
  BY <1>1
<1>3. /\ Front(q) \in Seq(S) /\ Len(Front(q)) = Len(q) - 1
      /\ \A i \in 1 .. Len(q) - 1 : Front(q)[i] = q[i]
  <2> DEFINE f == SubSeq(q, 1, Len(q) - 1)
  <2>1. \A i \in 1 .. Len(q) - 1 : q[i] \in S
    BY <1>1, <1>2
  <2>2. f \in Seq(S)
    BY <1>2, <2>1, SubSeqProperties
  <2>3. Len(f) = Len(q) - 1
    <3> DEFINE n == Len(q) - 1
    <3>1. n \in Nat
      BY <1>2
    <3> HIDE DEF n
    <3>2. Len(SubSeq(q, 1, n)) = IF 1 <= n THEN n - 1 + 1 ELSE 0
      BY <2>1, <3>1, SubSeqProperties DEF n
    <3>3. Len(SubSeq(q, 1, n)) = n
      BY <3>1, <3>2
    <3> QED BY <3>3 DEF n
  <2>4. \A i \in 1 .. Len(q) - 1 : f[i] = q[i]
    BY <1>1, <1>2
  <2> QED BY <2>2, <2>3, <2>4 DEF Front
<1> QED BY <1>2, <1>3 DEF IsSeq

\* The length; only the empty sequence has none.
LEMMA SeqLength ==
    ASSUME NEW q, IsSeq(q)
    PROVE  Len(q) \in Nat /\ DOMAIN q = 1 .. Len(q) /\ (q = <<>> <=> Len(q) = 0)
BY DEF IsSeq

\* A function over 1 .. n is a sequence of length n.
LEMMA SeqFunction ==
    ASSUME NEW n \in Nat, NEW f, f = [i \in 1 .. n |-> f[i]]
    PROVE  IsSeq(f) /\ Len(f) = n
<1> DEFINE S == {f[i] : i \in 1 .. n}
<1>1. f \in [1 .. n -> S]
  OBVIOUS
<1> HIDE DEF S
<1>2. f \in Seq(S) /\ Len(f) = n
  BY <1>1
<1> QED BY <1>2 DEF IsSeq

\* NextStep: a nonempty set of steps has a least one.
LEMMA LeastStepIn ==
    ASSUME NEW S \in SUBSET ScheduleStep, S # {}
    PROVE  LeastStep(S) \in S /\ \A d \in S \ {LeastStep(S)} : StepLess(LeastStep(S), d)
<1> DEFINE T == {e.thread : e \in S}
           t == Min(T)
           I == {e.action_index : e \in {d \in S : d.thread = t}}
           i == Min(I)
           A == {e.flush_address + 1 : e \in {d \in S : d.thread = t /\ d.action_index = i}}
           a == Min(A)
<1>1. \A e \in S : /\ e.thread \in Nat /\ e.action_index \in Nat
                    /\ e.flush_address \in Int /\ e.flush_address + 1 \in Nat
                    /\ e = [thread |-> e.thread, action_index |-> e.action_index,
                            flush_address |-> e.flush_address]
  BY SizesAssumption DEF ScheduleStep, ThreadId, NoFlushAddress
<1>2. t \in T /\ \A x \in T : t <= x
  <2>1. T \in SUBSET Nat /\ T # {}
    BY <1>1
  <2> HIDE DEF T
  <2> QED BY <2>1, LeastNatural
<1> HIDE DEF t
<1>3. i \in I /\ \A x \in I : i <= x
  <2>1. I \in SUBSET Nat /\ I # {}
    BY <1>1, <1>2
  <2> HIDE DEF I
  <2> QED BY <2>1, LeastNatural
<1> HIDE DEF i
<1>4. a \in A /\ \A x \in A : a <= x
  <2>1. A \in SUBSET Nat /\ A # {}
    BY <1>1, <1>3
  <2> HIDE DEF A
  <2> QED BY <2>1, LeastNatural
<1> HIDE DEF a
<1>5. PICK e \in S : e.thread = t /\ e.action_index = i /\ e.flush_address + 1 = a
  BY <1>4
<1>6. ASSUME NEW d \in S \ {e} PROVE StepLess(e, d)
  <2>1. t <= d.thread /\ t \in Nat /\ d.thread \in Nat
    BY <1>1, <1>2, <1>5
  <2>2. d.thread = t => i <= d.action_index /\ i \in Nat /\ d.action_index \in Nat
    BY <1>1, <1>3, <1>5
  <2>3. d.thread = t /\ d.action_index = i =>
           e.flush_address <= d.flush_address /\ e.flush_address # d.flush_address
    <3> SUFFICES ASSUME d.thread = t, d.action_index = i
                 PROVE  e.flush_address <= d.flush_address /\ e.flush_address # d.flush_address
      OBVIOUS
    <3>1. d.flush_address + 1 \in A
      OBVIOUS
    <3>2. a <= d.flush_address + 1
      BY <1>4, <3>1
    <3>3. e.flush_address # d.flush_address
      BY <1>1, <1>5
    <3> QED BY <1>1, <1>5, <3>2, <3>3
  <2> QED BY <1>1, <1>5, <2>1, <2>2, <2>3 DEF StepLess
<1> QED BY <1>6 DEF LeastStep

-----------------------------------------------------------------------------
(***************************************************************************)
(* The loop of replay_schedule, step by step.                              *)
(***************************************************************************)
\* after[n] is the replay of the first n steps of the schedule h.
IsReplay(after, p, h, bound, model) ==
    after = [n \in 0 .. Len(h) |-> IF n = 0 THEN ReplayStart(p, model)
                                   ELSE ReplayStep(p, bound, after[n - 1], h[n])]

\* There is only one such function, and ReplayLoop is its last value.
LEMMA ReplayLoopIs ==
    ASSUME NEW after, NEW p, NEW bound, NEW model, NEW S, NEW h \in Seq(S),
           IsReplay(after, p, h, bound, model)
    PROVE  ReplayLoop(p, h, bound, model) = after[Len(h)]
<1> DEFINE Q(f) == f = [n \in 0 .. Len(h) |-> IF n = 0 THEN ReplayStart(p, model)
                                              ELSE ReplayStep(p, bound, f[n - 1], h[n])]
           other == CHOOSE f : Q(f)
<1>1. Q(other)
  <2>1. Q(after)
    BY DEF IsReplay
  <2> HIDE DEF Q
  <2> QED BY <2>1
<1>2. ReplayLoop(p, h, bound, model) = other[Len(h)]
  BY DEF ReplayLoop
<1> HIDE DEF other
<1>3. Len(h) \in Nat
  OBVIOUS
<1>4. ASSUME NEW f, Q(f)
      PROVE  /\ f[0] = ReplayStart(p, model)
             /\ \A n \in 1 .. Len(h) : f[n] = ReplayStep(p, bound, f[n - 1], h[n])
  BY <1>3, <1>4
<1>5. /\ after[0] = ReplayStart(p, model) /\ other[0] = ReplayStart(p, model)
      /\ \A n \in 1 .. Len(h) : /\ after[n] = ReplayStep(p, bound, after[n - 1], h[n])
                                /\ other[n] = ReplayStep(p, bound, other[n - 1], h[n])
  <2>1. Q(after)
    BY DEF IsReplay
  <2> HIDE DEF Q
  <2> QED BY <1>1, <1>4, <2>1
<1> HIDE DEF Q
<1> DEFINE differ == {n \in 0 .. Len(h) : after[n] # other[n]}
<1>6. CASE differ # {}
  <2> DEFINE k == Min(differ)
  <2>1. k \in differ /\ \A n \in differ : k <= n
    <3>1. differ \in SUBSET Nat
      BY <1>3
    <3> HIDE DEF differ
    <3> QED BY <1>6, <3>1, LeastNatural
  <2> HIDE DEF k
  <2>2. k # 0
    BY <1>5, <2>1
  <2>3. k - 1 \in 0 .. Len(h) /\ k - 1 \notin differ
    BY <1>3, <2>1, <2>2
  <2>4. after[k - 1] = other[k - 1]
    BY <2>3
  <2> QED BY <1>5, <2>1, <2>2, <2>4
<1>7. CASE differ = {}
  BY <1>2, <1>3, <1>7
<1> QED BY <1>6, <1>7

\* Another step of the schedule is another iteration of the loop.
LEMMA ReplayExtends ==
    ASSUME NEW after, NEW p, NEW bound, NEW model, NEW S, NEW h \in Seq(S), NEW x \in S,
           IsReplay(after, p, h, bound, model)
    PROVE  \E longer : /\ IsReplay(longer, p, Append(h, x), bound, model)
                       /\ longer[Len(h) + 1] = ReplayStep(p, bound, after[Len(h)], x)
<1> DEFINE longer == [n \in 0 .. Len(h) + 1 |->
                         IF n = Len(h) + 1 THEN ReplayStep(p, bound, after[Len(h)], x)
                         ELSE after[n]]
           k == Append(h, x)
<1>1. /\ Len(h) \in Nat /\ Len(k) = Len(h) + 1 /\ k[Len(h) + 1] = x
      /\ \A n \in 1 .. Len(h) : k[n] = h[n]
  OBVIOUS
<1> HIDE DEF k
<1>2. /\ after[0] = ReplayStart(p, model)
      /\ \A n \in 1 .. Len(h) : after[n] = ReplayStep(p, bound, after[n - 1], h[n])
  BY <1>1 DEF IsReplay
<1>3. /\ longer[0] = ReplayStart(p, model)
      /\ longer[Len(h) + 1] = ReplayStep(p, bound, after[Len(h)], x)
      /\ \A n \in 0 .. Len(h) : longer[n] = after[n]
  BY <1>1, <1>2
<1>4. \A n \in 1 .. Len(h) + 1 : longer[n] = ReplayStep(p, bound, longer[n - 1], k[n])
  <2> SUFFICES ASSUME NEW n \in 1 .. Len(h) + 1
               PROVE  longer[n] = ReplayStep(p, bound, longer[n - 1], k[n])
    OBVIOUS
  <2>1. CASE n = Len(h) + 1
    <3>1. longer[n - 1] = after[Len(h)] /\ k[n] = x
      BY <1>1, <1>3, <2>1
    <3> HIDE DEF longer
    <3> QED BY <1>3, <2>1, <3>1
  <2>2. CASE n # Len(h) + 1
    <3>1. n \in 1 .. Len(h) /\ n - 1 \in 0 .. Len(h) /\ n \in 0 .. Len(h)
      BY <1>1, <2>2
    <3> HIDE DEF longer
    <3> QED BY <1>1, <1>2, <1>3, <3>1
  <2> QED BY <2>1, <2>2
<1>5. longer = [n \in 0 .. Len(k) |-> longer[n]]
  BY <1>1
<1> HIDE DEF longer
<1>6. IsReplay(longer, p, k, bound, model)
  <2>1. \A n \in 0 .. Len(k) :
          longer[n] = IF n = 0 THEN ReplayStart(p, model)
                      ELSE ReplayStep(p, bound, longer[n - 1], k[n])
    BY <1>1, <1>3, <1>4
  <2> QED BY <1>5, <2>1, Zenon DEF IsReplay
<1> QED BY <1>3, <1>6 DEF k

-----------------------------------------------------------------------------
(***************************************************************************)
(* One iteration.                                                          *)
(***************************************************************************)
\* The replay is in this phase, with this state, history, schedule taken and result.
IsAt(replay, phase_, s, h, taken, r) ==
    /\ DOMAIN replay = {"phase", "state", "history", "taken", "effective", "result"}
    /\ replay.phase = phase_ /\ replay.state = s /\ replay.history = h
    /\ replay.taken = taken /\ replay.result = r

EndedWith(replay, r) ==
    "phase" \in DOMAIN replay /\ replay.phase = "ended" /\ replay.result = r

\* Every enabled step passes the checks of validate_replay_step.
LEMMA EnabledValid ==
    ASSUME NEW p \in Programs, NEW s, Sound(p, s), NEW step \in enabled_steps(p, s)
    PROVE  validate_replay_step(p, s, step) /\ step \in ScheduleStep
<1> DEFINE t == step.thread
           n == CountedBy(s.thread_steps)
<1>1. t \in ThreadId /\ GivenStep(p, s, step)
  BY EnabledGiven
<1>2. n \in Counts /\ Good(p, n, s) /\ s \in CountedState(p, n)
  BY AnyClockCounts DEF Sound, Good
<1>3. CASE step = SourceStep(t, s.pc[t]) /\ is_program_action_enabled(p, s, t)
  <2>1. s.pc[t] \in Nat /\ s.pc[t] < Len(p[t]) /\ Len(p[t]) \in Nat
    BY <1>1, <1>2, <1>3, ActionType DEF CountedState, Counters, is_program_action_enabled,
                                        has_next_action
  <2>2. /\ step.action_index = s.pc[t] /\ step.flush_address = NoFlushAddress
        /\ step \in ScheduleStep
    BY <1>1, <1>3, <2>1 DEF SourceStep, ScheduleStep
  <2>3. ~is_flush_step(step)
    BY <1>1, <2>1, <2>2, ProgramsAssumption, SizesAssumption DEF is_flush_step
  <2> QED BY <1>1, <2>1, <2>2, <2>3 DEF validate_replay_step
<1>4. CASE step \in FlushSteps(p, s, t)
  <2>1. is_flush_step(step) /\ step \in ScheduleStep
    BY <1>1, <1>2, <1>4, FlushTarget
  <2>2. CASE s.memory_model = "TSO"
    <3>1. step.flush_address = NoFlushAddress
      BY <1>4, <2>2 DEF FlushSteps, FlushStep
    <3> QED BY <1>1, <2>1, <2>2, <3>1 DEF validate_replay_step
  <2>3. CASE s.memory_model = "PSO"
    <3>1. PICK x \in program_addresses(p) : step = FlushStep(t, AddressNumber(p, x))
      BY <1>4, <2>3 DEF FlushSteps
    <3>2. AddressNumber(p, x) \in Nat
      BY <3>1, ProgramAddressesType, AddressNumberType
    <3>3. step.flush_address # NoFlushAddress
      BY <3>1, <3>2 DEF FlushStep, NoFlushAddress
    <3> QED BY <1>1, <2>1, <2>3, <3>3 DEF validate_replay_step
  <2> QED BY <1>4, <2>2, <2>3 DEF FlushSteps
<1> QED BY <1>1, <1>3, <1>4 DEF GivenStep

\* What an iteration of the loop does with a valid step: it ends with the bound reached, a
\* failure or a closed cycle, or goes on.
Takes(next, p, bound, s, h, k, r, step) ==
    LET out == execute_enabled_step(p, s, step)
        taken == Append(k, step)
        reported == WithStepReport(r, out.report, taken)
        starts == CycleStart(h, out.state)
        reached == s.thread_steps[step.thread] >= bound
    IN  /\ reached => EndedWith(next, record_bound_exceeded(r))
        /\ ~reached /\ Failed(out) => EndedWith(next, WithLeaf(reported))
        /\ ~reached /\ ~Failed(out) /\ starts # {} =>
              EndedWith(next, record_nontermination(reported,
                  CHOOSE report \in make_nontermination_report(p, taken, Min(starts),
                                        out.state.memory_model) : TRUE))
        /\ ~reached /\ ~Failed(out) /\ starts = {} =>
              IsAt(next, "running", out.state, Observed(p, h, out.state, Len(k) + 1), taken,
                   reported)

\* ReplayStep does so.
LEMMA ReplayTakes ==
    ASSUME NEW replay, NEW p, NEW bound, NEW s, NEW h, NEW S, NEW k \in Seq(S), NEW r,
           NEW step \in S, IsAt(replay, "running", s, h, k, r),
           validate_replay_step(p, s, step)
    PROVE  Takes(ReplayStep(p, bound, replay, step), p, bound, s, h, k, r, step)
<1> DEFINE next == ReplayStep(p, bound, replay, step)
           out == execute_enabled_step(p, s, step)
           taken == Append(k, step)
           reported == WithStepReport(r, out.report, taken)
           starts == CycleStart(h, out.state)
           reached == s.thread_steps[step.thread] >= bound
           noted == [replay EXCEPT !.effective = Append(@, effective_step(p, replay.state, step))]
<1>1. \A x, y : IsAt(x, "running", s, h, k, r) => EndedWith(Ended(x, taken, y), y)
  BY DEF IsAt, EndedWith, Ended
<1>2. next = TakeReplayStep(p, bound, replay, step)
  BY DEF ReplayStep, IsAt
<1>3. CASE reached
  <2>1. next = Ended(replay, taken, record_bound_exceeded(r))
    BY <1>2, <1>3 DEF TakeReplayStep, IsAt
  <2>2. EndedWith(next, record_bound_exceeded(r))
    BY <1>1, <2>1
  <2> QED BY <1>3, <2>2 DEF Takes
<1>4. CASE ~reached
  <2>1. IsAt(noted, "running", s, h, k, r)
    BY DEF IsAt
  <2>2. next = AfterStep(p, noted, taken, out)
    BY <1>2, <1>4 DEF TakeReplayStep, IsAt
  <2>3. Len(taken) = Len(k) + 1
    OBVIOUS
  <2> HIDE DEF noted, out, taken, next
  <2>4. CASE Failed(out)
    <3>1. next = Ended(noted, taken, WithLeaf(reported))
      BY <2>1, <2>2, <2>4 DEF AfterStep, IsAt
    <3>2. EndedWith(next, WithLeaf(reported))
      BY <1>1, <2>1, <3>1 DEF taken
    <3> QED BY <1>4, <2>4, <3>2 DEF Takes, next, taken, out
  <2>5. CASE ~Failed(out)
    <3> DEFINE starts_ == {c \in CycleStart(noted.history, out.state) : ~Failed(out)}
    <3>1. starts_ = starts
      BY <2>1, <2>5 DEF IsAt
    <3>2. CASE starts # {}
      <4> DEFINE y == record_nontermination(reported,
                         CHOOSE report \in make_nontermination_report(p, taken, Min(starts),
                                               out.state.memory_model) : TRUE)
      <4>1. next = Ended(noted, taken, y)
        BY <2>1, <2>2, <2>5, <3>1, <3>2 DEF AfterStep, IsAt
      <4>2. EndedWith(next, y)
        BY <1>1, <2>1, <4>1 DEF taken
      <4> QED BY <1>4, <2>5, <3>2, <4>2 DEF Takes, next, taken, out
    <3>3. CASE starts = {}
      <4>1. next = [noted EXCEPT !.state = out.state, !.taken = taken, !.result = reported,
                                 !.history = Observed(p, @, out.state, Len(taken))]
        BY <2>1, <2>2, <2>5, <3>1, <3>3 DEF AfterStep, IsAt
      <4>2. IsAt(next, "running", out.state, Observed(p, h, out.state, Len(k) + 1), taken, reported)
        BY <2>1, <2>3, <4>1 DEF IsAt
      <4> QED BY <1>4, <2>5, <3>3, <4>2 DEF Takes, next, taken, out
    <3> QED BY <3>2, <3>3
  <2> QED BY <2>4, <2>5
<1> QED BY <1>3, <1>4

\* A result has the fields of CheckResult, whatever is recorded in it.
ResultFields(r) == DOMAIN r = DOMAIN NoResult

\* No report changes the fields that a result has.
LEMMA ResultFieldsKept ==
    ASSUME NEW r, ResultFields(r)
    PROVE  /\ ResultFields(WithLeaf(r))
           /\ \A report, k : ResultFields(WithStepReport(r, report, k))
           /\ \A p, s, k : ResultFields(WithDeadlock(r, p, s, k))
           /\ ResultFields(record_bound_exceeded(r))
           /\ \A report : ResultFields(record_nontermination(r, report))
BY DEF ResultFields, WithLeaf, WithStepReport, WithDeadlock, record_bound_exceeded,
       record_nontermination

\* Two entries of a history have different behavioral states.
Unambiguous(h) ==
    /\ \A e \in h : e.position \in Nat
    /\ \A e, f \in h : e.key = f.key => e = f

\* So a cycle has one start, which is the least one.
LEMMA OneStart ==
    ASSUME NEW h, Unambiguous(h), NEW s, NEW start \in CycleStart(h, s)
    PROVE  CycleStart(h, s) = {start} /\ Min(CycleStart(h, s)) = start
<1>1. start \in Nat /\ CycleStart(h, s) = {start}
  BY DEF CycleStart, Unambiguous
<1>2. {start} \in SUBSET Nat /\ {start} # {}
  BY <1>1
<1>3. Min({start}) \in {start}
  BY <1>2, LeastNatural
<1> QED BY <1>1, <1>3

\* A lasso has one report.
LEMMA OneReport ==
    ASSUME NEW p, NEW k, NEW start, NEW model,
           NEW report \in make_nontermination_report(p, k, start, model)
    PROVE  (CHOOSE x \in make_nontermination_report(p, k, start, model) : TRUE) = report
<1> DEFINE R == make_nontermination_report(p, k, start, model)
<1>1. PICK run : R = LassoReport(p, k, start, run.replays,
                                 SubSeq(run.states, start + 1, Len(run.states)))
  BY DEF make_nontermination_report
<1>2. \A x, y \in R : x = y
  <2> HIDE DEF R
  <2> QED BY <1>1 DEF LassoReport
<1>3. report \in R
  OBVIOUS
<1> HIDE DEF R
<1>4. (CHOOSE x \in R : TRUE) = report
  BY <1>2, <1>3
<1> QED BY <1>4 DEF R

\* A replay has at most one result.
LEMMA OneResult ==
    ASSUME NEW p, NEW s, NEW bound, NEW model
    PROVE  \A x, y \in replay_schedule(p, s, bound, model) : x = y
BY DEF replay_schedule, ReplayResult

-----------------------------------------------------------------------------
(***************************************************************************)
(* What is recorded in a result.                                           *)
(***************************************************************************)
LEMMA KindsAre ==
    /\ ReportKinds = {"race", "deadlock", "error", "assertion", "nontermination"}
    /\ \A r : /\ FoundOf(r)["race"] = r.first_race
              /\ FoundOf(r)["deadlock"] = r.first_deadlock
              /\ FoundOf(r)["error"] = r.first_error
              /\ FoundOf(r)["assertion"] = r.first_assertion
              /\ FoundOf(r)["nontermination"] =
                    {[report |-> n, schedule |-> n.stem \o n.cycle] : n \in r.first_nontermination}
<1>1. ReportKinds = {"race", "deadlock", "error", "assertion", "nontermination"}
  <2>1. DOMAIN Priority = 1 .. 5
    BY DEF Priority
  <2>2. /\ Priority[1] = "race" /\ Priority[2] = "deadlock" /\ Priority[3] = "error"
        /\ Priority[4] = "assertion" /\ Priority[5] = "nontermination"
    BY DEF Priority
  <2> QED BY <2>1, <2>2 DEF ReportKinds, Range
<1> QED BY <1>1 DEF FoundOf

\* A result whose counters are numbers, and one that counts nothing yet.
Recordable(r) == ResultFields(r) /\ \A counter \in CountFields : r[counter] \in Nat
Uncounted(r) == ResultFields(r) /\ \A counter \in CountFields : r[counter] = 0

\* The reports new, or those there are already.
Both(old, new) == [kind \in ReportKinds |-> FirstNonempty(old[kind], new[kind])]

\* r2 is r after recording the reports new, of the kinds it had none, and the counts more.
Adds(r, r2, new) ==
    \A kind \in ReportKinds : FoundOf(r2)[kind] = FirstNonempty(FoundOf(r)[kind], new[kind])

Natural(more) == \A counter \in CountFields : more[counter] \in Nat

Logged(r, r2, more, new) ==
    /\ ResultFields(r2)
    /\ \A counter \in CountFields : r2[counter] = r[counter] + more[counter]
    /\ Adds(r, r2, new)

NoCounts == [counter \in CountFields |-> 0]
LeafCounts == [NoCounts EXCEPT !["schedules_explored"] = 1]
BoundCounts == [LeafCounts EXCEPT !["bound_exceeded_executions"] = 1]
OfClass(report, class) == IF class = report.fairness THEN 1 ELSE 0
LassoCounts(report) ==
    [LeafCounts EXCEPT !["cycles_detected"] = 1,
                       !["unfair_cycles"] = OfClass(report, "UnfairScheduleWitness"),
                       !["strongly_unfair_cycles"] =
                           OfClass(report, "StronglyUnfairScheduleWitness"),
                       !["fair_cycles"] = OfClass(report, "FairDivergence")]

NothingFound == [kind \in ReportKinds |-> {}]
StepFound(report, schedule) ==
    [NothingFound EXCEPT !["race"] = At(report.race, schedule),
                         !["error"] = At(report.error, schedule),
                         !["assertion"] = At(report.assertion, schedule)]
DeadlockFound(p, s, schedule) ==
    [NothingFound EXCEPT !["deadlock"] =
        IF all_finished(p, s) THEN {} ELSE At({make_deadlock_report(p, s)}, schedule)]
LassoFound(report) ==
    [NothingFound EXCEPT !["nontermination"] =
        {[report |-> report, schedule |-> report.stem \o report.cycle]}]

\* Adds, field by field.
LEMMA AddsFields ==
    ASSUME NEW r, NEW r2, NEW new,
           r2.first_race = FirstNonempty(r.first_race, new["race"]),
           r2.first_error = FirstNonempty(r.first_error, new["error"]),
           r2.first_assertion = FirstNonempty(r.first_assertion, new["assertion"]),
           r2.first_deadlock = FirstNonempty(r.first_deadlock, new["deadlock"]),
           FoundOf(r2)["nontermination"] =
               FirstNonempty(FoundOf(r)["nontermination"], new["nontermination"])
    PROVE  Adds(r, r2, new)
<1> SUFFICES ASSUME NEW kind \in ReportKinds
             PROVE  FoundOf(r2)[kind] = FirstNonempty(FoundOf(r)[kind], new[kind])
  BY DEF Adds
<1>1. CASE kind = "race"
  BY <1>1, KindsAre
<1>2. CASE kind = "error"
  BY <1>2, KindsAre
<1>3. CASE kind = "assertion"
  BY <1>3, KindsAre
<1>4. CASE kind = "deadlock"
  BY <1>4, KindsAre
<1>5. CASE kind = "nontermination"
  BY <1>5
<1> QED BY <1>1, <1>2, <1>3, <1>4, <1>5, KindsAre

\* Nothing of a result but its reports changes, or only the counters do.
LEMMA NothingMore ==
    \A x : FirstNonempty(x, {}) = x /\ (x = {} => \A y : FirstNonempty(x, y) = y)
BY DEF FirstNonempty

\* A step logs its race, its error and its failed assertion, and counts nothing.
LEMMA StepRecords ==
    ASSUME NEW r, Recordable(r), NEW report, NEW k
    PROVE  Logged(r, WithStepReport(r, report, k), NoCounts, StepFound(report, k))
<1> DEFINE r2 == WithStepReport(r, report, k)
           new == StepFound(report, k)
<1>1. /\ r2.first_race = FirstNonempty(r.first_race, At(report.race, k))
      /\ r2.first_error = FirstNonempty(r.first_error, At(report.error, k))
      /\ r2.first_assertion = FirstNonempty(r.first_assertion, At(report.assertion, k))
      /\ r2.first_deadlock = r.first_deadlock
      /\ r2.first_nontermination = r.first_nontermination
  BY DEF Recordable, ResultFields, NoResult, WithStepReport
<1>2. \A counter \in CountFields : r2[counter] = r[counter]
  BY DEF Recordable, ResultFields, NoResult, WithStepReport, CountFields
<1>3. /\ new["race"] = At(report.race, k) /\ new["error"] = At(report.error, k)
      /\ new["assertion"] = At(report.assertion, k)
      /\ new["deadlock"] = {} /\ new["nontermination"] = {}
  BY KindsAre DEF StepFound, NothingFound
<1>4. ResultFields(r2)
  BY ResultFieldsKept DEF Recordable
<1> HIDE DEF r2, new
<1>5. Adds(r, r2, new)
  <2>1. FoundOf(r2)["nontermination"] = FoundOf(r)["nontermination"]
    BY <1>1, KindsAre
  <2> QED BY <1>1, <1>3, <2>1, AddsFields, NothingMore
<1>6. \A counter \in CountFields : r2[counter] = r[counter] + NoCounts[counter]
  BY <1>2 DEF Recordable, NoCounts
<1> QED BY <1>4, <1>5, <1>6 DEF r2, new, Logged

\* The end of an execution is counted.
LEMMA LeafRecords ==
    ASSUME NEW r, Recordable(r)
    PROVE  /\ Logged(r, WithLeaf(r), LeafCounts, NothingFound)
           /\ Recordable(WithLeaf(r))
<1> DEFINE r2 == WithLeaf(r)
<1>1. /\ r2.first_race = r.first_race
      /\ r2.first_error = r.first_error
      /\ r2.first_assertion = r.first_assertion
      /\ r2.first_deadlock = r.first_deadlock
      /\ r2.first_nontermination = r.first_nontermination
  BY DEF Recordable, ResultFields, NoResult, WithLeaf
<1>2. /\ r2.schedules_explored = r.schedules_explored + 1
      /\ \A counter \in CountFields \ {"schedules_explored"} : r2[counter] = r[counter]
  BY DEF Recordable, ResultFields, NoResult, WithLeaf, CountFields
<1>3. ResultFields(r2)
  BY ResultFieldsKept DEF Recordable
<1> HIDE DEF r2
<1>4. \A kind \in ReportKinds : NothingFound[kind] = {} /\ FoundOf(r2)[kind] = FoundOf(r)[kind]
  BY <1>1, KindsAre DEF NothingFound
<1>5. Adds(r, r2, NothingFound)
  BY <1>4, NothingMore DEF Adds
<1>6. \A counter \in CountFields : r2[counter] = r[counter] + LeafCounts[counter]
  <2>1. /\ LeafCounts["schedules_explored"] = 1
        /\ \A counter \in CountFields \ {"schedules_explored"} : LeafCounts[counter] = 0
    BY DEF LeafCounts, NoCounts, CountFields
  <2> QED BY <1>2, <2>1 DEF Recordable
<1>7. Recordable(r2)
  BY <1>2, <1>3 DEF Recordable, CountFields
<1> QED BY <1>3, <1>5, <1>6, <1>7 DEF r2, Logged

\* Two recordings one after the other, of which one counts nothing or one finds nothing.
LEMMA LoggedTwice ==
    ASSUME NEW r, Recordable(r), NEW r2, NEW r3, NEW more, NEW new, NEW more2, NEW new2,
           Logged(r, r2, more, new), Logged(r2, r3, more2, new2),
           Natural(more)
    PROVE  /\ (\A counter \in CountFields : more[counter] = 0) =>
                 Logged(r, r3, more2, Both(new, new2))
           /\ (\A counter \in CountFields : more2[counter] = 0) =>
                 Logged(r, r3, more, Both(new, new2))
<1>1. Adds(r, r3, Both(new, new2))
  BY Zenon DEF Adds, Both, Logged, FirstNonempty
<1>2. \A counter \in CountFields : r[counter] \in Nat
  BY DEF Recordable
<1>3. (\A counter \in CountFields : more[counter] = 0) =>
        \A counter \in CountFields : r3[counter] = r[counter] + more2[counter]
  BY <1>2 DEF Logged, Natural
<1>4. (\A counter \in CountFields : more2[counter] = 0) =>
        \A counter \in CountFields : r3[counter] = r[counter] + more[counter]
  BY <1>2 DEF Logged, Natural
<1> QED BY <1>1, <1>3, <1>4 DEF Logged

\* A recorded result is one in which more can be recorded.
LEMMA LoggedKeeps ==
    ASSUME NEW r, Recordable(r), NEW r2, NEW more, NEW new, Logged(r, r2, more, new),
           Natural(more)
    PROVE  Recordable(r2)
BY DEF Recordable, Logged, Natural

\* The counts are numbers, and those of a step are zero.
LEMMA CountsAre ==
    /\ \A counter \in CountFields : NoCounts[counter] = 0
    /\ Natural(NoCounts) /\ Natural(LeafCounts) /\ Natural(BoundCounts)
    /\ \A report : Natural(LassoCounts(report))
    /\ LeafCounts["schedules_explored"] = 1 /\ BoundCounts["schedules_explored"] = 1
    /\ \A report : LassoCounts(report)["schedules_explored"] = 1
BY DEF NoCounts, LeafCounts, BoundCounts, LassoCounts, OfClass, CountFields, Natural

\* The end without enabled steps logs the deadlock, if it is one.
LEMMA DeadlockRecords ==
    ASSUME NEW r, Recordable(r), NEW p, NEW s, NEW k
    PROVE  Logged(r, WithDeadlock(WithLeaf(r), p, s, k), LeafCounts,
                    Both(NothingFound, DeadlockFound(p, s, k)))
<1> DEFINE leaf == WithLeaf(r)
           r2 == WithDeadlock(leaf, p, s, k)
           d == IF all_finished(p, s) THEN {} ELSE At({make_deadlock_report(p, s)}, k)
           new == DeadlockFound(p, s, k)
<1>1. Logged(r, leaf, LeafCounts, NothingFound) /\ Recordable(leaf)
  BY LeafRecords
<1> HIDE DEF leaf
<1>2. /\ r2.first_race = leaf.first_race
      /\ r2.first_error = leaf.first_error
      /\ r2.first_assertion = leaf.first_assertion
      /\ r2.first_deadlock = FirstNonempty(leaf.first_deadlock, d)
      /\ r2.first_nontermination = leaf.first_nontermination
  BY <1>1, NothingMore DEF Recordable, ResultFields, NoResult, WithDeadlock
<1>3. \A counter \in CountFields : r2[counter] = leaf[counter]
  BY <1>1 DEF Recordable, ResultFields, NoResult, WithDeadlock, CountFields
<1>4. /\ new["deadlock"] = d
      /\ \A kind \in ReportKinds \ {"deadlock"} : new[kind] = {}
  BY KindsAre DEF DeadlockFound, NothingFound
<1>5. ResultFields(r2)
  BY <1>1, ResultFieldsKept DEF Recordable
<1> HIDE DEF r2, new, d
<1>6. Adds(leaf, r2, new)
  <2>1. FoundOf(r2)["nontermination"] = FoundOf(leaf)["nontermination"]
    BY <1>2, KindsAre
  <2>2. new["race"] = {} /\ new["error"] = {} /\ new["assertion"] = {}
        /\ new["nontermination"] = {}
    BY <1>4, KindsAre
  <2> QED BY <1>2, <1>4, <2>1, <2>2, AddsFields, NothingMore
<1>7. Logged(leaf, r2, NoCounts, new)
  BY <1>1, <1>3, <1>5, <1>6, CountsAre DEF Logged, Recordable
<1>8. Logged(r, r2, LeafCounts, Both(NothingFound, new))
  BY <1>1, <1>7, CountsAre, LoggedTwice
<1> QED BY <1>8 DEF r2, new, leaf

\* The end with a failure logs what its step reports.
LEMMA FailureRecords ==
    ASSUME NEW r, Recordable(r), NEW report, NEW k
    PROVE  Logged(r, WithLeaf(WithStepReport(r, report, k)), LeafCounts,
                    Both(StepFound(report, k), NothingFound))
<1> DEFINE r2 == WithStepReport(r, report, k)
<1>1. Logged(r, r2, NoCounts, StepFound(report, k))
  BY StepRecords
<1>2. Recordable(r2)
  BY <1>1, CountsAre, LoggedKeeps
<1> HIDE DEF r2
<1>3. Logged(r2, WithLeaf(r2), LeafCounts, NothingFound)
  BY <1>2, LeafRecords
<1>4. Logged(r, WithLeaf(r2), LeafCounts, Both(StepFound(report, k), NothingFound))
  BY <1>1, <1>3, CountsAre, LoggedTwice
<1> QED BY <1>4 DEF r2

\* The end at the step bound is counted as one beyond it.
LEMMA BoundRecords ==
    ASSUME NEW r, Recordable(r)
    PROVE  Logged(r, record_bound_exceeded(r), BoundCounts, NothingFound)
<1> DEFINE leaf == WithLeaf(r)
           r2 == record_bound_exceeded(r)
<1>1. Logged(r, leaf, LeafCounts, NothingFound) /\ Recordable(leaf)
  BY LeafRecords
<1>2. r2 = [leaf EXCEPT !.bound_exceeded_executions = @ + 1]
  BY DEF record_bound_exceeded
<1>3. ResultFields(r2)
  BY ResultFieldsKept DEF Recordable
<1> HIDE DEF leaf, r2
<1>4. /\ r2.first_race = leaf.first_race
      /\ r2.first_error = leaf.first_error
      /\ r2.first_assertion = leaf.first_assertion
      /\ r2.first_deadlock = leaf.first_deadlock
      /\ r2.first_nontermination = leaf.first_nontermination
  BY <1>1, <1>2 DEF Recordable, ResultFields, NoResult
<1>5. /\ r2.bound_exceeded_executions = leaf.bound_exceeded_executions + 1
      /\ \A counter \in CountFields \ {"bound_exceeded_executions"} :
            r2[counter] = leaf[counter]
  BY <1>1, <1>2 DEF Recordable, ResultFields, NoResult, CountFields
<1>6. \A kind \in ReportKinds : FoundOf(r2)[kind] = FoundOf(leaf)[kind]
  BY <1>4, KindsAre
<1>7. Adds(r, r2, NothingFound)
  BY <1>1, <1>6 DEF Adds, Logged
<1>8. \A counter \in CountFields : r2[counter] = r[counter] + BoundCounts[counter]
  <2>1. /\ BoundCounts["bound_exceeded_executions"] = 1
        /\ LeafCounts["bound_exceeded_executions"] = 0
        /\ "bound_exceeded_executions" \in CountFields
        /\ \A counter \in CountFields \ {"bound_exceeded_executions"} :
              BoundCounts[counter] = LeafCounts[counter]
    BY DEF BoundCounts, LeafCounts, NoCounts, CountFields
  <2> QED BY <1>1, <1>5, <2>1 DEF Recordable, Logged
<1> QED BY <1>3, <1>7, <1>8 DEF Logged, r2

\* The end with a closed cycle logs the lasso and counts its class.
LEMMA LassoRecords ==
    ASSUME NEW r, Recordable(r), NEW report, NEW k, NEW lasso
    PROVE  Logged(r, record_nontermination(WithStepReport(r, report, k), lasso),
                    LassoCounts(lasso), Both(StepFound(report, k), LassoFound(lasso)))
<1> DEFINE q == WithStepReport(r, report, k)
           leaf == WithLeaf(q)
           r2 == record_nontermination(q, lasso)
<1>1. Logged(r, q, NoCounts, StepFound(report, k))
  BY StepRecords
<1>2. Recordable(q)
  BY <1>1, CountsAre, LoggedKeeps
<1> HIDE DEF q
<1>3. Logged(q, leaf, LeafCounts, NothingFound) /\ Recordable(leaf)
  BY <1>2, LeafRecords
<1>4. r2 = [leaf EXCEPT
            !.cycles_detected = @ + 1,
            !.unfair_cycles = @ + OfClass(lasso, "UnfairScheduleWitness"),
            !.strongly_unfair_cycles = @ + OfClass(lasso, "StronglyUnfairScheduleWitness"),
            !.fair_cycles = @ + OfClass(lasso, "FairDivergence"),
            !.first_nontermination = FirstNonempty(@, {lasso})]
  BY DEF record_nontermination, OfClass
<1>5. ResultFields(r2)
  BY <1>2, ResultFieldsKept DEF Recordable
<1> HIDE DEF leaf, r2
<1>6. /\ r2.first_race = leaf.first_race
      /\ r2.first_error = leaf.first_error
      /\ r2.first_assertion = leaf.first_assertion
      /\ r2.first_deadlock = leaf.first_deadlock
      /\ r2.first_nontermination = FirstNonempty(leaf.first_nontermination, {lasso})
  BY <1>3, <1>4 DEF Recordable, ResultFields, NoResult
<1>7. /\ r2.schedules_explored = leaf.schedules_explored
      /\ r2.bound_exceeded_executions = leaf.bound_exceeded_executions
      /\ r2.cycles_detected = leaf.cycles_detected + 1
      /\ r2.unfair_cycles = leaf.unfair_cycles + OfClass(lasso, "UnfairScheduleWitness")
      /\ r2.strongly_unfair_cycles =
            leaf.strongly_unfair_cycles + OfClass(lasso, "StronglyUnfairScheduleWitness")
      /\ r2.fair_cycles = leaf.fair_cycles + OfClass(lasso, "FairDivergence")
  BY <1>3, <1>4 DEF Recordable, ResultFields, NoResult
<1>8. Adds(q, r2, LassoFound(lasso))
  <2> DEFINE new == LassoFound(lasso)
             one == [report |-> lasso, schedule |-> lasso.stem \o lasso.cycle]
  <2>1. /\ new["race"] = {} /\ new["error"] = {} /\ new["assertion"] = {}
        /\ new["deadlock"] = {} /\ new["nontermination"] = {one}
    BY KindsAre DEF LassoFound, NothingFound
  <2>2. \A kind \in ReportKinds : FoundOf(leaf)[kind] = FoundOf(q)[kind]
    BY <1>3, NothingMore DEF Logged, Adds, NothingFound
  <2>3. /\ FoundOf(r2)["race"] = FoundOf(q)["race"]
        /\ FoundOf(r2)["error"] = FoundOf(q)["error"]
        /\ FoundOf(r2)["assertion"] = FoundOf(q)["assertion"]
        /\ FoundOf(r2)["deadlock"] = FoundOf(q)["deadlock"]
    BY <1>6, <2>2, KindsAre
  <2>4. FoundOf(r2)["nontermination"] = FirstNonempty(FoundOf(q)["nontermination"], {one})
    <3>1. FoundOf(q)["nontermination"] = FoundOf(leaf)["nontermination"]
      BY <2>2, KindsAre
    <3>2. CASE leaf.first_nontermination = {}
      <4>1. FoundOf(leaf)["nontermination"] = {}
        BY <3>2, KindsAre
      <4>2. r2.first_nontermination = {lasso}
        BY <1>6, <3>2 DEF FirstNonempty
      <4>3. FoundOf(r2)["nontermination"] =
              {[report |-> n, schedule |-> n.stem \o n.cycle] : n \in {lasso}}
        BY <4>2, KindsAre
      <4>4. FoundOf(r2)["nontermination"] = {one}
        BY <4>3
      <4> QED BY <3>1, <4>1, <4>4 DEF FirstNonempty
    <3>3. CASE leaf.first_nontermination # {}
      <4>0. FoundOf(leaf)["nontermination"] = {[report |-> n, schedule |-> n.stem \o n.cycle] :
                                                  n \in leaf.first_nontermination}
        BY KindsAre
      <4>1. FoundOf(leaf)["nontermination"] # {}
        BY <3>3, <4>0
      <4>2. r2.first_nontermination = leaf.first_nontermination
        BY <1>6, <3>3 DEF FirstNonempty
      <4>3. FoundOf(r2)["nontermination"] = FoundOf(leaf)["nontermination"]
        BY <4>2, KindsAre
      <4> QED BY <3>1, <4>1, <4>3 DEF FirstNonempty
    <3> QED BY <3>2, <3>3
  <2> HIDE DEF new, one
  <2>5. Adds(q, r2, new)
    BY <2>1, <2>3, <2>4, KindsAre, AddsFields, NothingMore
  <2> QED BY <2>5 DEF new
<1>9. \A counter \in CountFields : r2[counter] = q[counter] + LassoCounts(lasso)[counter]
  <2> DEFINE more == LassoCounts(lasso)
  <2>1. /\ \A counter \in CountFields : /\ q[counter] \in Nat
                                        /\ leaf[counter] = q[counter] + LeafCounts[counter]
        /\ OfClass(lasso, "UnfairScheduleWitness") \in Nat
        /\ OfClass(lasso, "StronglyUnfairScheduleWitness") \in Nat
        /\ OfClass(lasso, "FairDivergence") \in Nat
    BY <1>2, <1>3 DEF Recordable, Logged, OfClass
  <2>2. /\ LeafCounts["schedules_explored"] = 1
        /\ \A counter \in CountFields \ {"schedules_explored"} : LeafCounts[counter] = 0
    BY DEF LeafCounts, NoCounts, CountFields
  <2>3. /\ more["schedules_explored"] = 1 /\ more["bound_exceeded_executions"] = 0
        /\ more["cycles_detected"] = 1
        /\ more["unfair_cycles"] = OfClass(lasso, "UnfairScheduleWitness")
        /\ more["strongly_unfair_cycles"] = OfClass(lasso, "StronglyUnfairScheduleWitness")
        /\ more["fair_cycles"] = OfClass(lasso, "FairDivergence")
    BY DEF LassoCounts, LeafCounts, NoCounts, CountFields
  <2> HIDE DEF more
  <2>4. \A counter \in CountFields : r2[counter] = q[counter] + more[counter]
    BY <1>7, <2>1, <2>2, <2>3 DEF CountFields
  <2> QED BY <2>4 DEF more
<1>10. Logged(q, r2, LassoCounts(lasso), LassoFound(lasso))
  BY <1>5, <1>8, <1>9 DEF Logged
<1>11. Logged(r, r2, LassoCounts(lasso), Both(StepFound(report, k), LassoFound(lasso)))
  BY <1>1, <1>10, CountsAre, LoggedTwice
<1> QED BY <1>11 DEF r2, q

-----------------------------------------------------------------------------
(***************************************************************************)
(* The result of a search and that of a replay.  The search has already    *)
(* found something of every kind the replay of its path has.               *)
(***************************************************************************)
Carries(R, r) == \A kind \in ReportKinds : FoundOf(r)[kind] # {} => FoundOf(R)[kind] # {}

\* What the result R2 has and R had not is what the replay of s shows with the result r.
Firsts(R, R2, r, s) ==
    \A kind \in ReportKinds :
        \/ FoundOf(R2)[kind] = FoundOf(R)[kind]
        \/ /\ FoundOf(R)[kind] = {} /\ FoundOf(R2)[kind] # {}
           /\ FoundOf(R2)[kind] = FoundOf(r)[kind]
           /\ \A found \in FoundOf(R2)[kind] : found.schedule = s

\* The counts of a replay, which are added to those of a search.
CountsOf(R, R2, r, more) ==
    \A counter \in CountFields :
        r[counter] = more[counter] /\ R2[counter] = R[counter] + r[counter]

\* All that is found has the schedule s.
FoundWith(new, s) == \A kind \in ReportKinds : \A found \in new[kind] : found.schedule = s

\* The same is recorded in the result R of a search and in the result r of a replay.
LEMMA LoggedInBoth ==
    ASSUME NEW R, NEW r, NEW R2, NEW r2, NEW more, NEW new, NEW s,
           Recordable(R), Uncounted(r), Carries(R, r),
           Logged(R, R2, more, new), Logged(r, r2, more, new),
           Natural(more), FoundWith(new, s)
    PROVE  /\ Recordable(R2) /\ Carries(R2, r2) /\ Firsts(R, R2, r2, s)
           /\ CountsOf(R, R2, r2, more)
<1>1. Recordable(R2)
  BY LoggedKeeps
<1>2. \A counter \in CountFields : /\ r2[counter] = more[counter]
                                   /\ R2[counter] = R[counter] + r2[counter]
  BY DEF Logged, Uncounted, Recordable, Natural
<1>3. ASSUME NEW kind \in ReportKinds
      PROVE  /\ FoundOf(r2)[kind] # {} => FoundOf(R2)[kind] # {}
             /\ \/ FoundOf(R2)[kind] = FoundOf(R)[kind]
                \/ /\ FoundOf(R)[kind] = {} /\ FoundOf(R2)[kind] # {}
                   /\ FoundOf(R2)[kind] = FoundOf(r2)[kind]
                   /\ \A found \in FoundOf(R2)[kind] : found.schedule = s
  <2>1. /\ FoundOf(R2)[kind] = FirstNonempty(FoundOf(R)[kind], new[kind])
        /\ FoundOf(r2)[kind] = FirstNonempty(FoundOf(r)[kind], new[kind])
        /\ FoundOf(r)[kind] # {} => FoundOf(R)[kind] # {}
    BY DEF Logged, Adds, Carries
  <2>2. CASE FoundOf(R)[kind] # {}
    <3>1. FoundOf(R2)[kind] = FoundOf(R)[kind]
      BY <2>1, <2>2 DEF FirstNonempty
    <3> QED BY <2>2, <3>1
  <2>3. CASE FoundOf(R)[kind] = {}
    <3>1. FoundOf(R2)[kind] = new[kind] /\ FoundOf(r2)[kind] = new[kind]
      BY <2>1, <2>3 DEF FirstNonempty
    <3> QED BY <2>3, <3>1 DEF FoundWith
  <2> QED BY <2>2, <2>3
<1> QED BY <1>1, <1>2, <1>3 DEF Carries, Firsts, CountsOf

\* A recorded result still carries what the one before it carried.
LEMMA StillCarries ==
    ASSUME NEW R, NEW R2, NEW more, NEW new, Logged(R, R2, more, new), NEW r, Carries(R, r)
    PROVE  Carries(R2, r)
<1> SUFFICES ASSUME NEW kind \in ReportKinds, FoundOf(r)[kind] # {}
             PROVE  FoundOf(R2)[kind] # {}
  BY DEF Carries
<1>1. FoundOf(R2)[kind] = FirstNonempty(FoundOf(R)[kind], new[kind]) /\ FoundOf(R)[kind] # {}
  BY DEF Logged, Adds, Carries
<1> QED BY <1>1 DEF FirstNonempty

\* The schedules of what is recorded.
LEMMA FoundSchedules ==
    /\ \A s : FoundWith(NothingFound, s)
    /\ \A report, s : FoundWith(StepFound(report, s), s)
    /\ \A p, state_, s : FoundWith(DeadlockFound(p, state_, s), s)
    /\ \A lasso : FoundWith(LassoFound(lasso), lasso.stem \o lasso.cycle)
    /\ \A a, b, s : FoundWith(a, s) /\ FoundWith(b, s) => FoundWith(Both(a, b), s)
<1>1. \A reports, s : \A found \in At(reports, s) : found.schedule = s
  BY DEF At
<1>2. \A kind \in ReportKinds : NothingFound[kind] = {}
  BY DEF NothingFound
<1>3. ASSUME NEW report, NEW s, NEW kind \in ReportKinds, NEW found \in StepFound(report, s)[kind]
      PROVE  found.schedule = s
  <2>1. StepFound(report, s)[kind] \in {{}, At(report.race, s), At(report.error, s),
                                         At(report.assertion, s)}
    BY KindsAre DEF StepFound, NothingFound
  <2> QED BY <1>1, <2>1
<1>4. ASSUME NEW p, NEW state_, NEW s, NEW kind \in ReportKinds,
             NEW found \in DeadlockFound(p, state_, s)[kind]
      PROVE  found.schedule = s
  <2>1. DeadlockFound(p, state_, s)[kind] \in {{}, At({make_deadlock_report(p, state_)}, s)}
    BY KindsAre DEF DeadlockFound, NothingFound
  <2> QED BY <1>1, <2>1
<1>5. ASSUME NEW lasso, NEW kind \in ReportKinds, NEW found \in LassoFound(lasso)[kind]
      PROVE  found.schedule = lasso.stem \o lasso.cycle
  <2> DEFINE one == [report |-> lasso, schedule |-> lasso.stem \o lasso.cycle]
  <2>1. LassoFound(lasso) = [NothingFound EXCEPT !["nontermination"] = {one}]
    BY DEF LassoFound
  <2>2. one.schedule = lasso.stem \o lasso.cycle
    OBVIOUS
  <2> HIDE DEF one
  <2>3. LassoFound(lasso)[kind] \in {{}, {one}}
    BY <2>1, KindsAre DEF NothingFound
  <2> QED BY <2>2, <2>3
<1>6. \A a, b, s : FoundWith(a, s) /\ FoundWith(b, s) => FoundWith(Both(a, b), s)
  BY DEF FoundWith, Both, FirstNonempty
<1>7. /\ \A s : FoundWith(NothingFound, s)
      /\ \A report, s : FoundWith(StepFound(report, s), s)
      /\ \A p, state_, s : FoundWith(DeadlockFound(p, state_, s), s)
      /\ \A lasso : FoundWith(LassoFound(lasso), lasso.stem \o lasso.cycle)
  BY <1>2, <1>3, <1>4, <1>5 DEF FoundWith
<1> QED BY <1>6, <1>7

-----------------------------------------------------------------------------
(***************************************************************************)
(* The replay of the schedule k stands in the state s with the history h   *)
(* and the result r, as a path does that has taken the steps k.            *)
(***************************************************************************)
Stands(p, model, k, s, h, r) ==
    /\ p \in Programs /\ model \in MemoryModel
    /\ Sound(p, s) /\ s.memory_model = model
    /\ k \in Seq(ScheduleStep)
    /\ Unambiguous(h)
    /\ Uncounted(r)
    /\ \E after : /\ IsReplay(after, p, k, StepBound, model)
                  /\ IsAt(after[Len(k)], "running", s, h, k, r)

\* It does before the first step.
LEMMA StandsStart ==
    ASSUME NEW p \in Programs, NEW model \in MemoryModel
    PROVE  LET s == initial_state(p, model)
           IN  Stands(p, model, <<>>, s, initial_state_history(p, s), NoResult)
<1> DEFINE s == initial_state(p, model)
           h == initial_state_history(p, s)
           start == ReplayStart(p, model)
           after == [n \in 0 .. 0 |-> start]
           none == <<>>
<1>1. Sound(p, s) /\ s.memory_model = model
  BY InitialSound
<1>2. Unambiguous(h)
  BY DEF initial_state_history, Unambiguous
<1>3. Uncounted(NoResult)
  BY DEF Uncounted, ResultFields, NoResult, CountFields
<1>4. IsAt(start, "running", s, h, none, NoResult)
  BY DEF ReplayStart, IsAt
<1> HIDE DEF start
<1>5. Len(none) = 0 /\ none \in Seq(ScheduleStep)
  OBVIOUS
<1> HIDE DEF none
<1>6. IsReplay(after, p, none, StepBound, model) /\ after[0] = start
  BY <1>5 DEF IsReplay, start
<1> HIDE DEF after, s, h
<1>7. Stands(p, model, none, s, h, NoResult)
  BY <1>1, <1>2, <1>3, <1>4, <1>5, <1>6 DEF Stands
<1> QED BY <1>7 DEF none, s, h

\* What replay_schedule makes of the schedule itself.
LEMMA StandsReplay ==
    ASSUME NEW p, NEW model, NEW k, NEW s, NEW h, NEW r, Stands(p, model, k, s, h, r)
    PROVE  /\ enabled_steps(p, s) # {} => ReplayOf(p, k, model) = {r}
           /\ enabled_steps(p, s) = {} =>
                 ReplayOf(p, k, model) = {WithDeadlock(WithLeaf(r), p, s, k)}
<1>1. PICK after : /\ IsReplay(after, p, k, StepBound, model)
                   /\ IsAt(after[Len(k)], "running", s, h, k, r)
  BY DEF Stands
<1> DEFINE L == after[Len(k)]
<1>2. p \in Programs /\ k \in Seq(ScheduleStep) /\ Sound(p, s)
  BY DEF Stands
<1>3. ReplayLoop(p, k, StepBound, model) = L
  BY <1>1, <1>2, ReplayLoopIs
<1>4. IsAt(L, "running", s, h, k, r)
  BY <1>1
<1> HIDE DEF L
<1>5. ReplayOf(p, k, model) = ReplayResult(p, k, L)
  BY <1>3 DEF replay_schedule, ReplayOf
<1>6. any_enabled(p, s) <=> enabled_steps(p, s) # {}
  BY <1>2, AnyEnabled
<1> QED BY <1>4, <1>5, <1>6 DEF ReplayResult, IsAt

\* And of the schedule with another enabled step: an execution that ends with it, or a
\* path that has taken it too.
LEMMA StandsStep ==
    ASSUME NEW p, NEW model, NEW k, NEW s, NEW h, NEW r, Stands(p, model, k, s, h, r),
           NEW step \in enabled_steps(p, s)
    PROVE  LET out == execute_enabled_step(p, s, step)
               taken == Append(k, step)
               reported == WithStepReport(r, out.report, taken)
               reached == step_bound_reached(s, step.thread)
           IN  /\ reached => ReplayOf(p, taken, model) = {record_bound_exceeded(r)}
               /\ ~reached /\ Failed(out) => ReplayOf(p, taken, model) = {WithLeaf(reported)}
               /\ ~reached /\ ~Failed(out) =>
                    \A start \in CycleStart(h, out.state) :
                    \A lasso \in make_nontermination_report(p, taken, start, model) :
                       ReplayOf(p, taken, model) = {record_nontermination(reported, lasso)}
               /\ ~reached /\ ~Failed(out) /\ CycleStart(h, out.state) = {} =>
                    Stands(p, model, taken, out.state, Observed(p, h, out.state, Len(k) + 1),
                           reported)
<1> DEFINE out == execute_enabled_step(p, s, step)
           taken == Append(k, step)
           reported == WithStepReport(r, out.report, taken)
           reached == step_bound_reached(s, step.thread)
           starts == CycleStart(h, out.state)
<1>1. /\ p \in Programs /\ model \in MemoryModel /\ Sound(p, s) /\ s.memory_model = model
      /\ k \in Seq(ScheduleStep) /\ Unambiguous(h) /\ Uncounted(r)
  BY DEF Stands
<1>2. PICK after : /\ IsReplay(after, p, k, StepBound, model)
                   /\ IsAt(after[Len(k)], "running", s, h, k, r)
  BY DEF Stands
<1>3. validate_replay_step(p, s, step) /\ step \in ScheduleStep
  BY <1>1, EnabledValid
<1>4. Sound(p, out.state) /\ out.state.memory_model = model
  BY <1>1, EnabledGiven, StepSound
<1>5. PICK longer : /\ IsReplay(longer, p, taken, StepBound, model)
                    /\ longer[Len(k) + 1] = ReplayStep(p, StepBound, after[Len(k)], step)
  BY <1>1, <1>2, <1>3, ReplayExtends
<1> DEFINE next == longer[Len(k) + 1]
<1>6. Takes(next, p, StepBound, s, h, k, r, step)
  BY <1>1, <1>2, <1>3, <1>5, ReplayTakes
<1>7. taken \in Seq(ScheduleStep) /\ Len(taken) = Len(k) + 1 /\ Len(k) \in Nat
  BY <1>1, <1>3
<1>8. ReplayLoop(p, taken, StepBound, model) = next
  <2> HIDE DEF taken
  <2>1. ReplayLoop(p, taken, StepBound, model) = longer[Len(taken)]
    BY <1>5, <1>7, ReplayLoopIs
  <2> QED BY <1>7, <2>1
<1> HIDE DEF next, out
<1>9. ASSUME NEW x, EndedWith(next, x)
      PROVE  ReplayOf(p, taken, model) = {x}
  BY <1>8, <1>9 DEF replay_schedule, ReplayOf, ReplayResult, EndedWith
<1>10. /\ reached => EndedWith(next, record_bound_exceeded(r))
       /\ ~reached /\ Failed(out) => EndedWith(next, WithLeaf(reported))
       /\ ~reached /\ ~Failed(out) /\ starts # {} =>
            EndedWith(next, record_nontermination(reported,
                CHOOSE report \in make_nontermination_report(p, taken, Min(starts),
                                      out.state.memory_model) : TRUE))
       /\ ~reached /\ ~Failed(out) /\ starts = {} =>
            IsAt(next, "running", out.state, Observed(p, h, out.state, Len(k) + 1), taken,
                 reported)
  BY <1>6 DEF Takes, step_bound_reached, out
<1>11. ASSUME ~reached, ~Failed(out), NEW start \in starts,
              NEW lasso \in make_nontermination_report(p, taken, start, model)
       PROVE  ReplayOf(p, taken, model) = {record_nontermination(reported, lasso)}
  <2>1. Min(starts) = start
    BY <1>1, <1>11, OneStart
  <2>2. (CHOOSE x \in make_nontermination_report(p, taken, start, model) : TRUE) = lasso
    BY <1>11, OneReport
  <2>3. EndedWith(next, record_nontermination(reported, lasso))
    BY <1>4, <1>10, <1>11, <2>1, <2>2
  <2> QED BY <1>9, <2>3
<1>12. ASSUME ~reached, ~Failed(out), starts = {}
       PROVE  Stands(p, model, taken, out.state, Observed(p, h, out.state, Len(k) + 1), reported)
  <2>1. IsAt(longer[Len(taken)], "running", out.state, Observed(p, h, out.state, Len(k) + 1),
             taken, reported)
    BY <1>7, <1>10, <1>12 DEF next
  <2>2. Uncounted(reported)
    <3>1. Recordable(r)
      BY <1>1 DEF Uncounted, Recordable
    <3>2. Logged(r, reported, NoCounts, StepFound(out.report, taken))
      BY <3>1, StepRecords
    <3> QED BY <1>1, <3>2, CountsAre DEF Logged, Uncounted
  <2>3. Unambiguous(Observed(p, h, out.state, Len(k) + 1))
    <3> DEFINE e == [key |-> behavioral_state_fingerprint(out.state), position |-> Len(k) + 1]
               h2 == Observed(p, h, out.state, Len(k) + 1)
    <3>1. h2 \in {h, h \cup {e}}
      BY DEF Observed
    <3>2. e.key = behavioral_state_fingerprint(out.state) /\ e.position \in Nat
      BY <1>7
    <3> HIDE DEF e, h2
    <3>3. ASSUME NEW f \in h, f.key = e.key PROVE FALSE
      <4>1. f.position \in starts
        BY <3>2, <3>3 DEF CycleStart
      <4> QED BY <1>12, <4>1
    <3>4. Unambiguous(h2)
      BY <1>1, <3>1, <3>2, <3>3 DEF Unambiguous
    <3> QED BY <3>4 DEF h2
  <2> HIDE DEF reported, taken
  <2> QED BY <1>1, <1>4, <1>5, <1>7, <2>1, <2>2, <2>3 DEF Stands
<1> QED BY <1>9, <1>10, <1>11, <1>12 DEF out

-----------------------------------------------------------------------------
(***************************************************************************)
(* A search stands on its path: the replay of every prefix of the path     *)
(* stands in the state the stack holds there, with the history of that     *)
(* prefix, and the result carries what the replay has found.               *)
(***************************************************************************)
Until(h, n) == {e \in h : e.position < n}

Standing(p, model, path, states, h, R) ==
    /\ Recordable(R)
    /\ path \in Seq(ScheduleStep)
    /\ \A e \in h : e.position \in 0 .. Len(path)
    /\ \A n \in 0 .. Len(path) :
          \E r : /\ Stands(p, model, SubSeq(path, 1, n), states[n + 1], Until(h, n + 1), r)
                 /\ Carries(R, r)

\* What a search may say of the schedule s it counts, and of one it only goes on with.
Counted(p, model, s, R, R2) ==
    \E r \in ReplayOf(p, s, model) :
        /\ r.schedules_explored = 1
        /\ \A counter \in CountFields : R2[counter] = R[counter] + r[counter]
        /\ Carries(R2, r) /\ Firsts(R, R2, r, s)

Met(p, model, s, R, R2) ==
    /\ \A counter \in CountFields : R2[counter] = R[counter]
    /\ \E r \in ReplayOf(p, s, model) : Firsts(R, R2, r, s)

\* A prefix depends on its elements only.
LEMMA SamePrefix ==
    ASSUME NEW S, NEW q \in Seq(S), NEW q2 \in Seq(S), NEW n \in 0 .. Len(q), n <= Len(q2),
           \A i \in 1 .. n : q[i] = q2[i]
    PROVE  SubSeq(q, 1, n) = SubSeq(q2, 1, n)
<1>1. n \in Nat /\ Len(q) \in Nat /\ Len(q2) \in Nat
  OBVIOUS
<1>2. \A i \in 1 .. n : q[i] \in S /\ q2[i] \in S
  BY <1>1
<1>3. \A m \in Nat : (IF 1 <= m THEN m - 1 + 1 ELSE 0) = m /\ m - 1 + 1 = m
  OBVIOUS
<1> DEFINE a == SubSeq(q, 1, n)
           b == SubSeq(q2, 1, n)
<1>4. a \in Seq(S) /\ Len(a) = n /\ \A i \in 1 .. n : a[i] = q[1 + i - 1]
  BY <1>1, <1>2, <1>3, SubSeqProperties
<1>5. b \in Seq(S) /\ Len(b) = n /\ \A i \in 1 .. n : b[i] = q2[1 + i - 1]
  BY <1>1, <1>2, <1>3, SubSeqProperties
<1> HIDE DEF a, b
<1>6. \A i \in 1 .. n : 1 + i - 1 = i
  BY <1>1
<1>7. a = b
  BY <1>4, <1>5, <1>6, SeqEqual
<1> QED BY <1>7 DEF a, b

\* The end of the path.
LEMMA StandingTop ==
    ASSUME NEW p, NEW model, NEW path, NEW states, NEW h, NEW R,
           Standing(p, model, path, states, h, R)
    PROVE  /\ Len(path) \in Nat
           /\ \E r : Stands(p, model, path, states[Len(path) + 1], h, r) /\ Carries(R, r)
<1>1. path \in Seq(ScheduleStep) /\ Len(path) \in Nat /\ Len(path) \in 0 .. Len(path)
  BY DEF Standing
<1>2. SubSeq(path, 1, Len(path)) = path
  BY <1>1, SubSeqFull
<1>3. Until(h, Len(path) + 1) = h
  BY <1>1 DEF Until, Standing
<1>4. PICK r : /\ Stands(p, model, SubSeq(path, 1, Len(path)), states[Len(path) + 1],
                         Until(h, Len(path) + 1), r)
               /\ Carries(R, r)
  BY <1>1 DEF Standing
<1> QED BY <1>1, <1>2, <1>3, <1>4

\* It does before the first step.
LEMMA StandingStart ==
    ASSUME NEW p \in Programs, NEW model \in MemoryModel, NEW states,
           states[1] = initial_state(p, model)
    PROVE  Standing(p, model, <<>>, states, initial_state_history(p, states[1]), NoResult)
<1> DEFINE h == initial_state_history(p, states[1])
           none == <<>>
<1>1. Stands(p, model, none, states[1], h, NoResult)
  BY StandsStart
<1>2. none \in Seq(ScheduleStep) /\ Len(none) = 0 /\ SubSeq(none, 1, 0) = none
  <2>1. none \in Seq(ScheduleStep) /\ Len(none) = 0
    OBVIOUS
  <2> HIDE DEF none
  <2> QED BY <2>1, SubSeqFull
<1>3. \A e \in h : e.position = 0
  BY DEF initial_state_history
<1> HIDE DEF none, h
<1>4. Until(h, 0 + 1) = h
  BY <1>3 DEF Until
<1>5. Carries(NoResult, NoResult) /\ Recordable(NoResult)
  BY DEF Carries, Recordable, ResultFields, NoResult, CountFields
<1>6. Standing(p, model, none, states, h, NoResult)
  <2>1. 0 .. Len(none) = {0}
    BY <1>2
  <2>2. ASSUME NEW n \in 0 .. Len(none)
        PROVE  \E r : /\ Stands(p, model, SubSeq(none, 1, n), states[n + 1], Until(h, n + 1), r)
                      /\ Carries(NoResult, r)
    <3>1. n = 0 /\ n + 1 = 1
      BY <2>1
    <3> QED BY <1>1, <1>2, <1>4, <1>5, <3>1
  <2> QED BY <1>2, <1>3, <1>5, <2>1, <2>2 DEF Standing
<1> QED BY <1>6 DEF none, h

\* Only the states of the path matter, and more may be recorded.
LEMMA StandingStays ==
    ASSUME NEW p, NEW model, NEW path, NEW states, NEW h, NEW R,
           Standing(p, model, path, states, h, R),
           NEW states2, \A n \in 1 .. Len(path) + 1 : states2[n] = states[n]
    PROVE  /\ Standing(p, model, path, states2, h, R)
           /\ \A R2, more, new :
                 Logged(R, R2, more, new) /\ (Natural(more))
                    => Standing(p, model, path, states2, h, R2)
<1>1. Len(path) \in Nat /\ \A n \in 0 .. Len(path) : n + 1 \in 1 .. Len(path) + 1
  BY DEF Standing
<1>2. Standing(p, model, path, states2, h, R)
  BY <1>1 DEF Standing
<1>3. ASSUME NEW R2, NEW more, NEW new, Logged(R, R2, more, new),
             Natural(more)
      PROVE  Standing(p, model, path, states2, h, R2)
  <2>1. Recordable(R2)
    BY <1>3, LoggedKeeps DEF Standing
  <2>2. \A r : Carries(R, r) => Carries(R2, r)
    BY <1>3, StillCarries
  <2> QED BY <1>2, <2>1, <2>2 DEF Standing
<1> QED BY <1>2, <1>3

\* The last step of the path is taken back.
LEMMA StandingPop ==
    ASSUME NEW p, NEW model, NEW path, NEW states, NEW h, NEW R,
           Standing(p, model, path, states, h, R), path # <<>>,
           NEW states2, \A n \in 1 .. Len(path) : states2[n] = states[n]
    PROVE  Standing(p, model, Front(path), states2, Restored(h, Len(path)), R)
<1> DEFINE q == Front(path)
           g == Restored(h, Len(path))
<1>1. path \in Seq(ScheduleStep) /\ Len(path) \in Nat \ {0} /\ q \in Seq(ScheduleStep)
      /\ Len(q) = Len(path) - 1 /\ \A i \in 1 .. Len(q) : q[i] = path[i]
  <2>1. path \in Seq(ScheduleStep)
    BY DEF Standing
  <2>2. IsSeq(path)
    BY <2>1 DEF IsSeq
  <2>3. Len(path) \in Nat \ {0} /\ Len(q) = Len(path) - 1 /\ IsSeq(q)
        /\ \A i \in 1 .. Len(q) : q[i] = path[i]
    BY <2>2, SeqFront
  <2>4. q \in Seq(ScheduleStep)
    <3>1. \A i \in 1 .. Len(q) : q[i] \in ScheduleStep
      BY <2>1, <2>3
    <3> QED BY <2>3, <3>1 DEF IsSeq
  <2> QED BY <2>1, <2>3, <2>4
<1> HIDE DEF q
<1>2. /\ \A e \in g : e.position \in 0 .. Len(q)
      /\ \A n \in 0 .. Len(q) : Until(g, n + 1) = Until(h, n + 1)
  BY <1>1 DEF Until, Restored, Standing
<1> HIDE DEF g
<1>3. ASSUME NEW n \in 0 .. Len(q)
      PROVE  \E r : /\ Stands(p, model, SubSeq(q, 1, n), states2[n + 1], Until(g, n + 1), r)
                    /\ Carries(R, r)
  <2>1. n \in 0 .. Len(path) /\ n + 1 \in 1 .. Len(path)
    BY <1>1
  <2>2. SubSeq(q, 1, n) = SubSeq(path, 1, n)
    BY <1>1, <2>1, SamePrefix
  <2> QED BY <1>2, <2>1, <2>2 DEF Standing
<1> QED BY <1>1, <1>2, <1>3 DEF Standing, q, g

\* An execution is counted when its replay gives what the result gained.
LEMMA CountedSo ==
    ASSUME NEW p, NEW s, NEW model, NEW R, NEW R2, NEW r, NEW more,
           ReplayOf(p, s, model) = {r}, more["schedules_explored"] = 1,
           Carries(R2, r), Firsts(R, R2, r, s), CountsOf(R, R2, r, more)
    PROVE  Counted(p, model, s, R, R2)
<1>1. r.schedules_explored = 1 /\ \A counter \in CountFields : R2[counter] = R[counter] + r[counter]
  BY DEF CountsOf, CountFields
<1> QED BY <1>1 DEF Counted

\* A state without enabled steps is counted.
LEMMA LeafCounted ==
    ASSUME NEW p, NEW model, NEW path, NEW states, NEW h, NEW R,
           Standing(p, model, path, states, h, R),
           enabled_steps(p, states[Len(path) + 1]) = {}
    PROVE  LET R2 == WithDeadlock(WithLeaf(R), p, states[Len(path) + 1], path)
           IN  Counted(p, model, path, R, R2) /\ Standing(p, model, path, states, h, R2)
<1> DEFINE s == states[Len(path) + 1]
           R2 == WithDeadlock(WithLeaf(R), p, s, path)
<1>1. PICK r : Stands(p, model, path, s, h, r) /\ Carries(R, r)
  BY StandingTop
<1> DEFINE r2 == WithDeadlock(WithLeaf(r), p, s, path)
           new == Both(NothingFound, DeadlockFound(p, s, path))
<1>2. ReplayOf(p, path, model) = {r2}
  BY <1>1, StandsReplay
<1>3. Recordable(R) /\ Uncounted(r) /\ Recordable(r)
  BY <1>1 DEF Stands, Standing, Uncounted, Recordable
<1>4. Logged(R, R2, LeafCounts, new) /\ Logged(r, r2, LeafCounts, new)
  BY <1>3, DeadlockRecords
<1>5. FoundWith(new, path)
  BY FoundSchedules
<1> HIDE DEF R2, r2, new, s
<1>6. Carries(R2, r2) /\ Firsts(R, R2, r2, path) /\ CountsOf(R, R2, r2, LeafCounts)
  BY <1>1, <1>3, <1>4, <1>5, CountsAre, LoggedInBoth
<1>7. Counted(p, model, path, R, R2)
  BY <1>2, <1>6, CountsAre, CountedSo
<1>8. Standing(p, model, path, states, h, R2)
  BY <1>4, CountsAre, StandingStays
<1> QED BY <1>7, <1>8 DEF R2, s

\* The report of a lasso has the schedule that closed it.
LEMMA LassoSchedule ==
    ASSUME NEW p, NEW model, NEW k \in Seq(ScheduleStep), NEW start \in 0 .. Len(k),
           NEW lasso \in make_nontermination_report(p, k, start, model)
    PROVE  lasso.stem \o lasso.cycle = k
<1>1. lasso.stem = SubSeq(k, 1, start) /\ lasso.cycle = SubSeq(k, start + 1, Len(k))
  BY DEF make_nontermination_report, LassoReport
<1>2. SubSeq(k, 1, start) \o SubSeq(k, start + 1, Len(k)) = SubSeq(k, 1, Len(k))
  <2>1. 1 \in 1 .. Len(k) + 1 /\ start \in 1 - 1 .. Len(k) /\ Len(k) \in start .. Len(k)
    OBVIOUS
  <2> QED BY <2>1, ConcatAdjacentSubSeq
<1>3. SubSeq(k, 1, Len(k)) = k
  BY SubSeqFull
<1> QED BY <1>1, <1>2, <1>3

\* One recording, made in the result of the search and in that of the replay of s.
LEMMA LoggedCounted ==
    ASSUME NEW p, NEW model, NEW s, NEW R, NEW r, NEW R2, NEW r2, NEW more, NEW new,
           Recordable(R), Uncounted(r), Carries(R, r), ReplayOf(p, s, model) = {r2},
           Logged(R, R2, more, new), Logged(r, r2, more, new),
           Natural(more), more["schedules_explored"] = 1, FoundWith(new, s)
    PROVE  Counted(p, model, s, R, R2)
<1>1. Carries(R2, r2) /\ Firsts(R, R2, r2, s) /\ CountsOf(R, R2, r2, more)
  BY LoggedInBoth
<1> QED BY <1>1, CountedSo

\* Another step of the path, with which the execution ends.
LEMMA StepCounted ==
    ASSUME NEW p, NEW model, NEW path, NEW states, NEW h, NEW R,
           Standing(p, model, path, states, h, R),
           NEW step \in enabled_steps(p, states[Len(path) + 1])
    PROVE  LET s == states[Len(path) + 1]
               out == execute_enabled_step(p, s, step)
               taken == Append(path, step)
               reported == WithStepReport(R, out.report, taken)
               Closes(R2) == /\ Counted(p, model, taken, R, R2)
                           /\ Standing(p, model, path, states, h, R2)
           IN  /\ step_bound_reached(s, step.thread) => Closes(record_bound_exceeded(R))
               /\ ~step_bound_reached(s, step.thread) /\ Failed(out) => Closes(WithLeaf(reported))
               /\ ~step_bound_reached(s, step.thread) /\ ~Failed(out) =>
                    \A start \in CycleStart(h, out.state) :
                    \A lasso \in make_nontermination_report(p, taken, start, model) :
                       Closes(record_nontermination(reported, lasso))
<1> DEFINE s == states[Len(path) + 1]
           out == execute_enabled_step(p, s, step)
           taken == Append(path, step)
           Closes(R2) == /\ Counted(p, model, taken, R, R2)
                       /\ Standing(p, model, path, states, h, R2)
<1>1. PICK r : Stands(p, model, path, s, h, r) /\ Carries(R, r)
  BY StandingTop
<1>2. /\ Recordable(R) /\ Uncounted(r) /\ Recordable(r) /\ path \in Seq(ScheduleStep)
      /\ p \in Programs /\ Sound(p, s)
  BY <1>1 DEF Stands, Standing, Uncounted, Recordable
<1>3. ASSUME NEW R2, NEW r2, NEW more, NEW new, ReplayOf(p, taken, model) = {r2},
             Logged(R, R2, more, new), Logged(r, r2, more, new), Natural(more),
             more["schedules_explored"] = 1, FoundWith(new, taken)
      PROVE  Closes(R2)
  <2>1. Counted(p, model, taken, R, R2)
    <3> HIDE DEF taken
    <3> QED BY <1>1, <1>2, <1>3, LoggedCounted
  <2>2. Standing(p, model, path, states, h, R2)
    BY <1>3, StandingStays
  <2> QED BY <2>1, <2>2
<1>4. step \in ScheduleStep /\ taken \in Seq(ScheduleStep) /\ Len(taken) = Len(path) + 1
      /\ Len(path) \in Nat
  <2>1. step \in ScheduleStep
    BY <1>2, EnabledTyped
  <2> QED BY <1>2, <2>1
<1> DEFINE reported == WithStepReport(R, out.report, taken)
           shown == WithStepReport(r, out.report, taken)
           reached == step_bound_reached(s, step.thread)
<1>5. /\ reached => ReplayOf(p, taken, model) = {record_bound_exceeded(r)}
      /\ ~reached /\ Failed(out) => ReplayOf(p, taken, model) = {WithLeaf(shown)}
      /\ ~reached /\ ~Failed(out) =>
           \A start \in CycleStart(h, out.state) :
           \A lasso \in make_nontermination_report(p, taken, start, model) :
              ReplayOf(p, taken, model) = {record_nontermination(shown, lasso)}
  BY <1>1, StandsStep
<1> HIDE DEF s, out, taken, Closes, reached
<1>6. CASE reached
  <2>1. /\ Logged(R, record_bound_exceeded(R), BoundCounts, NothingFound)
        /\ Logged(r, record_bound_exceeded(r), BoundCounts, NothingFound)
        /\ Natural(BoundCounts) /\ BoundCounts["schedules_explored"] = 1
        /\ FoundWith(NothingFound, taken)
    BY <1>2, BoundRecords, CountsAre, FoundSchedules
  <2>2. Closes(record_bound_exceeded(R))
    BY <1>3, <1>5, <1>6, <2>1
  <2> QED BY <1>6, <2>2 DEF s, out, taken, Closes, reached
<1>7. CASE ~reached /\ Failed(out)
  <2> DEFINE new == Both(StepFound(out.report, taken), NothingFound)
  <2>1. /\ Logged(R, WithLeaf(reported), LeafCounts, new)
        /\ Logged(r, WithLeaf(shown), LeafCounts, new)
    BY <1>2, FailureRecords
  <2>2. Natural(LeafCounts) /\ LeafCounts["schedules_explored"] = 1 /\ FoundWith(new, taken)
    BY CountsAre, FoundSchedules
  <2> HIDE DEF new, reported, shown
  <2>3. Closes(WithLeaf(reported))
    BY <1>3, <1>5, <1>7, <2>1, <2>2
  <2> QED BY <1>7, <2>3 DEF s, out, taken, Closes, reached, reported
<1>8. CASE ~reached /\ ~Failed(out)
  <2>1. ASSUME NEW start \in CycleStart(h, out.state),
               NEW lasso \in make_nontermination_report(p, taken, start, model)
        PROVE  Closes(record_nontermination(reported, lasso))
    <3> DEFINE new == Both(StepFound(out.report, taken), LassoFound(lasso))
               more == LassoCounts(lasso)
    <3>1. start \in 0 .. Len(taken)
      <4>1. \A e \in h : e.position \in 0 .. Len(path)
        BY DEF Standing
      <4>2. start \in 0 .. Len(path)
        BY <4>1 DEF CycleStart
      <4> QED BY <1>4, <4>2
    <3>2. lasso.stem \o lasso.cycle = taken
      BY <1>4, <2>1, <3>1, LassoSchedule
    <3>3. FoundWith(LassoFound(lasso), taken)
      <4>1. FoundWith(LassoFound(lasso), lasso.stem \o lasso.cycle)
        BY FoundSchedules
      <4> QED BY <3>2, <4>1
    <3>4. FoundWith(new, taken)
      <4>1. FoundWith(StepFound(out.report, taken), taken)
        BY FoundSchedules
      <4> QED BY <3>3, <4>1, FoundSchedules
    <3>5. /\ Logged(R, record_nontermination(reported, lasso), more, new)
          /\ Logged(r, record_nontermination(shown, lasso), more, new)
      BY <1>2, LassoRecords
    <3>6. Natural(more) /\ more["schedules_explored"] = 1
      BY CountsAre
    <3>7. ReplayOf(p, taken, model) = {record_nontermination(shown, lasso)}
      BY <1>5, <1>8, <2>1
    <3> HIDE DEF new, more, reported, shown
    <3> QED BY <1>3, <3>4, <3>5, <3>6, <3>7
  <2> QED BY <1>8, <2>1 DEF s, out, taken, Closes, reached, reported
<1> QED BY <1>6, <1>7, <1>8

\* Another step of the path, with which it goes on.
LEMMA StepMet ==
    ASSUME NEW p, NEW model, NEW path, NEW states, NEW h, NEW R,
           Standing(p, model, path, states, h, R),
           NEW step \in enabled_steps(p, states[Len(path) + 1]),
           ~step_bound_reached(states[Len(path) + 1], step.thread),
           ~Failed(execute_enabled_step(p, states[Len(path) + 1], step)),
           CycleStart(h, execute_enabled_step(p, states[Len(path) + 1], step).state) = {},
           NEW states2, \A n \in 1 .. Len(path) + 1 : states2[n] = states[n],
           states2[Len(path) + 2] = execute_enabled_step(p, states[Len(path) + 1], step).state
    PROVE  LET out == execute_enabled_step(p, states[Len(path) + 1], step)
               taken == Append(path, step)
               reported == WithStepReport(R, out.report, taken)
           IN  /\ Met(p, model, taken, R, reported)
               /\ Standing(p, model, taken, states2,
                           Observed(p, h, out.state, Len(path) + 1), reported)
<1> DEFINE s == states[Len(path) + 1]
           out == execute_enabled_step(p, s, step)
           taken == Append(path, step)
           reported == WithStepReport(R, out.report, taken)
           g == Observed(p, h, out.state, Len(path) + 1)
<1>1. PICK r : Stands(p, model, path, s, h, r) /\ Carries(R, r)
  BY StandingTop
<1>2. /\ Recordable(R) /\ Uncounted(r) /\ Recordable(r) /\ path \in Seq(ScheduleStep)
      /\ p \in Programs /\ Sound(p, s)
  BY <1>1 DEF Stands, Standing, Uncounted, Recordable
<1>3. /\ taken \in Seq(ScheduleStep) /\ Len(taken) = Len(path) + 1 /\ Len(path) \in Nat
      /\ \A i \in 1 .. Len(path) : taken[i] = path[i]
  <2>1. step \in ScheduleStep
    BY <1>2, EnabledTyped
  <2> QED BY <1>2, <2>1
<1> DEFINE shown == WithStepReport(r, out.report, taken)
           new == StepFound(out.report, taken)
<1>4. Stands(p, model, taken, out.state, g, shown)
  BY <1>1, StandsStep
<1>5. Logged(R, reported, NoCounts, new) /\ Logged(r, shown, NoCounts, new)
  BY <1>2, StepRecords
<1>6. FoundWith(new, taken) /\ Natural(NoCounts)
  BY FoundSchedules, CountsAre
<1>7. /\ Recordable(reported) /\ Carries(reported, shown) /\ Firsts(R, reported, shown, taken)
      /\ CountsOf(R, reported, shown, NoCounts)
  <2> HIDE DEF reported, shown, new, taken
  <2> QED BY <1>1, <1>2, <1>5, <1>6, LoggedInBoth
<1>8. Met(p, model, taken, R, reported)
  <2>1. \A counter \in CountFields : reported[counter] = R[counter]
    BY <1>2, <1>7, CountsAre DEF CountsOf, Recordable
  <2>2. \E x \in ReplayOf(p, taken, model) : Firsts(R, reported, x, taken)
    <3> DEFINE last == WithDeadlock(WithLeaf(shown), p, out.state, taken)
    <3>1. ReplayOf(p, taken, model) \in {{shown}, {last}}
      <4> HIDE DEF taken, out, shown, g, last
      <4> QED BY <1>4, StandsReplay DEF last
    <3>2. Firsts(R, reported, last, taken)
      <4>1. Recordable(shown)
        BY <1>4 DEF Stands, Uncounted, Recordable
      <4>2. Logged(shown, last, LeafCounts,
                     Both(NothingFound, DeadlockFound(p, out.state, taken)))
        BY <4>1, DeadlockRecords
      <4>3. \A kind \in ReportKinds : FoundOf(shown)[kind] # {} =>
               FoundOf(last)[kind] = FoundOf(shown)[kind]
        BY <4>2 DEF Logged, Adds, FirstNonempty
      <4> HIDE DEF reported, shown, last, taken
      <4> QED BY <1>7, <4>3 DEF Firsts
    <3> HIDE DEF last, reported, shown
    <3> QED BY <1>7, <3>1, <3>2
  <2> QED BY <2>1, <2>2 DEF Met
<1>9. Standing(p, model, taken, states2, g, reported)
  <2>1. /\ \A e \in g : e.position \in 0 .. Len(taken)
        /\ Until(g, Len(path) + 2) = g
        /\ \A n \in 0 .. Len(path) : Until(g, n + 1) = Until(h, n + 1)
    <3> DEFINE e == [key |-> behavioral_state_fingerprint(out.state), position |-> Len(path) + 1]
    <3>1. g \in {h, h \cup {e}} /\ e.position = Len(path) + 1
      BY DEF Observed
    <3>2. \A f \in h : f.position \in 0 .. Len(path)
      BY DEF Standing
    <3> HIDE DEF e, g, taken
    <3>3. \A f \in g : f.position \in 0 .. Len(path) + 1
      BY <1>3, <3>1, <3>2
    <3> QED BY <1>3, <3>1, <3>2, <3>3 DEF Until
  <2>2. ASSUME NEW n \in 0 .. Len(taken)
        PROVE  \E x : /\ Stands(p, model, SubSeq(taken, 1, n), states2[n + 1], Until(g, n + 1), x)
                      /\ Carries(reported, x)
    <3>1. CASE n = Len(taken)
      <4>1. SubSeq(taken, 1, n) = taken /\ states2[n + 1] = out.state /\ Until(g, n + 1) = g
        <5>1. SubSeq(taken, 1, Len(taken)) = taken
          BY <1>3, SubSeqFull
        <5>2. n + 1 = Len(path) + 2
          BY <1>3, <3>1
        <5> QED BY <2>1, <3>1, <5>1, <5>2
      <4> HIDE DEF taken, out, g, reported, shown
      <4> QED BY <1>4, <1>7, <4>1
    <3>2. CASE n # Len(taken)
      <4>1. n \in 0 .. Len(path) /\ n + 1 \in 1 .. Len(path) + 1
        BY <1>3, <3>2
      <4>2. SubSeq(taken, 1, n) = SubSeq(path, 1, n)
        <5>1. n <= Len(path) /\ n \in 0 .. Len(taken) /\ \A i \in 1 .. n : taken[i] = path[i]
          BY <1>3, <4>1
        <5> HIDE DEF taken
        <5> QED BY <1>2, <1>3, <5>1, SamePrefix
      <4>3. states2[n + 1] = states[n + 1] /\ Until(g, n + 1) = Until(h, n + 1)
        BY <2>1, <4>1
      <4>4. PICK x : /\ Stands(p, model, SubSeq(path, 1, n), states[n + 1], Until(h, n + 1), x)
                     /\ Carries(R, x)
        BY <4>1 DEF Standing
      <4>5. Carries(reported, x)
        BY <1>5, <4>4, StillCarries
      <4> HIDE DEF taken, g, reported
      <4> QED BY <4>2, <4>3, <4>4, <4>5
    <3> QED BY <3>1, <3>2
  <2> HIDE DEF taken, g, reported
  <2> QED BY <1>3, <1>7, <2>1, <2>2 DEF Standing
<1> QED BY <1>8, <1>9

-----------------------------------------------------------------------------
(***************************************************************************)
(* No schedule is counted twice: every one that has been leaves the path   *)
(* with a step tried there.                                                *)
(***************************************************************************)
\* s leaves the path with its k-th step.
Leaves(s, path, k) ==
    /\ Len(s) \in Nat /\ k <= Len(s)
    /\ \A i \in 1 .. k - 1 : s[i] = path[i]
    /\ k <= Len(path) => s[k] # path[k]

Distinct(ss, path, tried) ==
    /\ IsSeq(ss)
    /\ path \in Seq(ScheduleStep)
    /\ \A k \in 1 .. Len(path) : path[k] \in tried[k]
    /\ \A s \in Range(ss) : \E k \in 1 .. Len(path) + 1 : Leaves(s, path, k) /\ s[k] \in tried[k]

\* The elements of a longer sequence.
LEMMA RangeAppend ==
    ASSUME NEW ss, IsSeq(ss), NEW s
    PROVE  IsSeq(Append(ss, s)) /\ Range(Append(ss, s)) = Range(ss) \cup {s}
<1>1. IsSeq(Append(ss, s))
  BY SeqAppend
<1>2. /\ Len(ss) \in Nat /\ DOMAIN ss = 1 .. Len(ss) /\ DOMAIN Append(ss, s) = 1 .. Len(ss) + 1
      /\ \A i \in 1 .. Len(ss) : Append(ss, s)[i] = ss[i]
      /\ Append(ss, s)[Len(ss) + 1] = s
  BY <1>1, SeqAppend, SeqLength
<1> DEFINE t == Append(ss, s)
<1> HIDE DEF t
<1>3. Range(t) = Range(ss) \cup {s}
  <2>1. ASSUME NEW x \in Range(t) PROVE x \in Range(ss) \cup {s}
    BY <1>2, <2>1 DEF t, Range
  <2>2. ASSUME NEW x \in Range(ss) \cup {s} PROVE x \in Range(t)
    <3>1. CASE x = s
      <4>1. Len(ss) + 1 \in 1 .. Len(ss) + 1
        BY <1>2
      <4> QED BY <1>2, <3>1, <4>1 DEF t, Range
    <3>2. CASE x \in Range(ss)
      <4>1. PICK i \in 1 .. Len(ss) : x = ss[i]
        BY <1>2, <3>2 DEF Range
      <4>2. i \in 1 .. Len(ss) + 1
        BY <1>2
      <4> QED BY <1>2, <4>1, <4>2 DEF t, Range
    <3> QED BY <2>2, <3>1, <3>2
  <2> QED BY <2>1, <2>2
<1> QED BY <1>1, <1>3 DEF t

\* It holds of no schedules.
LEMMA DistinctStart == ASSUME NEW tried PROVE Distinct(<<>>, <<>>, tried)
<1> DEFINE none == <<>>
<1>1. none \in Seq(ScheduleStep) /\ Len(none) = 0 /\ DOMAIN none = {}
  OBVIOUS
<1> HIDE DEF none
<1>2. Distinct(none, none, tried)
  BY <1>1 DEF Distinct, IsSeq, Range
<1> QED BY <1>2 DEF none

\* Neither the path itself nor the path with a step not tried yet has been counted.
LEMMA DistinctHere ==
    ASSUME NEW ss, NEW path, NEW tried, Distinct(ss, path, tried)
    PROVE  /\ path \notin Range(ss)
           /\ \A step : step \notin tried[Len(path) + 1] => Append(path, step) \notin Range(ss)
<1>1. path \in Seq(ScheduleStep) /\ Len(path) \in Nat
  BY DEF Distinct
<1>2. ASSUME path \in Range(ss) PROVE FALSE
  <2>1. PICK k \in 1 .. Len(path) + 1 : Leaves(path, path, k)
    BY <1>2 DEF Distinct
  <2> QED BY <1>1, <2>1 DEF Leaves
<1>3. ASSUME NEW step, step \notin tried[Len(path) + 1], Append(path, step) \in Range(ss)
      PROVE  FALSE
  <2> DEFINE s == Append(path, step)
  <2>1. /\ Len(s) = Len(path) + 1 /\ s[Len(path) + 1] = step
        /\ \A i \in 1 .. Len(path) : s[i] = path[i]
    BY <1>1, SeqAppend DEF IsSeq
  <2>2. PICK k \in 1 .. Len(path) + 1 : Leaves(s, path, k) /\ s[k] \in tried[k]
    BY <1>3 DEF Distinct
  <2> HIDE DEF s
  <2>3. CASE k = Len(path) + 1
    BY <1>3, <2>1, <2>2, <2>3
  <2>4. CASE k # Len(path) + 1
    <3>1. k \in 1 .. Len(path) /\ k <= Len(path)
      BY <1>1, <2>4
    <3> QED BY <2>1, <2>2, <3>1 DEF Leaves
  <2> QED BY <2>3, <2>4
<1> QED BY <1>2, <1>3

\* More steps are tried, and the path with one of them is counted.
LEMMA DistinctStays ==
    ASSUME NEW ss, NEW path, NEW tried, Distinct(ss, path, tried),
           NEW tried2, \A k \in 1 .. Len(path) + 1 : tried[k] \subseteq tried2[k]
    PROVE  /\ Distinct(ss, path, tried2)
           /\ \A step \in tried2[Len(path) + 1] :
                 Distinct(Append(ss, Append(path, step)), path, tried2)
<1>1. IsSeq(ss) /\ path \in Seq(ScheduleStep) /\ Len(path) \in Nat
  BY DEF Distinct
<1>2. \A k \in 1 .. Len(path) : path[k] \in tried2[k]
  BY <1>1 DEF Distinct
<1>3. \A s \in Range(ss) : \E k \in 1 .. Len(path) + 1 :
        Leaves(s, path, k) /\ s[k] \in tried2[k]
  BY DEF Distinct
<1>4. ASSUME NEW step \in tried2[Len(path) + 1]
      PROVE  Distinct(Append(ss, Append(path, step)), path, tried2)
  <2> DEFINE s == Append(path, step)
  <2>1. /\ Len(s) = Len(path) + 1 /\ s[Len(path) + 1] = step
        /\ \A i \in 1 .. Len(path) : s[i] = path[i]
    BY <1>1, SeqAppend DEF IsSeq
  <2> HIDE DEF s
  <2>2. IsSeq(Append(ss, s)) /\ Range(Append(ss, s)) = Range(ss) \cup {s}
    BY <1>1, RangeAppend
  <2>3. Leaves(s, path, Len(path) + 1) /\ Len(path) + 1 \in 1 .. Len(path) + 1
    BY <1>1, <2>1 DEF Leaves
  <2>4. Distinct(Append(ss, s), path, tried2)
    BY <1>1, <1>2, <1>3, <1>4, <2>1, <2>2, <2>3 DEF Distinct
  <2> QED BY <2>4 DEF s
<1> QED BY <1>1, <1>2, <1>3, <1>4 DEF Distinct

\* The path goes on with a step that had not been tried.
LEMMA DistinctPush ==
    ASSUME NEW ss, NEW path, NEW tried, Distinct(ss, path, tried),
           NEW step \in ScheduleStep, step \notin tried[Len(path) + 1],
           NEW tried2, \A k \in 1 .. Len(path) + 1 : tried[k] \subseteq tried2[k],
           step \in tried2[Len(path) + 1]
    PROVE  Distinct(ss, Append(path, step), tried2)
<1> DEFINE q == Append(path, step)
<1>1. IsSeq(ss) /\ path \in Seq(ScheduleStep) /\ Len(path) \in Nat
  BY DEF Distinct
<1>2. /\ q \in Seq(ScheduleStep) /\ Len(q) = Len(path) + 1 /\ q[Len(path) + 1] = step
      /\ \A i \in 1 .. Len(path) : q[i] = path[i]
  BY <1>1
<1> HIDE DEF q
<1>3. ASSUME NEW k \in 1 .. Len(q) PROVE q[k] \in tried2[k]
  <2>1. CASE k = Len(path) + 1
    BY <1>2, <2>1
  <2>2. CASE k # Len(path) + 1
    <3>1. k \in 1 .. Len(path) /\ k \in 1 .. Len(path) + 1
      BY <1>1, <1>2, <2>2
    <3>2. path[k] \in tried[k] /\ q[k] = path[k]
      BY <1>2, <3>1 DEF Distinct
    <3> QED BY <3>1, <3>2
  <2> QED BY <2>1, <2>2
<1>4. ASSUME NEW s \in Range(ss)
      PROVE  \E k \in 1 .. Len(q) + 1 : Leaves(s, q, k) /\ s[k] \in tried2[k]
  <2>1. PICK k \in 1 .. Len(path) + 1 : Leaves(s, path, k) /\ s[k] \in tried[k]
    BY DEF Distinct
  <2>2. s[k] \in tried2[k] /\ k \in 1 .. Len(q) + 1 /\ Len(s) \in Nat /\ k <= Len(s)
    BY <1>1, <1>2, <2>1 DEF Leaves
  <2>3. \A i \in 1 .. k - 1 : s[i] = q[i]
    BY <1>1, <1>2, <2>1 DEF Leaves
  <2>4. s[k] # q[k]
    <3>1. CASE k = Len(path) + 1
      BY <1>2, <2>1, <3>1
    <3>2. CASE k # Len(path) + 1
      <4>1. k \in 1 .. Len(path) /\ k <= Len(path)
        BY <1>1, <3>2
      <4> QED BY <1>2, <2>1, <4>1 DEF Leaves
    <3> QED BY <3>1, <3>2
  <2>5. Leaves(s, q, k)
    BY <2>2, <2>3, <2>4 DEF Leaves
  <2> QED BY <2>2, <2>5
<1>5. Distinct(ss, q, tried2)
  BY <1>1, <1>2, <1>3, <1>4 DEF Distinct
<1> QED BY <1>5 DEF q

\* The last step of the path is taken back; the path may just have been counted.
LEMMA DistinctPop ==
    ASSUME NEW ss, NEW path, NEW tried, Distinct(ss, path, tried), path # <<>>,
           NEW tried2, \A k \in 1 .. Len(path) : tried[k] \subseteq tried2[k]
    PROVE  /\ Distinct(ss, Front(path), tried2)
           /\ Distinct(Append(ss, path), Front(path), tried2)
<1> DEFINE q == Front(path)
<1>1. IsSeq(ss) /\ path \in Seq(ScheduleStep) /\ IsSeq(path)
  BY DEF Distinct, IsSeq
<1>2. /\ Len(path) \in Nat \ {0} /\ IsSeq(q) /\ Len(q) = Len(path) - 1
      /\ \A i \in 1 .. Len(q) : q[i] = path[i]
  BY <1>1, SeqFront
<1> HIDE DEF q
<1>3. q \in Seq(ScheduleStep)
  <2>1. \A i \in 1 .. Len(q) : q[i] \in ScheduleStep
    BY <1>1, <1>2
  <2> QED BY <1>2, <2>1 DEF IsSeq
<1>4. \A k \in 1 .. Len(path) : path[k] \in tried2[k]
  BY DEF Distinct
<1>5. \A k \in 1 .. Len(q) : q[k] \in tried2[k]
  BY <1>2, <1>4
<1>6. Len(q) + 1 = Len(path) /\ Len(path) \in 1 .. Len(q) + 1
  BY <1>2
<1>7. ASSUME NEW s, Len(s) \in Nat, Len(path) <= Len(s), \A i \in 1 .. Len(path) : s[i] = path[i]
      PROVE  \E k \in 1 .. Len(q) + 1 : Leaves(s, q, k) /\ s[k] \in tried2[k]
  <2>1. Leaves(s, q, Len(path))
    BY <1>2, <1>6, <1>7 DEF Leaves
  <2>2. s[Len(path)] \in tried2[Len(path)]
    BY <1>2, <1>4, <1>7
  <2> QED BY <1>6, <2>1, <2>2
<1>8. ASSUME NEW s \in Range(ss)
      PROVE  \E k \in 1 .. Len(q) + 1 : Leaves(s, q, k) /\ s[k] \in tried2[k]
  <2>1. PICK k \in 1 .. Len(path) + 1 : Leaves(s, path, k) /\ s[k] \in tried[k]
    BY DEF Distinct
  <2>2. CASE k = Len(path) + 1
    <3>1. /\ Len(s) \in Nat /\ Len(path) + 1 <= Len(s)
          /\ \A i \in 1 .. Len(path) : s[i] = path[i]
      BY <1>2, <2>1, <2>2 DEF Leaves
    <3>2. Len(path) <= Len(s)
      BY <1>2, <3>1
    <3> QED BY <1>7, <3>1, <3>2
  <2>3. CASE k # Len(path) + 1
    <3>1. k \in 1 .. Len(path) /\ k \in 1 .. Len(q) + 1
      BY <1>2, <2>3
    <3>2. Leaves(s, q, k)
      BY <1>2, <2>1, <3>1 DEF Leaves
    <3> QED BY <2>1, <3>1, <3>2
  <2> QED BY <2>2, <2>3
<1>9. Distinct(ss, q, tried2)
  BY <1>1, <1>3, <1>5, <1>8 DEF Distinct
<1>10. Distinct(Append(ss, path), q, tried2)
  <2>1. IsSeq(Append(ss, path)) /\ Range(Append(ss, path)) = Range(ss) \cup {path}
    BY <1>1, RangeAppend
  <2>2. \E k \in 1 .. Len(q) + 1 : Leaves(path, q, k) /\ path[k] \in tried2[k]
    BY <1>2, <1>7
  <2> QED BY <1>3, <1>5, <1>8, <2>1, <2>2 DEF Distinct
<1> QED BY <1>9, <1>10 DEF q

-----------------------------------------------------------------------------
(***************************************************************************)
(* The reports of a replay.  Each carries the schedule with which it was   *)
(* made, a prefix of the one replayed, whose replay makes the same report. *)
(***************************************************************************)
\* The reports of the kind were made with the schedule k, whose replay makes them too.
MadeWith(p, model, kind, reports, k) ==
    /\ k \in Seq(ScheduleStep)
    /\ \A found \in reports : found.schedule = k
    /\ \E r \in ReplayOf(p, k, model) : FoundOf(r)[kind] = reports

\* Every bug of the result was made with a schedule, of at most n steps.
Reported(p, model, r) ==
    \A kind \in BugKinds : FoundOf(r)[kind] # {} =>
        \E k : MadeWith(p, model, kind, FoundOf(r)[kind], k)

ReportedWithin(p, model, r, n) ==
    \A kind \in BugKinds : FoundOf(r)[kind] # {} =>
        \E k : MadeWith(p, model, kind, FoundOf(r)[kind], k) /\ Len(k) <= n

\* The bugs of new have the schedule k.
BugsWith(new, k) == \A kind \in BugKinds : \A found \in new[kind] : found.schedule = k

\* The bugs of the result r are also those of x.
ShownBy(r, x) == \A kind \in BugKinds : FoundOf(r)[kind] # {} => FoundOf(x)[kind] = FoundOf(r)[kind]

\* The kinds that can be minimized are kinds of reports.
LEMMA BugKindsAre ==
    /\ BugKinds \subseteq ReportKinds
    /\ \A r : \A kind \in BugKinds : FirstOfKind(r)[kind] = FoundOf(r)[kind]
<1>1. BugKinds \subseteq ReportKinds
  BY KindsAre DEF BugKinds
<1>2. ASSUME NEW r, NEW kind \in BugKinds PROVE FirstOfKind(r)[kind] = FoundOf(r)[kind]
  BY KindsAre DEF BugKinds, FirstOfKind
<1> QED BY <1>1, <1>2

\* What is logged at the end of a schedule carries this schedule.
LEMMA BugSchedules ==
    ASSUME NEW k
    PROVE  /\ BugsWith(NothingFound, k)
           /\ \A report : BugsWith(StepFound(report, k), k)
           /\ \A report : BugsWith(Both(StepFound(report, k), NothingFound), k)
           /\ \A report, lasso : BugsWith(Both(StepFound(report, k), LassoFound(lasso)), k)
           /\ \A p, s : BugsWith(Both(NothingFound, DeadlockFound(p, s, k)), k)
<1>1. \A new : FoundWith(new, k) => BugsWith(new, k)
  BY BugKindsAre DEF FoundWith, BugsWith
<1>2. ASSUME NEW report, NEW lasso PROVE BugsWith(Both(StepFound(report, k), LassoFound(lasso)), k)
  <2>1. ASSUME NEW kind \in BugKinds PROVE LassoFound(lasso)[kind] = {}
    BY KindsAre DEF LassoFound, NothingFound, BugKinds
  <2>2. BugsWith(StepFound(report, k), k)
    BY <1>1, FoundSchedules
  <2>3. ASSUME NEW kind \in BugKinds, NEW found \in Both(StepFound(report, k), LassoFound(lasso))[kind]
        PROVE  found.schedule = k
    <3>1. found \in StepFound(report, k)[kind]
      BY <2>1, <2>3, BugKindsAre DEF Both, FirstNonempty
    <3> QED BY <2>2, <3>1 DEF BugsWith
  <2> QED BY <2>3 DEF BugsWith
<1> QED BY <1>1, <1>2, FoundSchedules

\* More is recorded at the schedule k.
LEMMA ReportedMore ==
    ASSUME NEW p, NEW model, NEW r, NEW n \in Nat, ReportedWithin(p, model, r, n),
           NEW k \in Seq(ScheduleStep), n <= Len(k),
           NEW r2, NEW more, NEW new, Logged(r, r2, more, new), BugsWith(new, k),
           NEW x \in ReplayOf(p, k, model), ShownBy(r2, x)
    PROVE  ReportedWithin(p, model, r2, Len(k))
<1> SUFFICES ASSUME NEW kind \in BugKinds, FoundOf(r2)[kind] # {}
             PROVE  \E j : MadeWith(p, model, kind, FoundOf(r2)[kind], j) /\ Len(j) <= Len(k)
  BY DEF ReportedWithin
<1>1. FoundOf(r2)[kind] = FirstNonempty(FoundOf(r)[kind], new[kind])
  BY BugKindsAre DEF Logged, Adds
<1>2. Len(k) \in Nat
  OBVIOUS
<1>3. CASE FoundOf(r)[kind] # {}
  <2>1. PICK j : MadeWith(p, model, kind, FoundOf(r)[kind], j) /\ Len(j) <= n
    BY <1>3 DEF ReportedWithin
  <2>2. Len(j) \in Nat
    BY <2>1 DEF MadeWith
  <2> QED BY <1>1, <1>2, <1>3, <2>1, <2>2 DEF FirstNonempty
<1>4. CASE FoundOf(r)[kind] = {}
  <2>1. FoundOf(r2)[kind] = new[kind]
    BY <1>1, <1>4 DEF FirstNonempty
  <2>2. \A found \in FoundOf(r2)[kind] : found.schedule = k
    BY <2>1 DEF BugsWith
  <2>3. FoundOf(x)[kind] = FoundOf(r2)[kind]
    BY DEF ShownBy
  <2> QED BY <1>2, <2>2, <2>3 DEF MadeWith
<1> QED BY <1>3, <1>4

\* Where the loop stands after the steps k, whichever they are.
ReplaysTo(p, model, k, L) ==
    /\ "phase" \in DOMAIN L
    /\ \/ L.phase = "rejected"
       \/ L.phase = "ended" /\ ReportedWithin(p, model, L.result, Len(k))
       \/ \E s, h, r : /\ Stands(p, model, k, s, h, r) /\ IsAt(L, "running", s, h, k, r)
                       /\ ReportedWithin(p, model, r, Len(k))

\* An iteration that does not end the execution shows what it reports, also if the
\* execution then ends in a deadlock.
LEMMA StandsShows ==
    ASSUME NEW p, NEW model, NEW k, NEW s, NEW h, NEW r, Stands(p, model, k, s, h, r)
    PROVE  \E x \in ReplayOf(p, k, model) : ShownBy(r, x)
<1> DEFINE e == WithDeadlock(WithLeaf(r), p, s, k)
           new == Both(NothingFound, DeadlockFound(p, s, k))
<1>1. ReplayOf(p, k, model) \in {{r}, {e}}
  BY StandsReplay
<1>2. Recordable(r)
  BY DEF Stands, Uncounted, Recordable
<1>3. Logged(r, e, LeafCounts, new)
  BY <1>2, DeadlockRecords
<1> HIDE DEF e, new
<1>4. ShownBy(r, e)
  BY <1>3, BugKindsAre DEF ShownBy, Logged, Adds, FirstNonempty
<1>5. ShownBy(r, r)
  BY DEF ShownBy
<1> QED BY <1>1, <1>4, <1>5

\* What a replay whose loop has ended makes of its schedule.
LEMMA EndedReplay ==
    ASSUME NEW p, NEW model, NEW k \in Seq(ScheduleStep), NEW after, NEW r,
           IsReplay(after, p, k, StepBound, model), EndedWith(after[Len(k)], r)
    PROVE  ReplayOf(p, k, model) = {r}
<1> DEFINE L == after[Len(k)]
<1>1. ReplayLoop(p, k, StepBound, model) = L
  BY ReplayLoopIs
<1>2. EndedWith(L, r)
  OBVIOUS
<1> HIDE DEF L
<1>3. ReplayOf(p, k, model) = ReplayResult(p, k, L)
  BY <1>1 DEF replay_schedule, ReplayOf
<1> QED BY <1>2, <1>3 DEF ReplayResult, EndedWith

\* One more step of the schedule: it is refused, ends the execution, or goes on.
LEMMA ReplaysOn ==
    ASSUME NEW p \in Programs, NEW model \in MemoryModel, NEW k \in Seq(ScheduleStep),
           NEW step \in ScheduleStep, NEW after, IsReplay(after, p, k, StepBound, model),
           ReplaysTo(p, model, k, after[Len(k)])
    PROVE  \E longer : /\ IsReplay(longer, p, Append(k, step), StepBound, model)
                       /\ ReplaysTo(p, model, Append(k, step), longer[Len(Append(k, step))])
<1> DEFINE taken == Append(k, step)
           L == after[Len(k)]
           next == ReplayStep(p, StepBound, L, step)
<1>1. PICK longer : IsReplay(longer, p, taken, StepBound, model) /\ longer[Len(k) + 1] = next
  BY ReplayExtends
<1>2. taken \in Seq(ScheduleStep) /\ Len(taken) = Len(k) + 1 /\ Len(k) \in Nat /\ Len(k) <= Len(taken)
  OBVIOUS
<1>3. longer[Len(taken)] = next
  BY <1>1, <1>2
<1>4. ReplaysTo(p, model, k, L)
  OBVIOUS
<1> HIDE DEF L
<1>5. CASE ~(L.phase = "running" /\ validate_replay_step(p, L.state, step))
  <2>1. next = [L EXCEPT !.phase = "rejected"] /\ "phase" \in DOMAIN L
    BY <1>4, <1>5 DEF ReplayStep, ReplaysTo
  <2>2. next.phase = "rejected" /\ "phase" \in DOMAIN next
    BY <2>1
  <2> QED BY <1>1, <1>3, <2>2 DEF ReplaysTo
<1>6. CASE L.phase = "running" /\ validate_replay_step(p, L.state, step)
  <2>1. PICK s, h, r : /\ Stands(p, model, k, s, h, r) /\ IsAt(L, "running", s, h, k, r)
                       /\ ReportedWithin(p, model, r, Len(k))
    BY <1>4, <1>6 DEF ReplaysTo
  <2> DEFINE out == execute_enabled_step(p, s, step)
             reported == WithStepReport(r, out.report, taken)
             starts == CycleStart(h, out.state)
             reached == s.thread_steps[step.thread] >= StepBound
  <2>2. validate_replay_step(p, s, step) /\ step \in enabled_steps(p, s)
    BY <1>6, <2>1 DEF IsAt, validate_replay_step
  <2>3. Takes(next, p, StepBound, s, h, k, r, step)
    BY <2>1, <2>2, ReplayTakes
  <2>4. Recordable(r)
    BY <2>1 DEF Stands, Uncounted, Recordable
  <2>5. ASSUME NEW r2, NEW more, NEW new, Logged(r, r2, more, new), BugsWith(new, taken),
               EndedWith(next, r2)
        PROVE  ReplaysTo(p, model, taken, next)
    <3>1. EndedWith(longer[Len(taken)], r2)
      BY <1>3, <2>5
    <3>2. r2 \in ReplayOf(p, taken, model)
      <4> HIDE DEF taken, next
      <4>1. ReplayOf(p, taken, model) = {r2}
        BY <1>1, <1>2, <3>1, EndedReplay
      <4> QED BY <4>1
    <3>3. ShownBy(r2, r2)
      BY DEF ShownBy
    <3>4. ReportedWithin(p, model, r2, Len(taken))
      BY <1>2, <2>1, <2>5, <3>2, <3>3, ReportedMore
    <3> QED BY <2>5, <3>4 DEF EndedWith, ReplaysTo
  <2>6. CASE reached
    <3>1. EndedWith(next, record_bound_exceeded(r))
      BY <2>3, <2>6 DEF Takes
    <3> QED BY <1>1, <1>3, <2>4, <2>5, <3>1, BoundRecords, BugSchedules
  <2>7. CASE ~reached /\ Failed(out)
    <3>1. EndedWith(next, WithLeaf(reported))
      BY <2>3, <2>7 DEF Takes
    <3>2. Logged(r, WithLeaf(reported), LeafCounts, Both(StepFound(out.report, taken), NothingFound))
      BY <2>4, FailureRecords
    <3>3. BugsWith(Both(StepFound(out.report, taken), NothingFound), taken)
      BY BugSchedules
    <3> QED BY <1>1, <1>3, <2>5, <3>1, <3>2, <3>3
  <2>8. CASE ~reached /\ ~Failed(out) /\ starts # {}
    <3> DEFINE lasso == CHOOSE report \in make_nontermination_report(p, taken, Min(starts),
                                              out.state.memory_model) : TRUE
               r2 == record_nontermination(reported, lasso)
               new == Both(StepFound(out.report, taken), LassoFound(lasso))
    <3>1. EndedWith(next, r2)
      BY <2>3, <2>8 DEF Takes
    <3> HIDE DEF lasso
    <3>2. Logged(r, r2, LassoCounts(lasso), new)
      BY <2>4, LassoRecords
    <3>3. BugsWith(new, taken)
      BY BugSchedules
    <3> HIDE DEF r2, new
    <3> QED BY <1>1, <1>3, <2>5, <3>1, <3>2, <3>3
  <2>9. CASE ~reached /\ ~Failed(out) /\ starts = {}
    <3> DEFINE g == Observed(p, h, out.state, Len(k) + 1)
    <3>1. IsAt(next, "running", out.state, g, taken, reported)
      BY <2>3, <2>9 DEF Takes
    <3>2. Stands(p, model, taken, out.state, g, reported)
      BY <2>1, <2>2, <2>9, StandsStep DEF step_bound_reached
    <3>3. PICK x \in ReplayOf(p, taken, model) : ShownBy(reported, x)
      BY <3>2, StandsShows
    <3>4. Logged(r, reported, NoCounts, StepFound(out.report, taken))
      BY <2>4, StepRecords
    <3>5. BugsWith(StepFound(out.report, taken), taken)
      BY BugSchedules
    <3> HIDE DEF reported, g, taken, next
    <3>6. ReportedWithin(p, model, reported, Len(taken))
      BY <1>2, <2>1, <3>3, <3>4, <3>5, ReportedMore
    <3>7. "phase" \in DOMAIN next
      BY <3>1 DEF IsAt
    <3>8. ReplaysTo(p, model, taken, next)
      BY <3>1, <3>2, <3>6, <3>7 DEF ReplaysTo
    <3> QED BY <1>1, <1>3, <3>8 DEF taken
  <2> QED BY <2>6, <2>7, <2>8, <2>9
<1> QED BY <1>5, <1>6

\* So of every schedule: by induction over its prefixes, of which the shortest for which
\* it failed would be one step longer than one for which it holds.
LEMMA EveryReplay ==
    ASSUME NEW p \in Programs, NEW model \in MemoryModel, NEW k \in Seq(ScheduleStep)
    PROVE  \E after : /\ IsReplay(after, p, k, StepBound, model)
                      /\ ReplaysTo(p, model, k, after[Len(k)])
<1> DEFINE Holds(n) == \E after : /\ IsReplay(after, p, SubSeq(k, 1, n), StepBound, model)
                                  /\ ReplaysTo(p, model, SubSeq(k, 1, n), after[Len(SubSeq(k, 1, n))])
           fails == {n \in 0 .. Len(k) : ~Holds(n)}
<1>1. Len(k) \in Nat /\ fails \in SUBSET Nat /\ SubSeq(k, 1, Len(k)) = k
  <2>1. Len(k) \in Nat
    OBVIOUS
  <2> HIDE DEF Holds
  <2> QED BY <2>1, SubSeqFull
<1>2. Holds(0)
  <2> DEFINE s == initial_state(p, model)
             h == initial_state_history(p, s)
             start == ReplayStart(p, model)
             after == [n \in 0 .. 0 |-> start]
             none == SubSeq(k, 1, 0)
  <2>1. none = <<>>
    BY <1>1
  <2>2. Len(none) = 0
    BY <2>1
  <2>3. Stands(p, model, none, s, h, NoResult)
    BY <2>1, StandsStart
  <2>4. IsAt(start, "running", s, h, none, NoResult) /\ "phase" \in DOMAIN start
    BY <2>1 DEF ReplayStart, IsAt
  <2> HIDE DEF start, none
  <2>5. IsReplay(after, p, none, StepBound, model) /\ after[0] = start
    BY <2>2 DEF IsReplay, start
  <2>6. ReportedWithin(p, model, NoResult, Len(none))
    <3>1. \A kind \in BugKinds : FoundOf(NoResult)[kind] = {}
      BY KindsAre DEF BugKinds, NoResult
    <3> QED BY <3>1 DEF ReportedWithin
  <2> HIDE DEF after, s, h
  <2>7. ReplaysTo(p, model, none, after[Len(none)])
    BY <2>2, <2>3, <2>4, <2>5, <2>6 DEF ReplaysTo
  <2> QED BY <2>5, <2>7 DEF none
<1>3. ASSUME NEW n \in 1 .. Len(k), Holds(n - 1) PROVE Holds(n)
  <2> DEFINE q == SubSeq(k, 1, n - 1)
  <2>1. n \in Nat /\ n - 1 \in Nat /\ n - 1 <= Len(k) /\ k[n] \in ScheduleStep
    BY <1>1
  <2>2. q \in Seq(ScheduleStep) /\ Append(q, k[n]) = SubSeq(k, 1, n)
    <3>1. q \in Seq(ScheduleStep) /\ Len(q) = n - 1 /\ \A i \in 1 .. n - 1 : q[i] = k[i]
      BY <1>1, <2>1
    <3>2. SubSeq(k, 1, n) \in Seq(ScheduleStep) /\ Len(SubSeq(k, 1, n)) = n
          /\ \A i \in 1 .. n : SubSeq(k, 1, n)[i] = k[i]
      BY <1>1, <2>1
    <3> HIDE DEF q
    <3>3. Append(q, k[n]) \in Seq(ScheduleStep) /\ Len(Append(q, k[n])) = n
          /\ \A i \in 1 .. n : Append(q, k[n])[i] = k[i]
      BY <2>1, <3>1
    <3>4. \A i \in 1 .. n : Append(q, k[n])[i] = SubSeq(k, 1, n)[i]
      BY <3>2, <3>3
    <3> QED BY <3>1, <3>2, <3>3, <3>4, SeqEqual
  <2>3. PICK after : /\ IsReplay(after, p, q, StepBound, model)
                     /\ ReplaysTo(p, model, q, after[Len(q)])
    BY <1>3
  <2> HIDE DEF q
  <2>4. \E longer : /\ IsReplay(longer, p, Append(q, k[n]), StepBound, model)
                    /\ ReplaysTo(p, model, Append(q, k[n]), longer[Len(Append(q, k[n]))])
    BY <2>1, <2>2, <2>3, ReplaysOn
  <2> QED BY <2>2, <2>4
<1> HIDE DEF Holds
<1>4. fails = {}
  <2> SUFFICES ASSUME fails # {} PROVE FALSE
    OBVIOUS
  <2> DEFINE n == Min(fails)
  <2>1. n \in fails /\ \A m \in fails : n <= m
    BY <1>1, LeastNatural
  <2> HIDE DEF n
  <2>2. n # 0
    BY <1>2, <2>1
  <2>3. n \in 1 .. Len(k) /\ n - 1 \in 0 .. Len(k) /\ n - 1 \notin fails
    BY <1>1, <2>1, <2>2
  <2> QED BY <1>3, <2>1, <2>3
<1>5. Holds(Len(k))
  BY <1>1, <1>4
<1> QED BY <1>1, <1>5 DEF Holds

\* The replay of any schedule makes each of its reports with a schedule that is no longer,
\* and whose replay makes it too.
LEMMA ReplayReports ==
    ASSUME NEW p \in Programs, NEW model \in MemoryModel, NEW k \in Seq(ScheduleStep),
           NEW x \in ReplayOf(p, k, model)
    PROVE  ReportedWithin(p, model, x, Len(k))
<1>1. PICK after : /\ IsReplay(after, p, k, StepBound, model)
                   /\ ReplaysTo(p, model, k, after[Len(k)])
  BY EveryReplay
<1> DEFINE L == after[Len(k)]
<1>2. ReplayLoop(p, k, StepBound, model) = L
  BY <1>1, ReplayLoopIs
<1>3. ReplayOf(p, k, model) = ReplayResult(p, k, L)
  BY <1>2 DEF replay_schedule, ReplayOf
<1>4. ReplaysTo(p, model, k, L)
  BY <1>1
<1> HIDE DEF L
<1>5. L.phase # "rejected"
  BY <1>3 DEF ReplayResult
<1>6. CASE L.phase = "ended" /\ ReportedWithin(p, model, L.result, Len(k))
  BY <1>3, <1>6 DEF ReplayResult
<1>7. ASSUME NEW s, NEW h, NEW r, Stands(p, model, k, s, h, r), ReportedWithin(p, model, r, Len(k))
      PROVE  ReportedWithin(p, model, x, Len(k))
  <2> DEFINE e == WithDeadlock(WithLeaf(r), p, s, k)
             new == Both(NothingFound, DeadlockFound(p, s, k))
  <2>1. x \in {r, e}
    BY <1>7, StandsReplay
  <2>2. CASE x = r
    BY <1>7, <2>2
  <2>3. CASE x = e
    <3>1. Logged(r, e, LeafCounts, new)
      BY <1>7, DeadlockRecords DEF Stands, Uncounted, Recordable
    <3>2. BugsWith(new, k)
      BY BugSchedules
    <3>3. Len(k) \in Nat /\ Len(k) <= Len(k)
      OBVIOUS
    <3>4. ShownBy(x, x)
      BY DEF ShownBy
    <3> HIDE DEF e, new
    <3> QED BY <1>7, <2>3, <3>1, <3>2, <3>3, <3>4, ReportedMore
  <2> QED BY <2>1, <2>2, <2>3
<1> QED BY <1>4, <1>5, <1>6, <1>7 DEF ReplaysTo

\* What a search adds to its result was made with the schedule it stands at.
LEMMA FirstsReported ==
    ASSUME NEW p, NEW model, NEW R, NEW R2, NEW s \in Seq(ScheduleStep),
           NEW r \in ReplayOf(p, s, model), Firsts(R, R2, r, s), Reported(p, model, R)
    PROVE  Reported(p, model, R2)
<1> SUFFICES ASSUME NEW kind \in BugKinds, FoundOf(R2)[kind] # {}
             PROVE  \E k : MadeWith(p, model, kind, FoundOf(R2)[kind], k)
  BY DEF Reported
<1>1. CASE FoundOf(R2)[kind] = FoundOf(R)[kind]
  BY <1>1 DEF Reported
<1>2. CASE /\ FoundOf(R2)[kind] = FoundOf(r)[kind]
           /\ \A found \in FoundOf(R2)[kind] : found.schedule = s
  <2>1. MadeWith(p, model, kind, FoundOf(R2)[kind], s)
    BY <1>2 DEF MadeWith
  <2> QED BY <2>1
<1> QED BY <1>1, <1>2, BugKindsAre DEF Firsts

-----------------------------------------------------------------------------
(***************************************************************************)
(* The minimizer.                                                          *)
(***************************************************************************)
\* The replay of the schedule s shows the bugs.
ShowsIn(p, model, s, bugs) ==
    \E r \in replay_schedule(p, s, StepBound, model) : reproduces_identities(r, bugs)

\* The last step of t cannot be dropped.
Needed(p, model, s, bugs, t) ==
    \A shorter \in Shortened(s, t, bugs) : ~ShowsIn(p, model, shorter, bugs)

\* At most one schedule is tried for a thread, and it is a schedule.
LEMMA OneShorter ==
    ASSUME NEW s \in Seq(ScheduleStep), NEW t, NEW bugs
    PROVE  /\ \A x, y \in Shortened(s, t, bugs) : x = y
           /\ Shortened(s, t, bugs) \subseteq Seq(ScheduleStep)
<1>1. Len(s) \in Nat /\ DOMAIN s = 1 .. Len(s)
  OBVIOUS
<1>2. \A i, j \in last_step_index_for_thread(s, t) : i = j
  BY <1>1 DEF last_step_index_for_thread
<1>3. ASSUME NEW i \in last_step_index_for_thread(s, t)
      PROVE  RemoveAt(s, i) \in Seq(ScheduleStep)
  <2>1. i \in 1 .. Len(s)
    BY <1>1, <1>3 DEF last_step_index_for_thread
  <2>2. SubSeq(s, 1, i - 1) \in Seq(ScheduleStep) /\ SubSeq(s, i + 1, Len(s)) \in Seq(ScheduleStep)
    <3>1. \A j \in 1 .. i - 1 : s[j] \in ScheduleStep
      BY <1>1, <2>1
    <3>2. \A j \in i + 1 .. Len(s) : s[j] \in ScheduleStep
      BY <1>1, <2>1
    <3> QED BY <1>1, <2>1, <3>1, <3>2
  <2> QED BY <2>2 DEF RemoveAt
<1> QED BY <1>2, <1>3 DEF Shortened

\* It is no longer.
LEMMA ShorterThan ==
    ASSUME NEW s \in Seq(ScheduleStep), NEW t, NEW bugs, NEW shorter \in Shortened(s, t, bugs)
    PROVE  Len(shorter) <= Len(s)
<1>1. Len(s) \in Nat /\ DOMAIN s = 1 .. Len(s)
  OBVIOUS
<1>2. PICK i \in last_step_index_for_thread(s, t) : shorter = RemoveAt(s, i)
  BY DEF Shortened
<1>3. i \in 1 .. Len(s)
  BY <1>1, <1>2 DEF last_step_index_for_thread
<1> DEFINE a == SubSeq(s, 1, i - 1)
           b == SubSeq(s, i + 1, Len(s))
<1>4. a \in Seq(ScheduleStep) /\ Len(a) = i - 1
  <2>1. \A j \in 1 .. i - 1 : s[j] \in ScheduleStep
    BY <1>1, <1>3
  <2>2. i - 1 \in Int /\ 1 \in Int /\ (IF 1 <= i - 1 THEN i - 1 - 1 + 1 ELSE 0) = i - 1
    BY <1>1, <1>3
  <2> QED BY <2>1, <2>2, SubSeqProperties
<1>5. b \in Seq(ScheduleStep) /\ Len(b) = Len(s) - i
  <2>1. \A j \in i + 1 .. Len(s) : s[j] \in ScheduleStep
    BY <1>1, <1>3
  <2>2. i + 1 \in Int /\ Len(s) \in Int /\ i \in Int /\ i <= Len(s)
    BY <1>1, <1>3
  <2>3. b \in Seq(ScheduleStep) /\ Len(b) = IF i + 1 <= Len(s) THEN Len(s) - (i + 1) + 1 ELSE 0
    BY <2>1, <2>2, SubSeqProperties
  <2> HIDE DEF b
  <2>4. \A m, n \in Int : n <= m => (IF n + 1 <= m THEN m - (n + 1) + 1 ELSE 0) = m - n
    OBVIOUS
  <2> QED BY <2>2, <2>3, <2>4
<1>6. shorter = a \o b
  BY <1>2 DEF RemoveAt
<1> HIDE DEF a, b
<1>7. Len(shorter) = Len(a) + Len(b)
  BY <1>4, <1>5, <1>6, ConcatProperties
<1> QED BY <1>1, <1>3, <1>4, <1>5, <1>7

Asking == {"given", "trying", "finishing"}

\* The schedule kept shows the target; the candidate is that schedule without one step; and
\* in a pass that has removed nothing, no thread passed has a step to give.
Minimizing ==
    /\ minimized \in Seq(ScheduleStep) /\ candidate \in Seq(ScheduleStep)
    /\ tid \in 0 .. NumThreads
    /\ phase \in Asking \cup {"off", "passing", "done", "unchanged"}
    /\ pending => phase \in Asking
    /\ ~pending /\ phase \in Asking \cup {"done"} =>
          replayed = replay_schedule(program, candidate, StepBound, memory_model)
    /\ phase = "trying" => tid \in ThreadId /\ candidate \in Shortened(minimized, tid, target)
    /\ phase \in {"finishing", "done"} => candidate = minimized
    /\ phase \in {"passing", "trying", "finishing", "done"} =>
          ShowsIn(program, memory_model, minimized, target)
    /\ phase \in {"passing", "trying"} /\ ~changed =>
          \A t \in ThreadId : t < tid => Needed(program, memory_model, minimized, target, t)
    /\ phase \in {"finishing", "done"} =>
          \A t \in ThreadId : Needed(program, memory_model, minimized, target, t)

\* No minimization has begun.
LEMMA InitMinimizing == MinimizerInit => Minimizing
<1>1. <<>> \in Seq(ScheduleStep)
  OBVIOUS
<1> QED BY <1>1, SizesAssumption DEF MinimizerInit, Minimizing, Asking

\* A minimization begins with a schedule that shows the bugs.
LEMMA BeginMinimizing ==
    ASSUME Minimizing, ~pending, NEW STATE bugs, NEW STATE from, FirstPass(bugs, from),
           from \in Seq(ScheduleStep), ShowsIn(program, memory_model, from, bugs),
           UNCHANGED <<program, memory_model>>
    PROVE  Minimizing'
<1>1. /\ phase' = "passing" /\ target' = bugs /\ minimized' = from /\ changed' = FALSE
      /\ tid' = 0 /\ UNCHANGED <<candidate, pending, replayed>>
  BY DEF FirstPass
<1>2. 0 \in 0 .. NumThreads /\ \A t \in ThreadId : ~(t < 0)
  BY SizesAssumption DEF ThreadId
<1> QED BY <1>1, <1>2 DEF Minimizing, Asking

\* Every step of a minimization.
LEMMA MinimizesOn ==
    ASSUME Minimizing, Minimize, UNCHANGED <<program, memory_model>>
    PROVE  Minimizing'
<1>1. /\ program' = program /\ memory_model' = memory_model
  OBVIOUS
<1>2. CASE GivenReplayed
  <2>1. phase = "given" /\ ~pending /\ candidate \in Seq(ScheduleStep)
        /\ replayed = replay_schedule(program, candidate, StepBound, memory_model)
    BY <1>2 DEF GivenReplayed, Minimizing, Asking
  <2>2. PICK r \in replayed :
          \/ /\ phase' = "unchanged"
             /\ UNCHANGED <<target, minimized, changed, tid, candidate, pending, replayed>>
          \/ FirstPass(identities_of(r), candidate)
    BY <1>2 DEF GivenReplayed
  <2>3. CASE /\ phase' = "unchanged"
             /\ UNCHANGED <<target, minimized, changed, tid, candidate, pending, replayed>>
    BY <1>1, <2>1, <2>3 DEF Minimizing, Asking
  <2>4. CASE FirstPass(identities_of(r), candidate)
    <3>1. reproduces_identities(r, identities_of(r))
      BY DEF reproduces_identities
    <3> DEFINE bugs == identities_of(r)
    <3>2. ShowsIn(program, memory_model, candidate, bugs)
      BY <2>1, <2>2, <3>1 DEF ShowsIn
    <3> HIDE DEF bugs
    <3> QED BY <2>1, <2>4, <3>2, BeginMinimizing DEF bugs
  <2> QED BY <2>2, <2>3, <2>4
<1>3. CASE Skip
  <2>1. /\ phase = "passing" /\ tid < NumThreads /\ tid' = tid + 1
        /\ Shortened(minimized, tid, target) = {}
        /\ UNCHANGED <<phase, target, minimized, changed, candidate, pending, replayed>>
    BY <1>3 DEF Skip
  <2>2. Needed(program, memory_model, minimized, target, tid)
    BY <2>1 DEF Needed
  <2>3. /\ tid + 1 \in 0 .. NumThreads
        /\ \A t \in ThreadId : t < tid + 1 => t < tid \/ t = tid
    BY <2>1, SizesAssumption DEF Minimizing, ThreadId
  <2> QED BY <1>1, <2>1, <2>2, <2>3 DEF Minimizing, Asking
<1>4. CASE Try
  <2>1. PICK shorter \in Shortened(minimized, tid, target) : Ask("trying", shorter)
    BY <1>4 DEF Try
  <2>2. /\ phase = "passing" /\ tid < NumThreads /\ UNCHANGED <<target, minimized, changed, tid>>
        /\ phase' = "trying" /\ candidate' = shorter /\ pending' = TRUE
    BY <1>4, <2>1 DEF Try, Ask
  <2>3. shorter \in Seq(ScheduleStep) /\ tid \in ThreadId
    BY <2>1, <2>2, OneShorter, SizesAssumption DEF Minimizing, ThreadId
  <2> QED BY <1>1, <2>1, <2>2, <2>3 DEF Minimizing, Asking
<1>5. CASE Replayed
  BY <1>1, <1>5 DEF Replayed, Minimizing, Asking
<1>6. CASE Tried
  <2>1. /\ phase = "trying" /\ ~pending /\ phase' = "passing" /\ tid' = tid + 1
        /\ UNCHANGED <<target, candidate, pending, replayed>>
        /\ \/ Shows(target) /\ Accept
           \/ ~Shows(target) /\ Reject
    BY <1>6 DEF Tried
  <2>2. /\ replayed = replay_schedule(program, candidate, StepBound, memory_model)
        /\ tid \in ThreadId /\ candidate \in Shortened(minimized, tid, target)
        /\ candidate \in Seq(ScheduleStep) /\ minimized \in Seq(ScheduleStep)
    BY <2>1 DEF Minimizing, Asking
  <2>3. Shows(target) <=> ShowsIn(program, memory_model, candidate, target)
    BY <2>2 DEF Shows, ShowsIn
  <2>4. /\ tid + 1 \in 0 .. NumThreads
        /\ \A t \in ThreadId : t < tid + 1 => t < tid \/ t = tid
    BY <2>2, SizesAssumption DEF ThreadId
  <2>5. CASE Shows(target) /\ Accept
    <3>1. minimized' = candidate /\ changed' = TRUE
      BY <2>5 DEF Accept
    <3> QED BY <1>1, <2>1, <2>2, <2>3, <2>4, <2>5, <3>1 DEF Minimizing, Asking
  <2>6. CASE ~Shows(target) /\ Reject
    <3>1. minimized' = minimized /\ changed' = changed
      BY <2>6 DEF Reject
    <3>2. Needed(program, memory_model, minimized, target, tid)
      BY <2>2, <2>3, <2>6, OneShorter DEF Needed
    <3> QED BY <1>1, <2>1, <2>2, <2>4, <3>1, <3>2 DEF Minimizing, Asking
  <2> QED BY <2>1, <2>5, <2>6
<1>7. CASE NextPass
  <2>1. 0 \in 0 .. NumThreads /\ \A t \in ThreadId : ~(t < 0)
    BY SizesAssumption DEF ThreadId
  <2> QED BY <1>1, <1>7, <2>1 DEF NextPass, Minimizing, Asking
<1>8. CASE AskFinal
  <2>1. /\ phase = "passing" /\ tid = NumThreads /\ ~changed
        /\ phase' = "finishing" /\ candidate' = minimized /\ pending' = TRUE
        /\ UNCHANGED <<target, minimized, changed, tid>>
    BY <1>8 DEF AskFinal, Ask
  <2>2. \A t \in ThreadId : t < NumThreads
    BY SizesAssumption DEF ThreadId
  <2>3. \A t \in ThreadId : Needed(program, memory_model, minimized, target, t)
    BY <2>1, <2>2 DEF Minimizing
  <2> QED BY <1>1, <2>1, <2>3 DEF Minimizing, Asking
<1>9. CASE Confirm
  <2>1. /\ phase = "finishing" /\ ~pending
        /\ phase' = IF Shows(target) THEN "done" ELSE "failed"
        /\ UNCHANGED <<target, minimized, changed, tid, candidate, pending, replayed>>
    BY <1>9 DEF Confirm
  <2>2. Shows(target)
    BY <2>1 DEF Minimizing, Asking, Shows, ShowsIn
  <2> QED BY <1>1, <2>1, <2>2 DEF Minimizing, Asking
<1> QED BY <1>2, <1>3, <1>4, <1>5, <1>6, <1>7, <1>8, <1>9 DEF Minimize

\* The target stays and the schedule never grows.
LEMMA MinimizesTowards ==
    ASSUME Minimizing, Minimize, phase \notin {"off", "given"}
    PROVE  /\ target' = target /\ Len(minimized') <= Len(minimized)
           /\ phase' \in {"passing", "trying", "finishing", "done", "failed"}
<1>1. minimized \in Seq(ScheduleStep) /\ Len(minimized) \in Nat
      /\ phase \in Asking \cup {"off", "passing", "done", "unchanged"}
  BY DEF Minimizing
<1>2. CASE Skip \/ Try \/ NextPass \/ AskFinal
  BY <1>1, <1>2 DEF Skip, Try, NextPass, AskFinal, Ask
<1>3. CASE Replayed
  BY <1>1, <1>3 DEF Replayed, Minimizing, Asking
<1>4. CASE Confirm
  BY <1>1, <1>4 DEF Confirm
<1>5. CASE Tried
  <2>1. /\ phase = "trying" /\ phase' = "passing" /\ target' = target
        /\ minimized' = candidate \/ minimized' = minimized
    BY <1>5 DEF Tried, Accept, Reject
  <2>2. candidate \in Shortened(minimized, tid, target)
    BY <2>1 DEF Minimizing
  <2>3. Len(candidate) <= Len(minimized)
    BY <1>1, <2>2, ShorterThan
  <2> QED BY <1>1, <2>1, <2>3
<1> QED BY <1>2, <1>3, <1>4, <1>5 DEF Minimize, GivenReplayed

\* The two promises of a minimization follow.
LEMMA MinimizingSound == Minimizing => SameBug /\ OneMinimal
<1> SUFFICES ASSUME Minimizing PROVE SameBug /\ OneMinimal
  OBVIOUS
<1>1. phase # "failed"
  BY DEF Minimizing, Asking
<1>2. ASSUME phase = "done", NEW r \in replayed PROVE reproduces_identities(r, target)
  <2>1. /\ replayed = replay_schedule(program, minimized, StepBound, memory_model)
        /\ ShowsIn(program, memory_model, minimized, target)
    BY <1>2 DEF Minimizing, Asking
  <2> QED BY <1>2, <2>1, OneResult DEF ShowsIn
<1>3. SameBug
  BY <1>1, <1>2 DEF SameBug, reproduces_identities
<1>4. OneMinimal
  BY DEF Minimizing, OneMinimal, Needed, ShowsIn, reproduces_identities
<1> QED BY <1>3, <1>4
=============================================================================
