----------------------------- MODULE NaiveProofs -----------------------------
(***************************************************************************)
(* The exhaustive search, of every program, memory model, step bound and   *)
(* schedule cap.  It implements Exploration: it stands on its path         *)
(* (Standing), and every schedule it has counted leaves this path with a   *)
(* step that the frame there has taken already (Distinct).  And it is      *)
(* exact: a complete execution has been counted, or is still awaited by a  *)
(* frame, or comes after all that a met cap has let it count (Exact).      *)
(***************************************************************************)
EXTENDS Naive, ReplayLemmas

-----------------------------------------------------------------------------
(***************************************************************************)
(* The inductive invariant.                                                *)
(***************************************************************************)
FrameStates(fs) == [i \in DOMAIN fs |-> fs[i].state]
FrameTried(fs) == [i \in DOMAIN fs |-> ScheduleStep \ fs[i].rest]

IsFrame(p, f) ==
    f = [state |-> f.state, rest |-> f.rest] /\ f.rest \subseteq enabled_steps(p, f.state)

Walking(p, model, fs, path, h, R, ss) ==
    /\ IsSeq(fs) /\ Len(fs) = Len(path) + 1
    /\ \A i \in 1 .. Len(fs) : IsFrame(p, fs[i])
    /\ Standing(p, model, path, FrameStates(fs), h, R)
    /\ Distinct(ss, path, FrameTried(fs))

NaiveInv ==
    /\ program \in Programs /\ memory_model \in MemoryModel /\ max_schedules \in Nat
    /\ Finished \/ Walking(program, memory_model, frames, schedule, history, result, schedules)

\* The parts of frames that have the same states, and have not forgotten a step they took.
LEMMA FramesAre ==
    ASSUME NEW fs, IsSeq(fs)
    PROVE  /\ Len(fs) \in Nat /\ DOMAIN fs = 1 .. Len(fs)
           /\ \A i \in 1 .. Len(fs) : /\ FrameStates(fs)[i] = fs[i].state
                                      /\ FrameTried(fs)[i] = ScheduleStep \ fs[i].rest
BY SeqLength DEF FrameStates, FrameTried

LEMMA InitNaiveInv == Init => NaiveInv
<1> SUFFICES ASSUME Init PROVE NaiveInv
  OBVIOUS
<1> DEFINE s == initial_state(program, memory_model)
           f == [state |-> s, rest |-> enabled_steps(program, s)]
           none == <<>>
<1>1. /\ program \in Programs /\ memory_model \in MemoryModel /\ max_schedules \in Nat
      /\ frames = <<f>> /\ history = initial_state_history(program, s)
      /\ schedule = none /\ schedules = none /\ result = NoResult
  BY SearchAssumption DEF Init, Frame
<1>2. IsSeq(frames) /\ Len(frames) = 1 /\ frames[1] = f /\ Len(none) = 0
  <2> HIDE DEF f
  <2>1. <<f>> \in Seq({f}) /\ Len(<<f>>) = 1 /\ <<f>>[1] = f /\ Len(none) = 0
    OBVIOUS
  <2> HIDE DEF none
  <2> QED BY <1>1, <2>1 DEF IsSeq
<1>3. FrameStates(frames)[1] = s
  BY <1>2, FramesAre
<1> HIDE DEF s
<1>4. Standing(program, memory_model, none, FrameStates(frames), history, NoResult)
  BY <1>1, <1>3, StandingStart DEF s
<1>5. Distinct(none, none, FrameTried(frames))
  BY DistinctStart
<1>6. \A i \in 1 .. Len(frames) : IsFrame(program, frames[i])
  BY <1>2 DEF IsFrame
<1> HIDE DEF none
<1> QED BY <1>1, <1>2, <1>4, <1>5, <1>6 DEF NaiveInv, Walking

-----------------------------------------------------------------------------
(***************************************************************************)
(* Its steps are steps of Exploration.                                     *)
(***************************************************************************)
\* A schedule that is counted.
LEMMA CountsSchedule ==
    ASSUME NEW STATE s, UNCHANGED params, ~capped, Recordable(result), max_schedules \in Nat,
           IsSeq(schedules), s \notin Range(schedules), schedules' = Append(schedules, s),
           Counted(program, memory_model, s, result, result')
    PROVE  Abstract!Next
<1>1. PICK r \in ReplayOf(program, s, memory_model) :
        /\ r.schedules_explored = 1
        /\ \A counter \in CountFields : result'[counter] = result[counter] + r[counter]
        /\ Carries(result', r) /\ Firsts(result, result', r, s)
  BY DEF Counted
<1>2. result.schedules_explored < max_schedules
  <2>1. result.schedules_explored \in Nat
    BY DEF Recordable, CountFields
  <2> QED BY <2>1 DEF capped
<1>3. s \in Range(schedules')
  BY RangeAppend
<1>4. Abstract!Count(s)
  BY <1>1, <1>2 DEF Abstract!Count, Abstract!Range, Range, Carries
<1>5. ASSUME NEW kind \in ReportKinds
      PROVE  FoundOf(result')[kind] = FoundOf(result)[kind] \/ Abstract!Find(kind)
  BY <1>1 DEF Firsts, Abstract!Find
<1> QED BY <1>3, <1>4, <1>5 DEF Abstract!Next, Abstract!params, params, Abstract!Range, Range

\* A step that is not the last of its execution.
LEMMA CountsNothing ==
    ASSUME UNCHANGED <<params, schedules>>,
           \/ UNCHANGED result
           \/ \E s : Met(program, memory_model, s, result, result')
    PROVE  Abstract!Next
<1>1. Abstract!CountNothing
  BY DEF Abstract!CountNothing, Met
<1>2. ASSUME NEW kind \in ReportKinds
      PROVE  FoundOf(result')[kind] = FoundOf(result)[kind] \/ Abstract!Find(kind)
  <2>1. CASE UNCHANGED result
    BY <2>1
  <2>2. ASSUME NEW s, Met(program, memory_model, s, result, result')
        PROVE  FoundOf(result')[kind] = FoundOf(result)[kind] \/ Abstract!Find(kind)
    BY <2>2 DEF Met, Firsts, Abstract!Find
  <2> QED BY <2>1, <2>2
<1> QED BY <1>1, <1>2 DEF Abstract!Next, Abstract!params, params

-----------------------------------------------------------------------------
(***************************************************************************)
(* The frames and the path go on.                                          *)
(***************************************************************************)
\* The last frame.
LEMMA WalkingTop ==
    ASSUME NEW p, NEW model, NEW fs, NEW path, NEW h, NEW R, NEW ss,
           Walking(p, model, fs, path, h, R, ss)
    PROVE  LET top == fs[Len(fs)]
           IN  /\ Len(fs) \in 1 .. Len(fs) /\ Len(fs) = Len(path) + 1 /\ IsFrame(p, top)
               /\ FrameStates(fs)[Len(path) + 1] = top.state
               /\ FrameTried(fs)[Len(path) + 1] = ScheduleStep \ top.rest
               /\ enabled_steps(p, top.state) \subseteq ScheduleStep
               /\ path \in Seq(ScheduleStep) /\ IsSeq(fs) /\ IsSeq(ss) /\ Recordable(R)
<1>1. /\ IsSeq(fs) /\ Len(fs) = Len(path) + 1 /\ path \in Seq(ScheduleStep) /\ Len(path) \in Nat
      /\ IsSeq(ss) /\ Recordable(R)
  BY DEF Walking, Standing, Distinct
<1>2. Len(fs) \in 1 .. Len(fs) /\ IsFrame(p, fs[Len(fs)])
  BY <1>1 DEF Walking
<1>3. FrameStates(fs)[Len(fs)] = fs[Len(fs)].state
      /\ FrameTried(fs)[Len(fs)] = ScheduleStep \ fs[Len(fs)].rest
  BY <1>1, <1>2, FramesAre
<1>4. p \in Programs /\ Sound(p, fs[Len(fs)].state)
  BY <1>1, <1>3, StandingTop DEF Walking, Stands
<1>5. enabled_steps(p, fs[Len(fs)].state) \subseteq ScheduleStep
  BY <1>4, EnabledTyped
<1> QED BY <1>1, <1>2, <1>3, <1>5

\* The last frame returns; its path may just have been counted.
LEMMA WalkingPop ==
    ASSUME NEW p, NEW model, NEW fs, NEW path, NEW h, NEW R, NEW ss,
           Walking(p, model, fs, path, h, R, ss), path # <<>>,
           NEW R2, Standing(p, model, path, FrameStates(fs), h, R2)
    PROVE  /\ Walking(p, model, Front(fs), Front(path), Restored(h, Len(path)), R2, ss)
           /\ Walking(p, model, Front(fs), Front(path), Restored(h, Len(path)), R2,
                      Append(ss, path))
<1> DEFINE fs2 == Front(fs)
           q == Front(path)
<1>1. /\ IsSeq(fs) /\ Len(fs) = Len(path) + 1 /\ IsSeq(path) /\ Len(path) \in Nat
      /\ fs # <<>>
  <2>1. IsSeq(fs) /\ Len(fs) = Len(path) + 1 /\ path \in Seq(ScheduleStep) /\ Len(path) \in Nat
    BY DEF Walking, Standing
  <2> QED BY <2>1, SeqLength DEF IsSeq
<1>2. /\ IsSeq(fs2) /\ Len(fs2) = Len(path) /\ Len(q) = Len(path) - 1
      /\ \A i \in 1 .. Len(fs2) : fs2[i] = fs[i] /\ i \in 1 .. Len(fs)
  BY <1>1, SeqFront
<1> HIDE DEF fs2, q
<1>3. \A i \in 1 .. Len(path) : /\ FrameStates(fs2)[i] = FrameStates(fs)[i]
                                /\ FrameTried(fs)[i] \subseteq FrameTried(fs2)[i]
  <2>1. \A i \in 1 .. Len(fs2) : /\ FrameStates(fs2)[i] = fs2[i].state
                                 /\ FrameTried(fs2)[i] = ScheduleStep \ fs2[i].rest
    BY <1>2, FramesAre
  <2>2. \A i \in 1 .. Len(fs) : /\ FrameStates(fs)[i] = fs[i].state
                                /\ FrameTried(fs)[i] = ScheduleStep \ fs[i].rest
    BY <1>1, FramesAre
  <2> QED BY <1>2, <2>1, <2>2
<1>4. Standing(p, model, q, FrameStates(fs2), Restored(h, Len(path)), R2)
  BY <1>3, StandingPop DEF q
<1>5. Distinct(ss, q, FrameTried(fs2)) /\ Distinct(Append(ss, path), q, FrameTried(fs2))
  BY <1>3, DistinctPop DEF q, Walking
<1>6. Len(fs2) = Len(q) + 1 /\ \A i \in 1 .. Len(fs2) : IsFrame(p, fs2[i])
  BY <1>1, <1>2 DEF Walking
<1> QED BY <1>2, <1>4, <1>5, <1>6 DEF Walking, fs2, q

\* The last frame has taken a step.
LEMMA FrameTakes ==
    ASSUME NEW p, NEW fs, IsSeq(fs), Len(fs) \in 1 .. Len(fs),
           \A i \in 1 .. Len(fs) : IsFrame(p, fs[i]), NEW step
    PROVE  LET fs2 == [fs EXCEPT ![Len(fs)].rest = @ \ {step}]
           IN  /\ IsSeq(fs2) /\ Len(fs2) = Len(fs)
               /\ \A i \in 1 .. Len(fs) :
                     /\ IsFrame(p, fs2[i]) /\ FrameStates(fs2)[i] = FrameStates(fs)[i]
                     /\ FrameTried(fs)[i] \subseteq FrameTried(fs2)[i]
               /\ step \in ScheduleStep => step \in FrameTried(fs2)[Len(fs)]
<1> DEFINE n == Len(fs)
           fs2 == [fs EXCEPT ![n].rest = @ \ {step}]
<1>1. n \in Nat /\ DOMAIN fs = 1 .. n /\ fs = [i \in 1 .. n |-> fs[i]]
  <2>1. PICK S : fs \in Seq(S)
    BY DEF IsSeq
  <2> QED BY <2>1
<1>2. /\ fs2 = [i \in 1 .. n |-> fs2[i]]
      /\ \A i \in 1 .. n : i # n => fs2[i] = fs[i]
      /\ fs2[n] = [fs[n] EXCEPT !.rest = @ \ {step}]
  BY <1>1
<1>3. IsFrame(p, fs[n]) /\ fs[n] = [state |-> fs[n].state, rest |-> fs[n].rest]
  BY DEF IsFrame
<1>4. fs2[n] = [state |-> fs[n].state, rest |-> fs[n].rest \ {step}]
  BY <1>2, <1>3
<1> HIDE DEF fs2
<1>5. fs2[n].state = fs[n].state /\ fs2[n].rest = fs[n].rest \ {step} /\ IsFrame(p, fs2[n])
  BY <1>3, <1>4 DEF IsFrame
<1>6. IsSeq(fs2) /\ Len(fs2) = n
  BY <1>1, <1>2, SeqFunction
<1> HIDE DEF n
<1>7. \A i \in 1 .. n : /\ FrameStates(fs)[i] = fs[i].state
                        /\ FrameTried(fs)[i] = ScheduleStep \ fs[i].rest
  BY FramesAre DEF n
<1>8. \A i \in 1 .. n : /\ FrameStates(fs2)[i] = fs2[i].state
                        /\ FrameTried(fs2)[i] = ScheduleStep \ fs2[i].rest
  BY <1>6, FramesAre
<1>9. ASSUME NEW i \in 1 .. n
      PROVE  /\ IsFrame(p, fs2[i]) /\ FrameStates(fs2)[i] = FrameStates(fs)[i]
             /\ FrameTried(fs)[i] \subseteq FrameTried(fs2)[i]
  <2>1. CASE i = n
    BY <1>5, <1>7, <1>8, <2>1
  <2>2. CASE i # n
    BY <1>2, <1>7, <1>8, <2>2 DEF n
  <2> QED BY <2>1, <2>2
<1>10. step \in ScheduleStep => step \in FrameTried(fs2)[n]
  BY <1>5, <1>8 DEF n
<1> QED BY <1>6, <1>9, <1>10 DEF fs2, n

\* The last frame takes a step, and the path with it is counted.
LEMMA WalkingTake ==
    ASSUME NEW p, NEW model, NEW fs, NEW path, NEW h, NEW R, NEW ss,
           Walking(p, model, fs, path, h, R, ss), NEW step \in ScheduleStep,
           NEW R2, Standing(p, model, path, FrameStates(fs), h, R2)
    PROVE  Walking(p, model, [fs EXCEPT ![Len(fs)].rest = @ \ {step}], path, h, R2,
                   Append(ss, Append(path, step)))
<1> DEFINE fs2 == [fs EXCEPT ![Len(fs)].rest = @ \ {step}]
<1>1. /\ Len(fs) \in 1 .. Len(fs) /\ Len(fs) = Len(path) + 1 /\ IsSeq(fs)
  BY WalkingTop
<1>2. /\ IsSeq(fs2) /\ Len(fs2) = Len(fs)
      /\ \A i \in 1 .. Len(fs) : /\ IsFrame(p, fs2[i]) /\ FrameStates(fs2)[i] = FrameStates(fs)[i]
                                 /\ FrameTried(fs)[i] \subseteq FrameTried(fs2)[i]
      /\ step \in FrameTried(fs2)[Len(fs)]
  BY <1>1, FrameTakes DEF Walking
<1> HIDE DEF fs2
<1>3. Standing(p, model, path, FrameStates(fs2), h, R2)
  BY <1>1, <1>2, StandingStays
<1>4. Distinct(Append(ss, Append(path, step)), path, FrameTried(fs2))
  BY <1>1, <1>2, DistinctStays DEF Walking
<1> QED BY <1>1, <1>2, <1>3, <1>4 DEF Walking, fs2

\* The last frame takes a step and calls for the state it leads to.
LEMMA WalkingPush ==
    ASSUME NEW p, NEW model, NEW fs, NEW path, NEW h, NEW R, NEW ss,
           Walking(p, model, fs, path, h, R, ss), NEW step \in fs[Len(fs)].rest, NEW s
    PROVE  LET fs2 == Append([fs EXCEPT ![Len(fs)].rest = @ \ {step}],
                             [state |-> s, rest |-> enabled_steps(p, s)])
           IN  /\ \A i \in 1 .. Len(path) + 1 : FrameStates(fs2)[i] = FrameStates(fs)[i]
               /\ FrameStates(fs2)[Len(path) + 2] = s
               /\ \A h2, R2 : Standing(p, model, Append(path, step), FrameStates(fs2), h2, R2)
                    => Walking(p, model, fs2, Append(path, step), h2, R2, ss)
<1> DEFINE n == Len(fs)
           taken == [fs EXCEPT ![n].rest = @ \ {step}]
           f == [state |-> s, rest |-> enabled_steps(p, s)]
           fs2 == Append(taken, f)
           q == Append(path, step)
<1>1. /\ n \in 1 .. n /\ n = Len(path) + 1 /\ IsSeq(fs) /\ path \in Seq(ScheduleStep)
      /\ step \in ScheduleStep /\ FrameTried(fs)[n] = ScheduleStep \ fs[n].rest
      /\ Len(path) \in Nat
  <2>1. /\ n \in 1 .. n /\ n = Len(path) + 1 /\ IsSeq(fs) /\ path \in Seq(ScheduleStep)
        /\ FrameTried(fs)[Len(path) + 1] = ScheduleStep \ fs[n].rest
        /\ enabled_steps(p, fs[n].state) \subseteq ScheduleStep /\ IsFrame(p, fs[n])
    BY WalkingTop
  <2> QED BY <2>1 DEF IsFrame
<1>2. Len(q) = n
  BY <1>1
<1>3. /\ IsSeq(taken) /\ Len(taken) = n
      /\ \A i \in 1 .. n : /\ IsFrame(p, taken[i]) /\ FrameStates(taken)[i] = FrameStates(fs)[i]
                           /\ FrameTried(fs)[i] \subseteq FrameTried(taken)[i]
      /\ step \in FrameTried(taken)[n]
  BY <1>1, FrameTakes DEF Walking
<1>4. IsFrame(p, f) /\ f.state = s
  BY DEF IsFrame
<1> HIDE DEF taken, f, q
<1>5. /\ IsSeq(fs2) /\ Len(fs2) = n + 1 /\ fs2[n + 1] = f
      /\ \A i \in 1 .. n : fs2[i] = taken[i]
  BY <1>3, SeqAppend
<1> HIDE DEF fs2, n
<1>6. ASSUME NEW i \in 1 .. n
      PROVE  /\ FrameStates(fs2)[i] = FrameStates(taken)[i]
             /\ FrameTried(fs2)[i] = FrameTried(taken)[i]
  <2>1. i \in 1 .. Len(fs2) /\ i \in 1 .. Len(taken)
    BY <1>1, <1>3, <1>5
  <2>2. /\ FrameStates(fs2)[i] = fs2[i].state /\ FrameTried(fs2)[i] = ScheduleStep \ fs2[i].rest
    BY <1>5, <2>1, FramesAre
  <2>3. /\ FrameStates(taken)[i] = taken[i].state
        /\ FrameTried(taken)[i] = ScheduleStep \ taken[i].rest
    BY <1>3, <2>1, FramesAre
  <2> QED BY <1>5, <2>2, <2>3
<1>7. n \in Nat /\ Len(path) + 2 = n + 1 /\ n + 1 \in 1 .. Len(fs2)
  BY <1>1, <1>5
<1>8. FrameStates(fs2)[n + 1] = s
  BY <1>4, <1>5, <1>7, FramesAre
<1>9. \A i \in 1 .. n : FrameStates(fs2)[i] = FrameStates(fs)[i]
  BY <1>3, <1>6
<1>10. Distinct(ss, q, FrameTried(fs2))
  <2>1. Distinct(ss, path, FrameTried(fs))
    BY DEF Walking
  <2>2. step \notin FrameTried(fs)[Len(path) + 1] /\ step \in FrameTried(fs2)[Len(path) + 1]
    BY <1>1, <1>3, <1>6 DEF n
  <2>3. \A i \in 1 .. Len(path) + 1 : FrameTried(fs)[i] \subseteq FrameTried(fs2)[i]
    BY <1>1, <1>3, <1>6
  <2> QED BY <1>1, <2>1, <2>2, <2>3, DistinctPush DEF q
<1>11. ASSUME NEW i \in 1 .. Len(fs2) PROVE IsFrame(p, fs2[i])
  <2>1. i \in 1 .. n \/ i = n + 1
    BY <1>5, <1>7
  <2> QED BY <1>3, <1>4, <1>5, <2>1
<1>12. ASSUME NEW h2, NEW R2, Standing(p, model, q, FrameStates(fs2), h2, R2)
       PROVE  Walking(p, model, fs2, q, h2, R2, ss)
  BY <1>2, <1>5, <1>10, <1>11, <1>12 DEF Walking
<1>13. \A i \in 1 .. Len(path) + 1 : FrameStates(fs2)[i] = FrameStates(fs)[i]
  BY <1>1, <1>9
<1>14. FrameStates(fs2)[Len(path) + 2] = s
  BY <1>7, <1>8
<1> QED BY <1>12, <1>13, <1>14 DEF fs2, taken, f, q, n

-----------------------------------------------------------------------------
(***************************************************************************)
(* Every action keeps the invariant and is a step of Exploration.          *)
(***************************************************************************)
\* The invariant of a search that has not returned.
LEMMA Walks ==
    ASSUME NaiveInv, ~Finished
    PROVE  /\ Walking(program, memory_model, frames, schedule, history, result, schedules)
           /\ max_schedules \in Nat /\ Recordable(result) /\ IsSeq(schedules)
           /\ memory_model \in MemoryModel /\ program \in Programs
<1>1. Walking(program, memory_model, frames, schedule, history, result, schedules)
  BY DEF NaiveInv
<1> QED BY <1>1 DEF NaiveInv, Walking, Standing, Distinct

\* The invariant holds again for the new frames, or there are none.
LEMMA StillWalks ==
    ASSUME NaiveInv, UNCHANGED params,
           \/ frames' = <<>>
           \/ Walking(program, memory_model, frames', schedule', history', result', schedules')
    PROVE  NaiveInv'
BY DEF NaiveInv, Finished, params

\* Pop, for a result and schedules that the path agrees with.
LEMMA Pops ==
    ASSUME NaiveInv, ~Finished, UNCHANGED params, Pop,
           Standing(program, memory_model, schedule, FrameStates(frames), history, result'),
           schedules' = schedules \/ schedules' = Append(schedules, schedule)
    PROVE  NaiveInv'
<1>1. Walking(program, memory_model, frames, schedule, history, result, schedules)
  BY Walks
<1>2. CASE schedule = <<>>
  <2>1. IsSeq(frames) /\ Len(frames) = 1
    BY <1>1, <1>2 DEF Walking
  <2>2. IsSeq(Front(frames)) /\ Len(Front(frames)) = 0
    BY <2>1, SeqFront DEF Finished
  <2>3. frames' = <<>>
    BY <2>2, SeqLength DEF Pop
  <2> QED BY <2>3, StillWalks
<1>3. CASE schedule # <<>>
  <2>1. frames' = Front(frames) /\ schedule' = Front(schedule)
        /\ history' = Restored(history, Len(schedule))
    BY <1>3 DEF Pop
  <2>2. Walking(program, memory_model, Front(frames), Front(schedule),
                Restored(history, Len(schedule)), result', schedules')
    BY <1>1, <1>3, WalkingPop
  <2> QED BY <2>1, <2>2, StillWalks
<1> QED BY <1>2, <1>3

LEMMA LeafExplores == ASSUME NaiveInv, Leaf PROVE NaiveInv' /\ Abstract!Next
<1>1. /\ Walking(program, memory_model, frames, schedule, history, result, schedules)
      /\ max_schedules \in Nat /\ Recordable(result) /\ IsSeq(schedules)
  BY Walks DEF Leaf
<1>2. /\ ~Finished /\ ~capped /\ Pop /\ UNCHANGED params
      /\ enabled_steps(program, Top.state) = {}
      /\ result' = WithDeadlock(WithLeaf(result), program, Top.state, schedule)
      /\ schedules' = Append(schedules, schedule)
  BY DEF Leaf
<1>3. FrameStates(frames)[Len(schedule) + 1] = Top.state
  BY <1>1, WalkingTop DEF Top
<1>4. /\ Counted(program, memory_model, schedule, result, result')
      /\ Standing(program, memory_model, schedule, FrameStates(frames), history, result')
  BY <1>1, <1>2, <1>3, LeafCounted DEF Walking
<1>5. schedule \notin Range(schedules)
  BY <1>1, DistinctHere DEF Walking
<1>6. NaiveInv'
  BY <1>2, <1>4, Pops
<1>7. Abstract!Next
  BY <1>1, <1>2, <1>4, <1>5, CountsSchedule
<1> QED BY <1>6, <1>7

LEMMA ReturnExplores == ASSUME NaiveInv, Return PROVE NaiveInv' /\ Abstract!Next
<1>1. ~Finished /\ Pop /\ UNCHANGED <<params, result, schedules>>
  BY DEF Return
<1>2. Standing(program, memory_model, schedule, FrameStates(frames), history, result)
  BY <1>1, Walks DEF Walking
<1>3. NaiveInv'
  BY <1>1, <1>2, Pops
<1>4. Abstract!Next
  BY <1>1, CountsNothing
<1> QED BY <1>3, <1>4

\* The step dfs takes next.
LEMMA TakesEnabled ==
    ASSUME NaiveInv, Taking
    PROVE  /\ Walking(program, memory_model, frames, schedule, history, result, schedules)
           /\ max_schedules \in Nat /\ Recordable(result) /\ IsSeq(schedules) /\ ~capped
           /\ memory_model \in MemoryModel /\ program \in Programs
           /\ FrameStates(frames)[Len(schedule) + 1] = Top.state
           /\ NextStep \in Top.rest /\ NextStep \in ScheduleStep
           /\ NextStep \in enabled_steps(program, Top.state)
           /\ Append(schedule, NextStep) \notin Range(schedules)
<1>1. /\ Walking(program, memory_model, frames, schedule, history, result, schedules)
      /\ max_schedules \in Nat /\ Recordable(result) /\ IsSeq(schedules)
      /\ memory_model \in MemoryModel /\ program \in Programs
  BY Walks DEF Taking
<1>2. /\ IsFrame(program, Top) /\ FrameStates(frames)[Len(schedule) + 1] = Top.state
      /\ FrameTried(frames)[Len(schedule) + 1] = ScheduleStep \ Top.rest
      /\ enabled_steps(program, Top.state) \subseteq ScheduleStep
  BY <1>1, WalkingTop DEF Top
<1>3. Top.rest \subseteq enabled_steps(program, Top.state) /\ Top.rest # {}
  BY <1>2 DEF IsFrame, Taking
<1>4. NextStep \in Top.rest
  BY <1>2, <1>3, LeastStepIn DEF NextStep
<1>5. NextStep \notin FrameTried(frames)[Len(schedule) + 1]
  BY <1>2, <1>4
<1>6. Append(schedule, NextStep) \notin Range(schedules)
  BY <1>1, <1>5, DistinctHere DEF Walking
<1> QED BY <1>1, <1>2, <1>3, <1>4, <1>6 DEF Taking

\* CountPath, for a result that counts the path.
LEMMA CountPathExplores ==
    ASSUME NaiveInv, Taking, NEW r, CountPath(r, NextStep),
           Counted(program, memory_model, Append(schedule, NextStep), result, r),
           Standing(program, memory_model, schedule, FrameStates(frames), history, r)
    PROVE  NaiveInv' /\ Abstract!Next
<1>1. /\ Walking(program, memory_model, frames, schedule, history, result, schedules)
      /\ max_schedules \in Nat /\ Recordable(result) /\ IsSeq(schedules) /\ ~capped
      /\ NextStep \in ScheduleStep /\ Append(schedule, NextStep) \notin Range(schedules)
  BY TakesEnabled
<1>2. /\ result' = r /\ schedules' = Append(schedules, Append(schedule, NextStep))
      /\ frames' = [frames EXCEPT ![Len(frames)].rest = @ \ {NextStep}]
      /\ UNCHANGED params /\ schedule' = schedule /\ history' = history
  BY DEF CountPath, WithoutStep
<1>3. Walking(program, memory_model, frames', schedule', history', result', schedules')
  <2> DEFINE step == NextStep
  <2> HIDE DEF step
  <2>1. Walking(program, memory_model, [frames EXCEPT ![Len(frames)].rest = @ \ {step}], schedule,
                history, r, Append(schedules, Append(schedule, step)))
    BY <1>1, WalkingTake DEF step
  <2> QED BY <1>2, <2>1 DEF step
<1>4. NaiveInv'
  BY <1>2, <1>3, StillWalks
<1>5. Abstract!Next
  BY <1>1, <1>2, CountsSchedule
<1> QED BY <1>4, <1>5

LEMMA BoundLeafExplores == ASSUME NaiveInv, BoundLeaf PROVE NaiveInv' /\ Abstract!Next
<1>1. Taking /\ step_bound_reached(Top.state, NextStep.thread)
      /\ CountPath(record_bound_exceeded(result), NextStep)
  BY DEF BoundLeaf
<1>2. /\ Walking(program, memory_model, frames, schedule, history, result, schedules)
      /\ FrameStates(frames)[Len(schedule) + 1] = Top.state
      /\ NextStep \in enabled_steps(program, Top.state)
  BY <1>1, TakesEnabled
<1>3. /\ Counted(program, memory_model, Append(schedule, NextStep), result,
                 record_bound_exceeded(result))
      /\ Standing(program, memory_model, schedule, FrameStates(frames), history,
                  record_bound_exceeded(result))
  BY <1>1, <1>2, StepCounted DEF Walking
<1> QED BY <1>1, <1>3, CountPathExplores

LEMMA TakeStepExplores == ASSUME NaiveInv, TakeStep PROVE NaiveInv' /\ Abstract!Next
<1> DEFINE step == NextStep
           s == Top.state
           out == execute_enabled_step(program, s, step)
           taken == Append(schedule, step)
           reported == WithStepReport(result, out.report, taken)
           states == FrameStates(frames)
<1>1. /\ Taking /\ ~step_bound_reached(s, step.thread)
      /\ FailureLeaf(step, out, reported) \/ CycleLeaf(step, out, reported)
            \/ Descend(step, out, reported)
  BY DEF TakeStep
<1>2. /\ Walking(program, memory_model, frames, schedule, history, result, schedules)
      /\ states[Len(schedule) + 1] = s
      /\ step \in Top.rest /\ step \in enabled_steps(program, s)
  BY <1>1, TakesEnabled
<1>3. Standing(program, memory_model, schedule, states, history, result)
  BY <1>2 DEF Walking
<1>4. CASE FailureLeaf(step, out, reported)
  <2>1. Failed(out) /\ CountPath(WithLeaf(reported), NextStep)
    BY <1>4 DEF FailureLeaf
  <2>2. /\ Counted(program, memory_model, taken, result, WithLeaf(reported))
        /\ Standing(program, memory_model, schedule, states, history, WithLeaf(reported))
    BY <1>1, <1>2, <1>3, <2>1, StepCounted
  <2> QED BY <1>1, <2>1, <2>2, CountPathExplores
<1>5. CASE CycleLeaf(step, out, reported)
  <2>1. PICK start \in CycleStart(history, out.state) :
           \E report \in make_nontermination_report(program, taken, start, memory_model) :
              CountPath(record_nontermination(reported, report), NextStep)
    BY <1>5 DEF CycleLeaf
  <2>2. PICK report \in make_nontermination_report(program, taken, start, memory_model) :
              CountPath(record_nontermination(reported, report), NextStep)
    BY <2>1
  <2>3. ~Failed(out)
    BY <1>5 DEF CycleLeaf
  <2> DEFINE r == record_nontermination(reported, report)
  <2>4. /\ Counted(program, memory_model, taken, result, r)
        /\ Standing(program, memory_model, schedule, states, history, r)
    BY <1>1, <1>2, <1>3, <2>1, <2>2, <2>3, StepCounted
  <2> QED BY <1>1, <2>2, <2>4, CountPathExplores
<1>6. CASE Descend(step, out, reported)
  <2>1. /\ ~Failed(out) /\ CycleStart(history, out.state) = {}
        /\ frames' = Append([frames EXCEPT ![Len(frames)].rest = @ \ {step}],
                            [state |-> out.state, rest |-> enabled_steps(program, out.state)])
        /\ schedule' = taken /\ history' = Observed(program, history, out.state, Len(schedule) + 1)
        /\ result' = reported /\ UNCHANGED <<params, schedules>>
    BY <1>6 DEF Descend, WithoutStep, Frame
  <2>2. /\ \A i \in 1 .. Len(schedule) + 1 : FrameStates(frames')[i] = states[i]
        /\ FrameStates(frames')[Len(schedule) + 2] = out.state
        /\ \A h2, R2 : Standing(program, memory_model, taken, FrameStates(frames'), h2, R2)
              => Walking(program, memory_model, frames', taken, h2, R2, schedules)
    <3> HIDE DEF step, out
    <3> DEFINE next == out.state
               fs2 == Append([frames EXCEPT ![Len(frames)].rest = @ \ {step}],
                             [state |-> next, rest |-> enabled_steps(program, next)])
    <3>1. step \in frames[Len(frames)].rest /\ frames' = fs2
      BY <1>2, <2>1 DEF Top
    <3> HIDE DEF next
    <3>2. /\ \A i \in 1 .. Len(schedule) + 1 : FrameStates(fs2)[i] = states[i]
          /\ FrameStates(fs2)[Len(schedule) + 2] = next
          /\ \A h2, R2 : Standing(program, memory_model, taken, FrameStates(fs2), h2, R2)
                => Walking(program, memory_model, fs2, taken, h2, R2, schedules)
      BY <1>2, <3>1, WalkingPush
    <3> HIDE DEF fs2
    <3> QED BY <3>1, <3>2 DEF next
  <2>3. /\ Met(program, memory_model, taken, result, reported)
        /\ Standing(program, memory_model, taken, FrameStates(frames'),
                    Observed(program, history, out.state, Len(schedule) + 1), reported)
    <3> DEFINE states2 == FrameStates(frames')
    <3> HIDE DEF states2, step, states
    <3>1. /\ \A i \in 1 .. Len(schedule) + 1 : states2[i] = states[i]
          /\ states2[Len(schedule) + 2] = execute_enabled_step(program, s, step).state
          /\ states[Len(schedule) + 1] = s
      BY <1>2, <2>2 DEF states2
    <3>2. step \in enabled_steps(program, s) /\ ~step_bound_reached(s, step.thread)
      BY <1>1, <1>2
    <3> HIDE DEF s
    <3>3. /\ Met(program, memory_model, taken, result, reported)
          /\ Standing(program, memory_model, taken, states2,
                      Observed(program, history, out.state, Len(schedule) + 1), reported)
      BY <1>3, <2>1, <3>1, <3>2, StepMet
    <3> QED BY <3>3 DEF states2
  <2>4. Walking(program, memory_model, frames', schedule', history', result', schedules')
    BY <2>1, <2>2, <2>3
  <2>5. NaiveInv'
    BY <2>1, <2>4, StillWalks
  <2>6. Abstract!Next
    BY <2>1, <2>3, CountsNothing
  <2> QED BY <2>5, <2>6
<1> QED BY <1>1, <1>4, <1>5, <1>6

\* What dfs starts with.
LEMMA InitExplores == Init => Abstract!Init
<1> SUFFICES ASSUME Init PROVE Abstract!Init
  OBVIOUS
<1>1. /\ program \in Programs /\ memory_model \in MemoryModels /\ max_schedules \in ScheduleCaps
      /\ result = NoResult /\ schedules = <<>>
  BY DEF Init
<1>2. \A counter \in CountFields : NoResult[counter] = 0
  BY DEF NoResult, CountFields
<1>3. \A kind \in ReportKinds : FoundOf(NoResult)[kind] = {}
  <2>1. FoundOf(NoResult) = [race |-> {}, deadlock |-> {}, error |-> {}, assertion |-> {},
                             nontermination |-> {}]
    BY DEF FoundOf, NoResult
  <2> QED BY <2>1, KindsAre
<1> QED BY <1>1, <1>2, <1>3 DEF Abstract!Init

\* The exhaustive search, of any program, memory model and step bound and with any cap,
\* counts each complete execution at most once and by what its replay shows, keeps the
\* first report of each kind, with a schedule that replays to this report, and overlooks
\* none of the executions it counts.
THEOREM NaiveImplementsExploration == Spec => ImplementsExploration
<1>1. Init => NaiveInv /\ Abstract!Init
  BY InitNaiveInv, InitExplores
<1>2. NaiveInv /\ [Next \/ (Finished /\ UNCHANGED vars)]_vars
        => NaiveInv' /\ [Abstract!Next]_(Abstract!evars)
  <2> SUFFICES ASSUME NaiveInv, [Next \/ (Finished /\ UNCHANGED vars)]_vars
               PROVE  NaiveInv' /\ [Abstract!Next]_(Abstract!evars)
    OBVIOUS
  <2>1. CASE UNCHANGED vars
    BY <2>1 DEF vars, params, NaiveInv, Finished, Abstract!evars, Abstract!params
  <2>2. CASE Next
    BY <2>2, LeafExplores, ReturnExplores, BoundLeafExplores, TakeStepExplores DEF Next
  <2> QED BY <2>1, <2>2
<1> QED BY <1>1, <1>2, PTL DEF Spec, ImplementsExploration, Abstract!Spec

-----------------------------------------------------------------------------
(***************************************************************************)
(* The executions of a program, without Executions's counting of steps:    *)
(* e is taken through states, m steps of it go on, and the next one stops  *)
(* or there is none.                                                       *)
(***************************************************************************)
\* step ends the execution that has passed through the first i states.
StopsWith(p, step, states, i) ==
    LET outcome == execute_enabled_step(p, states[i], step)
    IN  \/ step_bound_reached(states[i], step.thread)
        \/ Failed(outcome)
        \/ /\ requires_cycle_detection(p)
           /\ \E j \in 1 .. i : behavioral_state_fingerprint(states[j]) =
                                    behavioral_state_fingerprint(outcome.state)

PassesOn(p, e, states, i) ==
    /\ e[i] \in enabled_steps(p, states[i])
    /\ ~StopsWith(p, e[i], states, i)
    /\ states[i + 1] = execute_enabled_step(p, states[i], e[i]).state

Opens(p, model, e, states, m) ==
    states[1] = initial_state(p, model) /\ \A i \in 1 .. m : PassesOn(p, e, states, i)

CompleteAt(p, model, e, states, m) ==
    /\ e \in Seq(ScheduleStep) /\ Opens(p, model, e, states, m)
    /\ \/ Len(e) = m /\ enabled_steps(p, states[m + 1]) = {}
       \/ /\ Len(e) = m + 1 /\ e[m + 1] \in enabled_steps(p, states[m + 1])
          /\ StopsWith(p, e[m + 1], states, m + 1)

IsComplete(p, model, e) == \E m \in Nat : \E states : CompleteAt(p, model, e, states, m)

\* What holds at 0 and for each next number holds up to n.
LEMMA CountUp ==
    ASSUME NEW n \in Nat, NEW S, 0 \in S, \A i \in 1 .. n : i - 1 \in S => i \in S
    PROVE  \A i \in 0 .. n : i \in S
<1> DEFINE fails == {i \in 0 .. n : i \notin S}
<1>1. CASE fails # {}
  <2> DEFINE k == Min(fails)
  <2>1. k \in fails /\ \A i \in fails : k <= i
    <3>1. fails \in SUBSET Nat
      OBVIOUS
    <3> HIDE DEF fails
    <3> QED BY <1>1, <3>1, LeastNatural
  <2> HIDE DEF k
  <2>2. k \in 1 .. n /\ k - 1 \in 0 .. n /\ ~(k <= k - 1)
    BY <2>1
  <2>3. k - 1 \in S
    BY <2>1, <2>2
  <2> QED BY <2>1, <2>2, <2>3
<1>2. CASE fails = {}
  BY <1>2
<1> QED BY <1>1, <1>2

\* Whether a step ends an execution depends on the states passed through only.
LEMMA StopsSame ==
    ASSUME NEW p, NEW step, NEW S, NEW T, NEW i \in Nat \ {0}, \A j \in 1 .. i : S[j] = T[j]
    PROVE  StopsWith(p, step, S, i) <=> StopsWith(p, step, T, i)
<1>1. S[i] = T[i]
  OBVIOUS
<1>2. \A j \in 1 .. i : behavioral_state_fingerprint(S[j]) = behavioral_state_fingerprint(T[j])
  OBVIOUS
<1> QED BY <1>1, <1>2 DEF StopsWith

\* So two executions with the same first steps pass through the same states.
LEMMA SameStates ==
    ASSUME NEW p, NEW model, NEW e, NEW S, NEW m \in Nat, Opens(p, model, e, S, m),
           NEW d, NEW T, NEW n \in Nat, Opens(p, model, d, T, n),
           NEW q \in 0 .. m, q <= n, \A i \in 1 .. q : e[i] = d[i]
    PROVE  \A i \in 1 .. q + 1 : S[i] = T[i]
<1> DEFINE same == {i \in Nat : S[i + 1] = T[i + 1]}
<1>1. 0 \in same
  BY DEF Opens
<1>2. ASSUME NEW i \in 1 .. q, i - 1 \in same PROVE i \in same
  <2>1. i \in 1 .. m /\ i \in 1 .. n /\ i \in Nat /\ i - 1 + 1 = i
    OBVIOUS
  <2>2. S[i] = T[i] /\ e[i] = d[i]
    BY <1>2, <2>1
  <2>3. /\ S[i + 1] = execute_enabled_step(p, S[i], e[i]).state
        /\ T[i + 1] = execute_enabled_step(p, T[i], d[i]).state
    BY <2>1 DEF Opens, PassesOn
  <2> QED BY <2>1, <2>2, <2>3
<1>3. q \in Nat
  OBVIOUS
<1>4. \A i \in 0 .. q : i \in same
  <2> HIDE DEF same
  <2> QED BY <1>1, <1>2, <1>3, CountUp
<1>5. ASSUME NEW i \in 1 .. q + 1 PROVE S[i] = T[i]
  <2>1. i - 1 \in 0 .. q /\ i - 1 + 1 = i
    BY <1>3
  <2>2. i - 1 \in same
    BY <1>4, <2>1
  <2> QED BY <2>1, <2>2
<1> QED BY <1>5

\* The first steps of an execution that goes on go on.
LEMMA OpensPrefix ==
    ASSUME NEW p, NEW model, NEW e, NEW S, NEW m \in Nat, Opens(p, model, e, S, m),
           NEW d, NEW T, NEW n \in 0 .. m,
           \A i \in 1 .. n : e[i] = d[i], \A i \in 1 .. n + 1 : S[i] = T[i]
    PROVE  Opens(p, model, d, T, n)
<1>1. n \in Nat /\ 1 \in 1 .. n + 1
  OBVIOUS
<1>2. ASSUME NEW i \in 1 .. n PROVE PassesOn(p, d, T, i)
  <2>1. /\ i \in 1 .. m /\ i \in Nat \ {0} /\ i \in 1 .. n + 1 /\ i + 1 \in 1 .. n + 1
        /\ \A j \in 1 .. i : j \in 1 .. n + 1
    BY <1>1
  <2>2. e[i] = d[i] /\ S[i] = T[i] /\ S[i + 1] = T[i + 1] /\ \A j \in 1 .. i : S[j] = T[j]
    BY <2>1
  <2>3. StopsWith(p, d[i], S, i) <=> StopsWith(p, d[i], T, i)
    BY <2>1, <2>2, StopsSame
  <2>4. PassesOn(p, e, S, i)
    BY <2>1 DEF Opens
  <2>5. PassesOn(p, d, T, i)
    BY <2>2, <2>3, <2>4 DEF PassesOn
  <2> QED BY <2>5
<1> QED BY <1>1, <1>2 DEF Opens

\* A complete execution with the first q steps of one that goes on is in its state, goes
\* on there, and is complete with the next step if this one stops there.
LEMMA CompleteFollows ==
    ASSUME NEW p, NEW model, NEW path, NEW S, NEW n \in Nat, Opens(p, model, path, S, n),
           NEW e, IsComplete(p, model, e),
           NEW q \in 0 .. n, q <= Len(e), \A i \in 1 .. q : e[i] = path[i]
    PROVE  /\ e \in Seq(ScheduleStep)
           /\ q = Len(e) => enabled_steps(p, S[q + 1]) = {}
           /\ q < Len(e) => /\ e[q + 1] \in enabled_steps(p, S[q + 1])
                            /\ StopsWith(p, e[q + 1], S, q + 1) => Len(e) = q + 1
<1>0. PICK m \in Nat : \E T : CompleteAt(p, model, e, T, m)
  BY DEF IsComplete
<1>1. PICK T : CompleteAt(p, model, e, T, m)
  BY <1>0
<1>2. /\ e \in Seq(ScheduleStep) /\ Len(e) \in Nat /\ Opens(p, model, e, T, m)
      /\ \/ Len(e) = m /\ enabled_steps(p, T[m + 1]) = {}
         \/ /\ Len(e) = m + 1 /\ e[m + 1] \in enabled_steps(p, T[m + 1])
            /\ StopsWith(p, e[m + 1], T, m + 1)
  BY <1>1 DEF CompleteAt
<1>3. q <= m
  <2> SUFFICES ASSUME ~(q <= m) PROVE FALSE
    OBVIOUS
  <2>0. q \in Nat /\ q <= n /\ m < q
    OBVIOUS
  <2>1. q = m + 1 /\ m + 1 \in 1 .. n /\ m + 1 \in 1 .. q /\ m \in 0 .. n /\ m <= q /\ m <= n
    <3>1. Len(e) = m \/ Len(e) = m + 1
      BY <1>2
    <3> QED BY <2>0, <3>1
  <2>2. StopsWith(p, e[m + 1], T, m + 1)
    BY <1>2, <2>1
  <2>3. ASSUME NEW i \in 1 .. m PROVE path[i] = e[i]
    <3>1. i \in 1 .. q
      BY <2>0
    <3> QED BY <3>1
  <2>4. \A i \in 1 .. m + 1 : S[i] = T[i]
    BY <1>2, <2>1, <2>3, SameStates
  <2>5. StopsWith(p, e[m + 1], S, m + 1)
    BY <2>2, <2>4, StopsSame
  <2>6. e[m + 1] = path[m + 1]
    BY <2>1
  <2>7. PassesOn(p, path, S, m + 1)
    BY <2>1 DEF Opens
  <2> QED BY <2>5, <2>6, <2>7 DEF PassesOn
<1>4. \A i \in 1 .. q + 1 : S[i] = T[i]
  <2>1. \A i \in 1 .. q : path[i] = e[i]
    OBVIOUS
  <2> QED BY <1>2, <1>3, <2>1, SameStates
<1>5. S[q + 1] = T[q + 1] /\ q + 1 \in Nat \ {0}
  BY <1>4
<1>6. ASSUME q = Len(e) PROVE enabled_steps(p, S[q + 1]) = {}
  <2>1. q = m
    BY <1>2, <1>3, <1>6
  <2> QED BY <1>2, <1>5, <1>6, <2>1
<1>7. ASSUME q < Len(e) PROVE e[q + 1] \in enabled_steps(p, S[q + 1])
  <2>1. CASE q = m
    BY <1>2, <1>5, <1>7, <2>1
  <2>2. CASE q # m
    <3>1. q + 1 \in 1 .. m
      BY <1>3, <2>2
    <3>2. PassesOn(p, e, T, q + 1)
      BY <1>2, <3>1 DEF Opens
    <3> QED BY <1>5, <3>2 DEF PassesOn
  <2> QED BY <2>1, <2>2
<1>8. ASSUME q < Len(e), StopsWith(p, e[q + 1], S, q + 1) PROVE Len(e) = q + 1
  <2>1. StopsWith(p, e[q + 1], T, q + 1)
    BY <1>4, <1>5, <1>8, StopsSame
  <2>2. CASE q = m
    BY <1>2, <1>8, <2>2
  <2>3. CASE q # m
    <3>1. q + 1 \in 1 .. m
      BY <1>3, <2>3
    <3>2. PassesOn(p, e, T, q + 1)
      BY <1>2, <3>1 DEF Opens
    <3> QED BY <2>1, <3>2 DEF PassesOn
  <2> QED BY <2>2, <2>3
<1> QED BY <1>2, <1>6, <1>7, <1>8

\* A schedule with the steps of an execution that goes on is complete there if nothing is
\* enabled, and with a step more if that one stops.
LEMMA CompletesHere ==
    ASSUME NEW p, NEW model, NEW path \in Seq(ScheduleStep), NEW S,
           Opens(p, model, path, S, Len(path))
    PROVE  /\ enabled_steps(p, S[Len(path) + 1]) = {} => IsComplete(p, model, path)
           /\ \A step \in ScheduleStep :
                 /\ step \in enabled_steps(p, S[Len(path) + 1])
                 /\ StopsWith(p, step, S, Len(path) + 1)
                 => IsComplete(p, model, Append(path, step))
<1>1. Len(path) \in Nat
  OBVIOUS
<1>2. ASSUME enabled_steps(p, S[Len(path) + 1]) = {} PROVE IsComplete(p, model, path)
  <2>1. CompleteAt(p, model, path, S, Len(path))
    BY <1>2 DEF CompleteAt
  <2> QED BY <1>1, <2>1 DEF IsComplete
<1>3. ASSUME NEW step \in ScheduleStep, step \in enabled_steps(p, S[Len(path) + 1]),
             StopsWith(p, step, S, Len(path) + 1)
      PROVE  IsComplete(p, model, Append(path, step))
  <2> DEFINE e == Append(path, step)
             m == Len(path)
  <2>1. /\ e \in Seq(ScheduleStep) /\ Len(e) = m + 1 /\ e[m + 1] = step
        /\ \A i \in 1 .. m : path[i] = e[i]
    OBVIOUS
  <2> HIDE DEF e
  <2>2. m \in Nat /\ m \in 0 .. m
    BY <1>1
  <2>3. Opens(p, model, e, S, m)
    <3> HIDE DEF m
    <3>1. \A i \in 1 .. m + 1 : S[i] = S[i]
      OBVIOUS
    <3>2. Opens(p, model, path, S, m)
      BY DEF m
    <3> QED BY <2>1, <2>2, <3>1, <3>2, OpensPrefix
  <2>4. CompleteAt(p, model, e, S, m)
    BY <1>3, <2>1, <2>3 DEF CompleteAt
  <2> QED BY <2>2, <2>4 DEF IsComplete, e
<1> QED BY <1>2, <1>3

\* The states of an execution that goes on, and its steps, which the step bound lets pass
\* and count up.
LEMMA OpensSound ==
    ASSUME NEW p \in Programs, NEW model \in MemoryModel, NEW e, NEW S, NEW m \in Nat,
           Opens(p, model, e, S, m)
    PROVE  /\ \A i \in 1 .. m + 1 : Sound(p, S[i])
           /\ \A i \in 1 .. m :
                 /\ e[i] \in ScheduleStep /\ e[i].thread \in ThreadId
                 /\ S[i].thread_steps \in Clock /\ ~(S[i].thread_steps[e[i].thread] >= StepBound)
                 /\ S[i + 1].thread_steps = Tick(S[i].thread_steps, e[i].thread)
<1>1. ASSUME NEW i \in 1 .. m, Sound(p, S[i])
      PROVE  /\ e[i] \in ScheduleStep /\ e[i].thread \in ThreadId
             /\ S[i].thread_steps \in Clock /\ ~(S[i].thread_steps[e[i].thread] >= StepBound)
             /\ S[i + 1].thread_steps = Tick(S[i].thread_steps, e[i].thread)
             /\ Sound(p, S[i + 1])
  <2>1. /\ e[i] \in enabled_steps(p, S[i]) /\ ~StopsWith(p, e[i], S, i)
        /\ S[i + 1] = execute_enabled_step(p, S[i], e[i]).state
    BY DEF Opens, PassesOn
  <2>2. e[i] \in ScheduleStep /\ e[i].thread \in ThreadId /\ GivenStep(p, S[i], e[i])
    BY <1>1, <2>1, EnabledTyped, EnabledGiven
  <2>3. Sound(p, S[i + 1]) /\ S[i + 1].thread_steps = Tick(S[i].thread_steps, e[i].thread)
    BY <1>1, <2>1, <2>2, StepSound
  <2>4. ~(S[i].thread_steps[e[i].thread] >= StepBound)
    BY <2>1 DEF StopsWith, step_bound_reached
  <2> QED BY <1>1, <2>2, <2>3, <2>4 DEF Sound
<1> DEFINE good == {i \in Nat : Sound(p, S[i + 1])}
<1>2. 0 \in good
  BY InitialSound DEF Opens
<1>3. ASSUME NEW i \in 1 .. m, i - 1 \in good PROVE i \in good
  <2>1. i - 1 + 1 = i /\ i \in Nat
    OBVIOUS
  <2>2. Sound(p, S[i])
    BY <1>3, <2>1
  <2> QED BY <1>1, <2>1, <2>2
<1>4. \A i \in 0 .. m : i \in good
  <2> HIDE DEF good
  <2> QED BY <1>2, <1>3, CountUp
<1>5. ASSUME NEW i \in 1 .. m + 1 PROVE Sound(p, S[i])
  <2>1. i - 1 \in 0 .. m /\ i - 1 + 1 = i
    OBVIOUS
  <2>2. i - 1 \in good
    BY <1>4, <2>1
  <2> QED BY <2>1, <2>2
<1>6. \A i \in 1 .. m : i \in 1 .. m + 1
  OBVIOUS
<1> QED BY <1>1, <1>5, <1>6

\* A thread that has taken a step has one more from then on.
LEMMA StepsCountUp ==
    ASSUME NEW p \in Programs, NEW model \in MemoryModel, NEW e, NEW S, NEW m \in Nat,
           Opens(p, model, e, S, m), NEW i \in 1 .. m, NEW j \in i + 1 .. m
    PROVE  S[j].thread_steps[e[i].thread] > S[i].thread_steps[e[i].thread]
<1> DEFINE t == e[i].thread
           c(k) == S[k].thread_steps[t]
           more == {d \in Nat : c(i + 1 + d) > c(i)}
           steps(k) == S[k].thread_steps
<1>1. /\ t \in ThreadId
      /\ \A k \in 1 .. m : /\ steps(k) \in Clock /\ e[k].thread \in ThreadId
                           /\ steps(k + 1) = Tick(steps(k), e[k].thread)
  BY OpensSound
<1>2. ASSUME NEW k \in 1 .. m
      PROVE  c(k) \in Nat /\ c(k + 1) >= c(k) /\ c(k + 1) \in Nat
             /\ (e[k].thread = t => c(k + 1) > c(k))
  <2> DEFINE a == steps(k)
             b == steps(k + 1)
             u == e[k].thread
  <2>1. a \in [ThreadId -> Nat] /\ u \in ThreadId /\ b = [a EXCEPT ![u] = @ + 1]
    BY <1>1 DEF Clock, Tick
  <2> HIDE DEF a, b, u, t
  <2>2. a[t] \in Nat /\ b[t] >= a[t] /\ b[t] \in Nat /\ (u = t => b[t] > a[t])
    BY <1>1, <2>1
  <2> QED BY <2>2 DEF a, b, u
<1> HIDE DEF c, t
<1>3. 0 \in more
  <2>1. e[i].thread = t /\ i + 1 + 0 = i + 1
    BY DEF t
  <2> QED BY <1>2, <2>1
<1>4. ASSUME NEW d \in 1 .. j - (i + 1), d - 1 \in more PROVE d \in more
  <2>1. i + 1 + (d - 1) \in 1 .. m /\ i + 1 + d = i + 1 + (d - 1) + 1 /\ d \in Nat
    OBVIOUS
  <2>2. c(i + 1 + (d - 1)) > c(i) /\ c(i) \in Nat
    BY <1>2, <1>4
  <2> DEFINE k == i + 1 + (d - 1)
  <2>3. c(k + 1) >= c(k) /\ c(k) \in Nat /\ c(k + 1) \in Nat
    BY <1>2, <2>1
  <2>4. c(k + 1) > c(i)
    BY <2>2, <2>3
  <2> QED BY <2>1, <2>4
<1>5. j - (i + 1) \in Nat /\ i + 1 + (j - (i + 1)) = j
  OBVIOUS
<1>6. j - (i + 1) \in more
  <2> HIDE DEF more
  <2> DEFINE n == j - (i + 1)
  <2>1. n \in Nat /\ \A d \in 1 .. n : d - 1 \in more => d \in more
    BY <1>4, <1>5
  <2> HIDE DEF n
  <2>2. \A d \in 0 .. n : d \in more
    BY <1>3, <2>1, CountUp
  <2> QED BY <2>1, <2>2 DEF n
<1>7. c(j) > c(i)
  BY <1>5, <1>6
<1> QED BY <1>7 DEF c, t

\* So an execution that goes on is no longer than the bounds of its threads together.
LEMMA OpensBounded ==
    ASSUME NEW p \in Programs, NEW model \in MemoryModel, NEW e, NEW S, NEW m \in Nat,
           Opens(p, model, e, S, m)
    PROVE  NumThreads * StepBound \in Nat /\ m <= NumThreads * StepBound
<1> DEFINE count == [i \in 1 .. m |-> <<e[i].thread, S[i].thread_steps[e[i].thread]>>]
           counts == 0 .. StepBound - 1
<1>1. /\ IsFiniteSet(ThreadId) /\ Cardinality(ThreadId) = NumThreads
      /\ IsFiniteSet(counts) /\ Cardinality(counts) = StepBound
  <2>1. /\ NumThreads - 1 \in Int /\ ~(0 > NumThreads - 1) /\ (NumThreads - 1) - 0 + 1 = NumThreads
        /\ StepBound - 1 \in Int /\ ~(0 > StepBound - 1) /\ (StepBound - 1) - 0 + 1 = StepBound
    BY SizesAssumption, SearchAssumption
  <2> QED BY <2>1, FS_Interval DEF ThreadId
<1>2. /\ IsFiniteSet(ThreadId \X counts)
      /\ Cardinality(ThreadId \X counts) = NumThreads * StepBound
  BY <1>1, FS_Product
<1>3. ASSUME NEW i \in 1 .. m PROVE count[i] \in ThreadId \X counts
  <2>1. /\ e[i].thread \in ThreadId /\ S[i].thread_steps \in [ThreadId -> Nat]
        /\ ~(S[i].thread_steps[e[i].thread] >= StepBound)
    BY OpensSound DEF Clock
  <2>2. S[i].thread_steps[e[i].thread] \in counts
    BY <2>1, SearchAssumption
  <2> QED BY <2>1, <2>2
<1>4. ASSUME NEW i \in 1 .. m, NEW j \in 1 .. m, i < j PROVE count[i] # count[j]
  <2>1. j \in i + 1 .. m
    BY <1>4
  <2>2. S[j].thread_steps[e[i].thread] > S[i].thread_steps[e[i].thread]
    BY <2>1, StepsCountUp
  <2>3. S[i].thread_steps[e[i].thread] \in Nat
    BY OpensSound DEF Clock
  <2>4. e[j].thread = e[i].thread =>
           S[j].thread_steps[e[j].thread] # S[i].thread_steps[e[i].thread]
    BY <2>2, <2>3
  <2> QED BY <2>4
<1>5. count \in Injection(1 .. m, ThreadId \X counts)
  <2>1. count \in [1 .. m -> ThreadId \X counts]
    BY <1>3
  <2> HIDE DEF count, counts
  <2>2. ASSUME NEW i \in 1 .. m, NEW j \in 1 .. m, count[i] = count[j] PROVE i = j
    <3>1. i < j \/ j < i \/ i = j
      OBVIOUS
    <3> QED BY <1>4, <2>2, <3>1
  <2> QED BY <2>1, <2>2 DEF Injection, IsInjective
<1>6. Cardinality(1 .. m) = m
  <2>1. 1 > m => m = 0
    OBVIOUS
  <2>2. Cardinality(1 .. m) = IF 1 > m THEN 0 ELSE m - 1 + 1
    BY FS_Interval
  <2> QED BY <2>1, <2>2
<1> HIDE DEF count, counts
<1>7. Cardinality(1 .. m) <= Cardinality(ThreadId \X counts)
  BY <1>2, <1>5, FS_Injection
<1>8. Cardinality(ThreadId \X counts) \in Nat
  BY <1>2, FS_CardinalityType
<1> QED BY <1>2, <1>6, <1>7, <1>8

-----------------------------------------------------------------------------
(***************************************************************************)
(* Executions has exactly the complete ones.                               *)
(***************************************************************************)
\* x is a record of the execution of n steps that it goes on after.
IsOpen(x, n) ==
    /\ x.schedule \in Seq(ScheduleStep) /\ Len(x.schedule) = n
    /\ IsSeq(x.states) /\ Len(x.states) = n + 1
    /\ Opens(program, memory_model, x.schedule, x.states, n)

\* What Executions has after n rounds.
HasAll(r, n) ==
    /\ \A x \in r.open : IsOpen(x, n)
    /\ \A e \in Seq(ScheduleStep) : \A states :
          Len(e) = n /\ Opens(program, memory_model, e, states, n) =>
              \E x \in r.open : x.schedule = e
    /\ \A e : e \in r.complete <=>
                 \E m \in 0 .. n - 1 : \E states : CompleteAt(program, memory_model, e, states, m)

LEMMA NoStepHasAll ==
    ASSUME program \in Programs, memory_model \in MemoryModel
    PROVE  HasAll(NoStep, 0)
<1> DEFINE s == initial_state(program, memory_model)
           none == <<>>
           x == [schedule |-> none, complete |-> FALSE, states |-> <<s>>]
<1>1. NoStep.open = {x} /\ NoStep.complete = {}
  BY DEF NoStep
<1>2. x.schedule = none /\ x.states = <<s>>
  OBVIOUS
<1>3. none \in Seq(ScheduleStep) /\ Len(none) = 0 /\ \A e \in Seq(ScheduleStep) : Len(e) = 0 => e = none
  BY EmptySeq
<1>4. IsSeq(<<s>>) /\ Len(<<s>>) = 1 /\ <<s>>[1] = s
  <2> HIDE DEF s
  <2>1. <<s>> \in Seq({s}) /\ Len(<<s>>) = 1 /\ <<s>>[1] = s
    OBVIOUS
  <2> QED BY <2>1 DEF IsSeq
<1> DEFINE one == <<s>>
<1>5. one[1] = s /\ IsSeq(one) /\ Len(one) = 1 /\ x.states = one
  BY <1>2, <1>4
<1> HIDE DEF x, none, one
<1>6. Opens(program, memory_model, none, one, 0)
  BY <1>5 DEF Opens
<1>7. IsOpen(x, 0)
  BY <1>2, <1>3, <1>5, <1>6 DEF IsOpen
<1>8. \A m : m \notin 0 .. 0 - 1
  OBVIOUS
<1> QED BY <1>1, <1>2, <1>3, <1>7, <1>8 DEF HasAll

\* The last state of an open execution, and a step more.
LEMMA LongerIs ==
    ASSUME NEW n \in Nat, NEW x, IsOpen(x, n), NEW step \in ScheduleStep
    PROVE  LET y == Longer(x, step)
               out == execute_enabled_step(program, x.states[n + 1], step)
           IN  /\ Last(x.states) = x.states[n + 1]
               /\ y.schedule = Append(x.schedule, step)
               /\ y.complete <=> StopsWith(program, step, x.states, n + 1)
               /\ y.states = Append(x.states, out.state)
<1> DEFINE y == Longer(x, step)
           s == x.states[n + 1]
           out == execute_enabled_step(program, s, step)
           stops == step_bound_reached(s, step.thread) \/ Closes(x.states, out)
<1>1. Last(x.states) = s /\ DOMAIN x.states = 1 .. n + 1
  BY SeqLength DEF IsOpen, Last
<1>2. y = [schedule |-> Append(x.schedule, step), states |-> Append(x.states, out.state),
           complete |-> stops]
  BY <1>1 DEF Longer
<1>3. stops <=> StopsWith(program, step, x.states, n + 1)
  <2> HIDE DEF out
  <2> QED BY <1>1 DEF StopsWith, Closes, out
<1> DEFINE k2 == Append(x.schedule, step)
           S2 == Append(x.states, out.state)
<1> HIDE DEF stops, k2, S2, y
<1>4. y = [schedule |-> k2, states |-> S2, complete |-> stops]
  BY <1>2 DEF k2, S2
<1>5. y.schedule = k2 /\ y.states = S2
  BY <1>4
<1>6. y.complete = stops
  BY <1>4, Zenon
<1>7. y.complete <=> StopsWith(program, step, x.states, n + 1)
  BY <1>3, <1>6
<1> QED BY <1>1, <1>5, <1>7 DEF y, k2, S2

\* An open execution with a step more that does not stop is open.
LEMMA LongerOpen ==
    ASSUME program \in Programs, memory_model \in MemoryModel,
           NEW n \in Nat, NEW x, IsOpen(x, n), NEW step \in enabled_steps(program, x.states[n + 1]),
           ~StopsWith(program, step, x.states, n + 1)
    PROVE  step \in ScheduleStep /\ IsOpen(Longer(x, step), n + 1)
<1> DEFINE y == Longer(x, step)
           k == x.schedule
           S == x.states
           out == execute_enabled_step(program, S[n + 1], step)
           k2 == Append(k, step)
           S2 == Append(S, out.state)
<1>1. /\ k \in Seq(ScheduleStep) /\ Len(k) = n /\ IsSeq(S) /\ Len(S) = n + 1
      /\ Opens(program, memory_model, k, S, n) /\ n + 1 \in 1 .. n + 1
  BY DEF IsOpen
<1>2. step \in ScheduleStep
  BY <1>1, OpensSound, EnabledTyped
<1>3. y.schedule = k2 /\ y.states = S2
  BY <1>2, LongerIs
<1>4. /\ k2 \in Seq(ScheduleStep) /\ Len(k2) = n + 1 /\ k2[n + 1] = step
      /\ \A i \in 1 .. n : k[i] = k2[i]
  BY <1>1, <1>2
<1>5. /\ IsSeq(S2) /\ Len(S2) = n + 2 /\ S2[n + 2] = out.state
      /\ \A i \in 1 .. n + 1 : S[i] = S2[i]
  <2> DEFINE s == out.state
  <2>1. n + 1 + 1 = n + 2
    OBVIOUS
  <2> HIDE DEF s
  <2> QED BY <1>1, <2>1, SeqAppend
<1> HIDE DEF y, k, S, k2, S2
<1>6. Opens(program, memory_model, k2, S2, n)
  <2>1. n \in 0 .. n
    OBVIOUS
  <2> QED BY <1>1, <1>4, <1>5, <2>1, OpensPrefix
<1>7. PassesOn(program, k2, S2, n + 1)
  <2>1. ~StopsWith(program, step, S2, n + 1)
    <3>1. n + 1 \in Nat \ {0}
      OBVIOUS
    <3>2. ~StopsWith(program, step, S, n + 1)
      BY DEF S
    <3> QED BY <1>5, <3>1, <3>2, StopsSame
  <2>2. S2[n + 1] = S[n + 1] /\ n + 1 + 1 = n + 2 /\ step \in enabled_steps(program, S[n + 1])
    BY <1>5 DEF S
  <2> QED BY <1>4, <1>5, <2>1, <2>2 DEF PassesOn
<1>8. Opens(program, memory_model, k2, S2, n + 1)
  <2>1. \A i \in 1 .. n + 1 : i \in 1 .. n \/ i = n + 1
    OBVIOUS
  <2> QED BY <1>6, <1>7, <2>1 DEF Opens
<1>9. n + 1 + 1 = n + 2
  OBVIOUS
<1>10. IsOpen(y, n + 1)
  BY <1>3, <1>4, <1>5, <1>8, <1>9 DEF IsOpen, y
<1> QED BY <1>2, <1>10 DEF y

\* e is complete when the executions of r have taken one step more.
Finishes(r, e) ==
    \/ e \in r.complete
    \/ \E x \in r.open : enabled_steps(program, Last(x.states)) = {} /\ e = x.schedule
    \/ \E x \in r.open : \E step \in enabled_steps(program, Last(x.states)) :
          Longer(x, step).complete /\ e = Longer(x, step).schedule

\* The elements of a round.
LEMMA OneStepMoreIs ==
    ASSUME NEW r
    PROVE  /\ \A y : y \in OneStepMore(r).open <=>
                 \E x \in r.open : \E step \in enabled_steps(program, Last(x.states)) :
                     y = Longer(x, step) /\ ~y.complete
           /\ \A e : e \in OneStepMore(r).complete <=> Finishes(r, e)
<1> DEFINE stuck == {x \in r.open : enabled_steps(program, Last(x.states)) = {}}
           longer == UNION {{Longer(x, step) : step \in enabled_steps(program, Last(x.states))} :
                              x \in r.open}
           open == {y \in longer : ~y.complete}
           complete == r.complete \cup {y.schedule : y \in stuck \cup {l \in longer : l.complete}}
<1>1. OneStepMore(r) = [open |-> open, complete |-> complete]
  BY DEF OneStepMore
<1>2. \A y : y \in longer <=>
         \E x \in r.open : \E step \in enabled_steps(program, Last(x.states)) : y = Longer(x, step)
  OBVIOUS
<1>3. \A y : y \in open <=> y \in longer /\ ~y.complete
  OBVIOUS
<1>4. \A e : e \in complete <=> \/ e \in r.complete
                                \/ \E x \in stuck : e = x.schedule
                                \/ \E y \in longer : y.complete /\ e = y.schedule
  <2> HIDE DEF stuck, longer
  <2> QED OBVIOUS
<1>5. \A x : x \in stuck <=> x \in r.open /\ enabled_steps(program, Last(x.states)) = {}
  OBVIOUS
<1> HIDE DEF stuck, longer, open, complete
<1>6. OneStepMore(r).open = open /\ OneStepMore(r).complete = complete
  BY <1>1
<1> QED BY <1>2, <1>3, <1>4, <1>5, <1>6 DEF Finishes

LEMMA RoundHasAll ==
    ASSUME program \in Programs, memory_model \in MemoryModel,
           NEW n \in Nat, NEW r, HasAll(r, n)
    PROVE  HasAll(OneStepMore(r), n + 1)
<1> DEFINE more == OneStepMore(r)
           At_(m, e) == \E states : CompleteAt(program, memory_model, e, states, m)
<1>1. ASSUME NEW x \in r.open
      PROVE  /\ IsOpen(x, n) /\ Last(x.states) = x.states[n + 1]
             /\ enabled_steps(program, Last(x.states)) \subseteq ScheduleStep
             /\ x.schedule \in Seq(ScheduleStep) /\ Len(x.schedule) = n
             /\ Opens(program, memory_model, x.schedule, x.states, n)
  <2>1. IsOpen(x, n)
    BY DEF HasAll
  <2>2. IsSeq(x.states) /\ Len(x.states) = n + 1 /\ n + 1 \in 1 .. n + 1
        /\ Opens(program, memory_model, x.schedule, x.states, n)
        /\ x.schedule \in Seq(ScheduleStep) /\ Len(x.schedule) = n
    BY <2>1 DEF IsOpen
  <2>3. Sound(program, x.states[n + 1]) /\ Last(x.states) = x.states[n + 1]
    BY <2>2, OpensSound DEF Last
  <2>4. enabled_steps(program, Last(x.states)) \subseteq ScheduleStep
    BY <2>3, EnabledTyped
  <2> QED BY <2>1, <2>2, <2>3, <2>4
<1>2. ASSUME NEW x \in r.open, NEW step \in enabled_steps(program, Last(x.states))
      PROVE  /\ Longer(x, step).schedule = Append(x.schedule, step)
             /\ Longer(x, step).complete <=> StopsWith(program, step, x.states, n + 1)
             /\ ~Longer(x, step).complete => IsOpen(Longer(x, step), n + 1)
  <2>1. IsOpen(x, n) /\ step \in ScheduleStep /\ step \in enabled_steps(program, x.states[n + 1])
    BY <1>1, <1>2
  <2>2. /\ Longer(x, step).schedule = Append(x.schedule, step)
        /\ Longer(x, step).complete <=> StopsWith(program, step, x.states, n + 1)
    BY <2>1, LongerIs
  <2> QED BY <2>1, <2>2, LongerOpen
<1>3. \A y \in more.open : IsOpen(y, n + 1)
  BY <1>2, OneStepMoreIs
<1>4. ASSUME NEW e \in Seq(ScheduleStep), NEW T, NEW m, m = n,
             Opens(program, memory_model, e, T, n), Len(e) \in {n, n + 1}
      PROVE  \E x \in r.open : /\ x.states[n + 1] = T[n + 1]
                               /\ \A i \in 1 .. n + 1 : x.states[i] = T[i]
                               /\ Len(e) = n => e = x.schedule
                               /\ Len(e) = n + 1 => e = Append(x.schedule, e[n + 1])
  <2> DEFINE k == SubSeq(e, 1, n)
  <2>1. Len(e) \in Nat /\ n <= Len(e) /\ n \in 0 .. Len(e) /\ n \in 0 .. n
    BY <1>4
  <2>2. k \in Seq(ScheduleStep) /\ Len(k) = n /\ \A i \in 1 .. n : e[i] = k[i]
    BY <2>1
  <2>3. Len(e) = n => e = k
    BY <2>1, SubSeqFull
  <2>4. Len(e) = n + 1 => e = Append(k, e[n + 1])
    <3> SUFFICES ASSUME Len(e) = n + 1 PROVE e = Append(k, e[n + 1])
      OBVIOUS
    <3> HIDE DEF k
    <3>1. e[n + 1] \in ScheduleStep
      BY <2>1
    <3> DEFINE d == Append(k, e[n + 1])
    <3>2. d \in Seq(ScheduleStep) /\ Len(d) = n + 1 /\ d[n + 1] = e[n + 1]
          /\ \A i \in 1 .. n : d[i] = k[i]
      BY <2>2, <3>1
    <3> HIDE DEF d
    <3>3. \A i \in 1 .. n + 1 : i \in 1 .. n \/ i = n + 1
      OBVIOUS
    <3>4. \A i \in 1 .. n + 1 : d[i] = e[i]
      BY <2>2, <3>2, <3>3
    <3>5. d = e
      BY <3>2, <3>4, SeqEqual
    <3> QED BY <3>5 DEF d
  <2> HIDE DEF k
  <2>5. Opens(program, memory_model, k, T, n)
    <3>1. \A i \in 1 .. n + 1 : T[i] = T[i]
      OBVIOUS
    <3> QED BY <1>4, <2>1, <2>2, <3>1, OpensPrefix
  <2>6. PICK x \in r.open : x.schedule = k
    BY <2>2, <2>5 DEF HasAll
  <2>7. Opens(program, memory_model, k, x.states, n)
    BY <1>1, <2>6
  <2>8. \A i \in 1 .. n + 1 : x.states[i] = T[i]
    <3>1. n <= n /\ \A i \in 1 .. n : k[i] = k[i]
      OBVIOUS
    <3> QED BY <2>1, <2>5, <2>7, <3>1, SameStates
  <2>9. n + 1 \in 1 .. n + 1
    OBVIOUS
  <2> QED BY <2>3, <2>4, <2>6, <2>8, <2>9
<1>5. ASSUME NEW e \in Seq(ScheduleStep), NEW T, Len(e) = n + 1,
             Opens(program, memory_model, e, T, n + 1)
      PROVE  \E y \in more.open : y.schedule = e
  <2>1. Opens(program, memory_model, e, T, n)
    <3>1. \A i \in 1 .. n : i \in 1 .. n + 1
      OBVIOUS
    <3> QED BY <1>5, <3>1 DEF Opens
  <2>2. PICK x \in r.open : /\ x.states[n + 1] = T[n + 1]
                            /\ \A i \in 1 .. n + 1 : x.states[i] = T[i]
                            /\ e = Append(x.schedule, e[n + 1])
    BY <1>4, <1>5, <2>1
  <2> DEFINE step == e[n + 1]
             y == Longer(x, step)
  <2>3. step \in enabled_steps(program, T[n + 1]) /\ ~StopsWith(program, step, T, n + 1)
    <3>1. n + 1 \in 1 .. n + 1
      OBVIOUS
    <3>2. PassesOn(program, e, T, n + 1)
      BY <1>5, <3>1 DEF Opens
    <3> QED BY <3>2 DEF PassesOn
  <2> HIDE DEF step
  <2>4. step \in enabled_steps(program, Last(x.states))
    BY <1>1, <2>2, <2>3
  <2>5. ~StopsWith(program, step, x.states, n + 1)
    <3>1. n + 1 \in Nat \ {0}
      OBVIOUS
    <3> QED BY <2>2, <2>3, <3>1, StopsSame
  <2>6. y.schedule = e /\ ~y.complete
    BY <1>2, <2>2, <2>4, <2>5 DEF step
  <2> HIDE DEF y
  <2>7. y \in more.open
    BY <2>4, <2>6, OneStepMoreIs DEF y
  <2> QED BY <2>6, <2>7
<1>6. ASSUME NEW e, e \in more.complete PROVE \E m \in 0 .. n : At_(m, e)
  <2>1. CASE e \in r.complete
    <3>1. PICK m \in 0 .. n - 1 : At_(m, e)
      BY <2>1 DEF HasAll
    <3>2. m \in 0 .. n
      OBVIOUS
    <3> QED BY <3>1, <3>2
  <2>2. ASSUME NEW x \in r.open, enabled_steps(program, Last(x.states)) = {}, e = x.schedule
        PROVE  At_(n, e)
    <3>1. CompleteAt(program, memory_model, e, x.states, n)
      BY <1>1, <2>2 DEF CompleteAt
    <3> QED BY <3>1
  <2>3. ASSUME NEW x \in r.open, NEW step \in enabled_steps(program, Last(x.states)),
               Longer(x, step).complete, e = Longer(x, step).schedule
        PROVE  At_(n, e)
    <3> DEFINE k == x.schedule
    <3>1. /\ k \in Seq(ScheduleStep) /\ Len(k) = n /\ step \in ScheduleStep
          /\ e = Append(k, step) /\ StopsWith(program, step, x.states, n + 1)
          /\ step \in enabled_steps(program, x.states[n + 1])
          /\ Opens(program, memory_model, k, x.states, n)
      BY <1>1, <1>2, <2>3
    <3> HIDE DEF k
    <3>2. /\ e \in Seq(ScheduleStep) /\ Len(e) = n + 1 /\ e[n + 1] = step
          /\ \A i \in 1 .. n : k[i] = e[i]
      BY <3>1
    <3>3. Opens(program, memory_model, e, x.states, n)
      <4>1. n \in 0 .. n /\ \A i \in 1 .. n + 1 : x.states[i] = x.states[i]
        OBVIOUS
      <4> QED BY <3>1, <3>2, <4>1, OpensPrefix
    <3>4. CompleteAt(program, memory_model, e, x.states, n)
      BY <3>1, <3>2, <3>3 DEF CompleteAt
    <3> QED BY <3>4
  <2>4. n \in 0 .. n
    OBVIOUS
  <2>5. Finishes(r, e)
    <3>1. e \in OneStepMore(r).complete
      BY <1>6
    <3> QED BY <3>1, OneStepMoreIs
  <2> HIDE DEF At_
  <2> QED BY <2>1, <2>2, <2>3, <2>4, <2>5 DEF Finishes
<1>7. ASSUME NEW e, NEW m \in 0 .. n, At_(m, e) PROVE e \in more.complete
  <2>1. CASE m \in 0 .. n - 1
    <3>1. e \in r.complete
      BY <1>7, <2>1 DEF HasAll
    <3> QED BY <3>1, OneStepMoreIs DEF Finishes
  <2>2. CASE m = n
    <3>1. PICK T : CompleteAt(program, memory_model, e, T, n)
      BY <1>7, <2>2
    <3>2. /\ e \in Seq(ScheduleStep) /\ Opens(program, memory_model, e, T, n)
          /\ \/ Len(e) = n /\ enabled_steps(program, T[n + 1]) = {}
             \/ /\ Len(e) = n + 1 /\ e[n + 1] \in enabled_steps(program, T[n + 1])
                /\ StopsWith(program, e[n + 1], T, n + 1)
      BY <3>1 DEF CompleteAt
    <3>3. PICK x \in r.open : /\ x.states[n + 1] = T[n + 1]
                              /\ \A i \in 1 .. n + 1 : x.states[i] = T[i]
                              /\ Len(e) = n => e = x.schedule
                              /\ Len(e) = n + 1 => e = Append(x.schedule, e[n + 1])
      BY <1>4, <3>2
    <3>4. Last(x.states) = T[n + 1]
      BY <1>1, <3>3
    <3>5. CASE Len(e) = n /\ enabled_steps(program, T[n + 1]) = {}
      BY <3>3, <3>4, <3>5, OneStepMoreIs DEF Finishes
    <3>6. CASE /\ Len(e) = n + 1 /\ e[n + 1] \in enabled_steps(program, T[n + 1])
               /\ StopsWith(program, e[n + 1], T, n + 1)
      <4> DEFINE step == e[n + 1]
      <4>1. step \in enabled_steps(program, Last(x.states)) /\ e = Append(x.schedule, step)
        BY <3>3, <3>4, <3>6
      <4>2. StopsWith(program, step, x.states, n + 1)
        <5>1. n + 1 \in Nat \ {0}
          OBVIOUS
        <5> QED BY <3>3, <3>6, <5>1, StopsSame
      <4> HIDE DEF step
      <4> DEFINE y == Longer(x, step)
      <4>3. y.complete /\ e = y.schedule
        BY <1>2, <4>1, <4>2
      <4> HIDE DEF y
      <4>4. Finishes(r, e)
        BY <4>1, <4>3, Zenon DEF y, Finishes
      <4> QED BY <4>4, OneStepMoreIs
    <3> QED BY <3>2, <3>5, <3>6
  <2>3. m \in 0 .. n - 1 \/ m = n
    OBVIOUS
  <2> QED BY <2>1, <2>2, <2>3
<1>8. n + 1 - 1 = n
  OBVIOUS
<1> HIDE DEF more
<1>9. \A e : e \in more.complete <=> \E m \in 0 .. n + 1 - 1 : At_(m, e)
  <2> HIDE DEF At_
  <2> QED BY <1>6, <1>7, <1>8
<1>10. \A e \in Seq(ScheduleStep) : \A T :
          Len(e) = n + 1 /\ Opens(program, memory_model, e, T, n + 1) =>
              \E y \in more.open : y.schedule = e
  BY <1>5
<1>11. HasAll(more, n + 1)
  BY <1>3, <1>9, <1>10 DEF HasAll
<1> QED BY <1>11 DEF more

IsRounds(f, last) ==
    f = [n \in 0 .. last |-> IF n = 0 THEN NoStep ELSE OneStepMore(f[n - 1])]

\* There are rounds: those up to n are continued by another one.
LEMMA RoundsExist ==
    ASSUME NEW last \in Nat
    PROVE  \E f : IsRounds(f, last)
<1> DEFINE done == {n \in Nat : \E f : IsRounds(f, n)}
<1>1. 0 \in done
  <2> DEFINE f == [n \in 0 .. 0 |-> NoStep]
  <2>1. IsRounds(f, 0)
    BY DEF IsRounds
  <2> HIDE DEF f
  <2> QED BY <2>1
<1>2. ASSUME NEW n \in 1 .. last, n - 1 \in done PROVE n \in done
  <2>1. PICK f : IsRounds(f, n - 1)
    BY <1>2
  <2> DEFINE g == [i \in 0 .. n |-> IF i = 0 THEN NoStep ELSE OneStepMore(f[i - 1])]
  <2>2. \A i \in 0 .. n - 1 : g[i] = f[i]
    <3>1. f = [i \in 0 .. n - 1 |-> IF i = 0 THEN NoStep ELSE OneStepMore(f[i - 1])]
      BY <2>1 DEF IsRounds
    <3>2. \A i \in 0 .. n - 1 : f[i] = IF i = 0 THEN NoStep ELSE OneStepMore(f[i - 1])
      BY <3>1
    <3>3. \A i \in 0 .. n - 1 : i \in 0 .. n
      OBVIOUS
    <3> QED BY <3>2, <3>3
  <2>3. \A i \in 0 .. n : i # 0 => i - 1 \in 0 .. n - 1
    OBVIOUS
  <2>4. \A i \in 0 .. n : i # 0 => f[i - 1] = g[i - 1]
    BY <2>2, <2>3
  <2>5. IsRounds(g, n)
    <3>1. g = [i \in 0 .. n |-> IF i = 0 THEN NoStep ELSE OneStepMore(g[i - 1])]
      BY <2>4
    <3> QED BY <3>1 DEF IsRounds
  <2> HIDE DEF g
  <2> QED BY <2>5
<1>3. last \in 0 .. last
  OBVIOUS
<1> HIDE DEF done
<1>4. last \in done
  BY <1>1, <1>2, <1>3, CountUp
<1> QED BY <1>4 DEF done

\* Executions are the complete executions.
LEMMA ExecutionsAre ==
    ASSUME program \in Programs, memory_model \in MemoryModel
    PROVE  \A e : e \in Executions <=> IsComplete(program, memory_model, e)
<1> DEFINE last == NumThreads * StepBound + 1
           Q(f) == f = [n \in 0 .. last |-> IF n = 0 THEN NoStep ELSE OneStepMore(f[n - 1])]
           rounds == CHOOSE f : Q(f)
<1>1. NumThreads * StepBound \in Nat
  <2> DEFINE s == initial_state(program, memory_model)
             S == [i \in 1 .. 1 |-> s]
             none == <<>>
  <2>1. Opens(program, memory_model, none, S, 0)
    BY DEF Opens
  <2> HIDE DEF S, none
  <2> QED BY <2>1, OpensBounded
<1>2. last \in Nat /\ last - 1 = NumThreads * StepBound
  BY <1>1
<1>3. Executions = rounds[last].complete
  BY DEF Executions
<1>4. Q(rounds)
  <2>1. PICK f : IsRounds(f, last)
    <3> HIDE DEF last
    <3> QED BY <1>2, RoundsExist
  <2>2. Q(f)
    BY <2>1 DEF IsRounds
  <2> HIDE DEF Q
  <2> QED BY <2>2
<1> HIDE DEF rounds, last
<1>5. /\ rounds[0] = NoStep
      /\ \A n \in 1 .. last : rounds[n] = OneStepMore(rounds[n - 1])
  BY <1>2, <1>4
<1> DEFINE good == {n \in Nat : HasAll(rounds[n], n)}
<1>6. 0 \in good
  BY <1>5, NoStepHasAll
<1>7. ASSUME NEW n \in 1 .. last, n - 1 \in good PROVE n \in good
  <2>1. n - 1 \in Nat /\ n - 1 + 1 = n /\ n \in Nat
    BY <1>2
  <2>2. HasAll(rounds[n - 1], n - 1)
    BY <1>7
  <2> DEFINE r == rounds[n - 1]
             k == n - 1
  <2>3. HasAll(OneStepMore(r), k + 1)
    <3> HIDE DEF r, k
    <3>1. HasAll(r, k) /\ k \in Nat
      BY <2>1, <2>2 DEF r, k
    <3> QED BY <3>1, RoundHasAll
  <2> QED BY <1>5, <2>1, <2>3
<1> HIDE DEF Q
<1>8. HasAll(rounds[last], last)
  <2>1. last \in 0 .. last
    BY <1>2
  <2> HIDE DEF good
  <2>2. last \in good
    BY <1>2, <1>6, <1>7, <2>1, CountUp
  <2> QED BY <2>2 DEF good
<1>9. \A e : e \in Executions <=> \E m \in 0 .. last - 1 : \E states :
                                     CompleteAt(program, memory_model, e, states, m)
  BY <1>3, <1>8 DEF HasAll
<1>10. ASSUME NEW e, NEW m \in Nat, NEW states, CompleteAt(program, memory_model, e, states, m)
       PROVE  m \in 0 .. last - 1
  <2>1. m <= NumThreads * StepBound
    BY <1>10, OpensBounded DEF CompleteAt
  <2> QED BY <1>1, <1>2, <2>1
<1>11. \A m \in 0 .. last - 1 : m \in Nat
  OBVIOUS
<1> QED BY <1>9, <1>10, <1>11 DEF IsComplete

-----------------------------------------------------------------------------
(***************************************************************************)
(* The order of the search: what it has counted is behind its path, what   *)
(* its frames have left is ahead of it.                                    *)
(***************************************************************************)
\* c and the path have the same first k - 1 steps, and c has another.
Reaches(c, path, k) == /\ IsSeq(c) /\ k <= Len(c)
                       /\ \A i \in 1 .. k - 1 : c[i] = path[i]

Continues(e, path) == IsSeq(e) /\ Len(path) <= Len(e) /\ \A i \in 1 .. Len(path) : e[i] = path[i]

Behind(c, path, rest) ==
    \E k \in 1 .. Len(path) + 1 :
        /\ Reaches(c, path, k)
        /\ \A x \in rest[k] : StepLess(c[k], x)
        /\ k <= Len(path) => StepLess(c[k], path[k])

Ahead(path, rest) == \A k \in 1 .. Len(path) : \A x \in rest[k] : StepLess(path[k], x)

Awaits(e, path, rest) ==
    \E k \in 1 .. Len(path) + 1 : Reaches(e, path, k) /\ e[k] \in rest[k]

\* What is behind the path comes before all that is awaited.
LEMMA BehindAwaited ==
    ASSUME NEW path, NEW rest, Len(path) \in Nat, Ahead(path, rest),
           NEW c, Behind(c, path, rest), NEW e, Awaits(e, path, rest)
    PROVE  Earlier(c, e)
<1>1. PICK k \in 1 .. Len(path) + 1 : /\ Reaches(c, path, k)
                                      /\ \A x \in rest[k] : StepLess(c[k], x)
                                      /\ k <= Len(path) => StepLess(c[k], path[k])
  BY DEF Behind
<1>2. PICK l \in 1 .. Len(path) + 1 : Reaches(e, path, l) /\ e[l] \in rest[l]
  BY DEF Awaits
<1>3. /\ Len(c) \in Nat /\ DOMAIN c = 1 .. Len(c) /\ k <= Len(c)
      /\ \A i \in 1 .. k - 1 : c[i] = path[i]
      /\ Len(e) \in Nat /\ DOMAIN e = 1 .. Len(e) /\ l <= Len(e)
      /\ \A i \in 1 .. l - 1 : e[i] = path[i]
  BY <1>1, <1>2, SeqLength DEF Reaches
<1>4. k \in Nat /\ l \in Nat
  OBVIOUS
<1>5. ASSUME NEW i \in 1 .. k, i <= l, StepLess(c[i], e[i]) PROVE Earlier(c, e)
  <2>1. i \in DOMAIN c \cap DOMAIN e
    BY <1>3, <1>4, <1>5
  <2>2. \A j \in 1 .. i - 1 : j \in 1 .. k - 1 /\ j \in 1 .. l - 1
    BY <1>4, <1>5
  <2>3. \A j \in 1 .. i - 1 : c[j] = e[j]
    BY <1>3, <2>2
  <2> QED BY <1>5, <2>1, <2>3 DEF Earlier
<1>6. CASE k = l
  <2>1. StepLess(c[k], e[k]) /\ k \in 1 .. k
    BY <1>1, <1>2, <1>4, <1>6
  <2> QED BY <1>4, <1>5, <1>6, <2>1
<1>7. CASE k < l
  <2>1. k <= Len(path) /\ k \in 1 .. l - 1 /\ k \in 1 .. k
    BY <1>4, <1>7
  <2>2. StepLess(c[k], e[k])
    BY <1>1, <1>3, <2>1
  <2> QED BY <1>4, <1>5, <1>7, <2>1, <2>2
<1>8. CASE l < k
  <2>1. l \in 1 .. Len(path) /\ l \in 1 .. k - 1 /\ l \in 1 .. k
    BY <1>4, <1>8
  <2>2. StepLess(path[l], e[l])
    BY <1>2, <2>1 DEF Ahead
  <2>3. StepLess(c[l], e[l])
    BY <1>3, <2>1, <2>2
  <2> QED BY <1>4, <1>5, <1>8, <2>1, <2>3
<1> QED BY <1>4, <1>6, <1>7, <1>8

\* It comes before the path itself, unless it goes on after it.
LEMMA BehindPath ==
    ASSUME NEW path, NEW rest, IsSeq(path), NEW c, Behind(c, path, rest),
           ~Reaches(c, path, Len(path) + 1)
    PROVE  Earlier(c, path)
<1>1. PICK k \in 1 .. Len(path) + 1 : /\ Reaches(c, path, k)
                                      /\ k <= Len(path) => StepLess(c[k], path[k])
  BY DEF Behind
<1>2. /\ Len(c) \in Nat /\ DOMAIN c = 1 .. Len(c) /\ k <= Len(c)
      /\ \A i \in 1 .. k - 1 : c[i] = path[i]
      /\ Len(path) \in Nat /\ DOMAIN path = 1 .. Len(path)
  BY <1>1, SeqLength DEF Reaches
<1>3. k # Len(path) + 1
  BY <1>1
<1>4. k <= Len(path) /\ k \in DOMAIN c \cap DOMAIN path
  BY <1>2, <1>3
<1> QED BY <1>1, <1>2, <1>4 DEF Earlier

\* The last frame takes its least step.
LEMMA OrderTake ==
    ASSUME NEW path \in Seq(ScheduleStep), NEW rest, Ahead(path, rest),
           NEW step \in ScheduleStep, step \in rest[Len(path) + 1],
           \A x \in rest[Len(path) + 1] \ {step} : StepLess(step, x),
           NEW rest2, \A k \in 1 .. Len(path) : rest2[k] = rest[k],
           rest2[Len(path) + 1] = rest[Len(path) + 1] \ {step}
    PROVE  /\ Ahead(path, rest2)
           /\ \A c : Behind(c, path, rest) => Behind(c, path, rest2)
           /\ Behind(Append(path, step), path, rest2)
           /\ Awaits(Append(path, step), path, rest)
           /\ \A e : Awaits(e, path, rest) =>
                 Awaits(e, path, rest2) \/ (Reaches(e, path, Len(path) + 1) /\ e[Len(path) + 1] = step)
<1> DEFINE q == Append(path, step)
           n == Len(path) + 1
<1>1. /\ Len(path) \in Nat /\ q \in Seq(ScheduleStep) /\ Len(q) = n /\ q[n] = step
      /\ \A i \in 1 .. n - 1 : q[i] = path[i]
  OBVIOUS
<1> HIDE DEF q
<1>2. n \in 1 .. n /\ n \in Nat /\ \A k \in 1 .. n : k \in 1 .. Len(path) \/ k = n
  BY <1>1
<1>3. \A k \in 1 .. n : rest2[k] \subseteq rest[k]
  BY <1>2
<1>4. Ahead(path, rest2)
  BY DEF Ahead
<1>5. ASSUME NEW c, Behind(c, path, rest) PROVE Behind(c, path, rest2)
  BY <1>3, <1>5 DEF Behind
<1>6. Reaches(q, path, n)
  BY <1>1, <1>2 DEF Reaches, IsSeq
<1>7. Behind(q, path, rest2)
  <2>1. \A x \in rest2[n] : StepLess(q[n], x)
    BY <1>1
  <2>2. ~(n <= Len(path))
    BY <1>1
  <2> QED BY <1>2, <1>6, <2>1, <2>2 DEF Behind
<1>8. Awaits(q, path, rest)
  BY <1>1, <1>2, <1>6 DEF Awaits
<1>9. ASSUME NEW e, Awaits(e, path, rest)
      PROVE  Awaits(e, path, rest2) \/ (Reaches(e, path, n) /\ e[n] = step)
  <2>1. PICK k \in 1 .. n : Reaches(e, path, k) /\ e[k] \in rest[k]
    BY <1>9 DEF Awaits
  <2>2. (k = n /\ e[n] = step) \/ e[k] \in rest2[k]
    BY <1>2, <2>1
  <2> QED BY <2>1, <2>2 DEF Awaits
<1> QED BY <1>4, <1>5, <1>7, <1>8, <1>9 DEF q

\* The path goes on with this step, for which the first frame of the call has its own rest.
LEMMA OrderPush ==
    ASSUME NEW path \in Seq(ScheduleStep), NEW rest, Ahead(path, rest),
           NEW step \in ScheduleStep, step \in rest[Len(path) + 1],
           \A x \in rest[Len(path) + 1] \ {step} : StepLess(step, x),
           NEW rest2, \A k \in 1 .. Len(path) : rest2[k] = rest[k],
           rest2[Len(path) + 1] = rest[Len(path) + 1] \ {step}
    PROVE  LET q == Append(path, step)
           IN  /\ Ahead(q, rest2)
               /\ \A c : Behind(c, path, rest) => Behind(c, q, rest2)
               /\ \A e : Awaits(e, path, rest) =>
                     Awaits(e, q, rest2) \/ Continues(e, q)
<1> DEFINE q == Append(path, step)
           n == Len(path) + 1
<1>1. /\ Len(path) \in Nat /\ Len(q) = n /\ q[n] = step
      /\ \A i \in 1 .. n - 1 : q[i] = path[i]
  OBVIOUS
<1> HIDE DEF q
<1>2. n \in Nat /\ n \in 1 .. n /\ \A k \in 1 .. n : k \in 1 .. n - 1 \/ k = n
  BY <1>1
<1>3. \A k \in 1 .. n : k \in 1 .. Len(q) + 1 /\ \A i \in 1 .. k - 1 : q[i] = path[i]
  BY <1>1
<1>4. \A k \in 1 .. n : \A x \in rest2[k] : x \in rest[k]
  BY <1>1, <1>2
<1>5. Ahead(q, rest2)
  <2>1. ASSUME NEW k \in 1 .. Len(q), NEW x \in rest2[k] PROVE StepLess(q[k], x)
    <3>1. CASE k = n
      BY <1>1, <3>1
    <3>2. CASE k \in 1 .. n - 1
      BY <1>1, <3>2 DEF Ahead
    <3> QED BY <1>1, <1>2, <3>1, <3>2
  <2> QED BY <2>1 DEF Ahead
<1>6. ASSUME NEW c, Behind(c, path, rest) PROVE Behind(c, q, rest2)
  <2>1. PICK k \in 1 .. n : /\ Reaches(c, path, k)
                            /\ \A x \in rest[k] : StepLess(c[k], x)
                            /\ k <= Len(path) => StepLess(c[k], path[k])
    BY <1>6 DEF Behind
  <2>2. Reaches(c, q, k) /\ k \in 1 .. Len(q) + 1
    BY <1>3, <2>1 DEF Reaches
  <2>3. StepLess(c[k], q[k])
    <3>1. CASE k = n
      BY <1>1, <2>1, <3>1
    <3>2. CASE k \in 1 .. n - 1
      BY <1>1, <2>1, <3>2
    <3> QED BY <1>2, <3>1, <3>2
  <2> QED BY <1>4, <2>1, <2>2, <2>3 DEF Behind
<1>7. ASSUME NEW e, Awaits(e, path, rest)
      PROVE  Awaits(e, q, rest2) \/ Continues(e, q)
  <2>1. PICK k \in 1 .. n : Reaches(e, path, k) /\ e[k] \in rest[k]
    BY <1>7 DEF Awaits
  <2>2. Reaches(e, q, k) /\ k \in 1 .. Len(q) + 1
    BY <1>3, <2>1 DEF Reaches
  <2>3. CASE e[k] \in rest2[k]
    BY <2>2, <2>3 DEF Awaits
  <2>4. CASE e[k] \notin rest2[k]
    <3>1. k = n /\ e[k] = step
      BY <1>1, <1>2, <2>1, <2>4
    <3>2. IsSeq(e) /\ Len(q) <= Len(e) /\ \A i \in 1 .. n - 1 : e[i] = q[i]
      BY <1>1, <2>2, <3>1 DEF Reaches
    <3>3. \A i \in 1 .. Len(q) : e[i] = q[i]
      BY <1>1, <1>2, <3>1, <3>2
    <3> QED BY <3>2, <3>3 DEF Continues
  <2> QED BY <2>3, <2>4
<1> QED BY <1>5, <1>6, <1>7 DEF q

\* The last frame returns; its path may just have been counted.
LEMMA OrderPop ==
    ASSUME NEW path, IsSeq(path), path # <<>>, NEW rest, Ahead(path, rest),
           NEW rest2, \A k \in 1 .. Len(path) : rest2[k] = rest[k]
    PROVE  /\ Ahead(Front(path), rest2)
           /\ Behind(path, Front(path), rest2)
           /\ \A c : Behind(c, path, rest) => Behind(c, Front(path), rest2)
           /\ \A e : Awaits(e, path, rest) => \/ Awaits(e, Front(path), rest2)
                                              \/ e[Len(path) + 1] \in rest[Len(path) + 1]
<1> DEFINE q == Front(path)
           n == Len(path)
<1>1. /\ n \in Nat \ {0} /\ IsSeq(q) /\ Len(q) = n - 1
      /\ \A i \in 1 .. n - 1 : q[i] = path[i]
  BY SeqFront
<1> HIDE DEF q
<1>2. /\ Len(q) + 1 = n /\ n \in 1 .. n /\ ~(n <= Len(q)) /\ n <= n
      /\ \A k \in 1 .. n : \A i \in 1 .. k - 1 : i \in 1 .. n - 1
      /\ \A k \in 1 .. n + 1 : k \in 1 .. n \/ k = n + 1
      /\ \A k \in 1 .. n : k <= Len(q) => k \in 1 .. n - 1
      /\ \A k \in 1 .. n - 1 : k \in 1 .. n
  BY <1>1
<1>3. Ahead(q, rest2)
  BY <1>1, <1>2 DEF Ahead
<1>4. ASSUME NEW c, IsSeq(c), n <= Len(c), \A i \in 1 .. n : c[i] = path[i]
      PROVE  Behind(c, q, rest2)
  <2>1. Reaches(c, q, n)
    BY <1>1, <1>2, <1>4 DEF Reaches
  <2>2. \A x \in rest2[n] : StepLess(c[n], x)
    BY <1>2, <1>4 DEF Ahead
  <2> QED BY <1>2, <2>1, <2>2 DEF Behind
<1>5. Behind(path, q, rest2)
  BY <1>2, <1>4
<1>6. ASSUME NEW c, NEW k \in 1 .. n, Reaches(c, path, k) PROVE Reaches(c, q, k)
  BY <1>1, <1>2, <1>6 DEF Reaches
<1>7. ASSUME NEW c, Behind(c, path, rest) PROVE Behind(c, q, rest2)
  <2>1. PICK k \in 1 .. n + 1 : /\ Reaches(c, path, k)
                                /\ \A x \in rest[k] : StepLess(c[k], x)
                                /\ k <= Len(path) => StepLess(c[k], path[k])
    BY <1>7 DEF Behind
  <2>2. CASE k = n + 1
    <3>1. IsSeq(c) /\ n + 1 <= Len(c) /\ \A i \in 1 .. n + 1 - 1 : c[i] = path[i]
      BY <2>1, <2>2 DEF Reaches
    <3>2. n + 1 - 1 = n /\ n <= Len(c)
      BY <1>1, <3>1, SeqLength
    <3> QED BY <1>4, <3>1, <3>2
  <2>3. CASE k \in 1 .. n
    <3>1. Reaches(c, q, k) /\ \A x \in rest2[k] : StepLess(c[k], x)
      BY <1>6, <2>1, <2>3
    <3>2. k <= Len(q) => StepLess(c[k], q[k])
      BY <1>1, <1>2, <2>1, <2>3
    <3> QED BY <1>2, <2>3, <3>1, <3>2 DEF Behind
  <2> QED BY <1>2, <2>2, <2>3
<1>8. ASSUME NEW e, Awaits(e, path, rest), e[n + 1] \notin rest[n + 1]
      PROVE  Awaits(e, q, rest2)
  <2>1. PICK k \in 1 .. n + 1 : Reaches(e, path, k) /\ e[k] \in rest[k]
    BY <1>8 DEF Awaits
  <2>2. k \in 1 .. n
    BY <1>2, <1>8, <2>1
  <2>3. Reaches(e, q, k) /\ e[k] \in rest2[k]
    BY <1>6, <2>1, <2>2
  <2> QED BY <1>2, <2>2, <2>3 DEF Awaits
<1> QED BY <1>3, <1>5, <1>7, <1>8 DEF q

-----------------------------------------------------------------------------
(***************************************************************************)
(* The inductive invariant of the exactness: a complete execution has been *)
(* counted, or it is awaited by a frame, or the cap has left it out and it *)
(* comes after all that have been counted.                                 *)
(***************************************************************************)
FrameRests(fs) == [i \in DOMAIN fs |-> fs[i].rest]

\* The history of a path: the fingerprints of its states, where cycles are cut.
Remembered(p, states, n) ==
    IF requires_cycle_detection(p)
    THEN {[key |-> behavioral_state_fingerprint(states[i]), position |-> i - 1] : i \in 1 .. n}
    ELSE {}

Searched(p, model, fs, path, h, ss) ==
    /\ Opens(p, model, path, FrameStates(fs), Len(path))
    /\ h = Remembered(p, FrameStates(fs), Len(path) + 1)
    /\ Ahead(path, FrameRests(fs))
    /\ \A c \in Range(ss) : Behind(c, path, FrameRests(fs))

Pending(p, fs, path, e) ==
    \/ e = path /\ enabled_steps(p, FrameStates(fs)[Len(path) + 1]) = {}
    \/ Awaits(e, path, FrameRests(fs))

Listed(p, model, cap, count, ss) ==
    /\ IsSeq(ss) /\ Len(ss) = count /\ count <= cap
    /\ \A i \in 1 .. Len(ss) - 1 : Earlier(ss[i], ss[i + 1])
    /\ \A c \in Range(ss) : IsComplete(p, model, c)

LeftOut(cap, count, ss, e) == count >= cap /\ (ss # <<>> => Earlier(Last(ss), e))

\* A complete execution has been counted, or it is left out by the cap, or it is pending.
Exact(p, model, cap, count, ss, fs, path, h) ==
    /\ Listed(p, model, cap, count, ss)
    /\ fs = <<>> \/ Searched(p, model, fs, path, h, ss)
    /\ \A e : IsComplete(p, model, e) =>
          \/ e \in Range(ss) \/ LeftOut(cap, count, ss, e)
          \/ fs # <<>> /\ Pending(p, fs, path, e)

ExactInv == NaiveInv /\ Exact(program, memory_model, max_schedules, result.schedules_explored,
                              schedules, frames, schedule, history)

LEMMA RestsAre ==
    ASSUME NEW fs, IsSeq(fs)
    PROVE  \A i \in 1 .. Len(fs) : FrameRests(fs)[i] = fs[i].rest
BY SeqLength DEF FrameRests

\* A cycle is found exactly when the state has been passed through before.
LEMMA RememberedCycle ==
    ASSUME NEW p, NEW states, NEW n \in Nat, NEW s
    PROVE  CycleStart(Remembered(p, states, n), s) = {} <=>
              ~(requires_cycle_detection(p)
                   /\ \E j \in 1 .. n : behavioral_state_fingerprint(states[j]) =
                                            behavioral_state_fingerprint(s))
<1> DEFINE key(x) == behavioral_state_fingerprint(x)
           h == {[key |-> key(states[i]), position |-> i - 1] : i \in 1 .. n}
           k == key(s)
<1>1. CASE requires_cycle_detection(p)
  <2>1. Remembered(p, states, n) = h
    BY <1>1 DEF Remembered
  <2>2. CycleStart(Remembered(p, states, n), s) = {e.position : e \in {d \in h : d.key = k}}
    BY <2>1 DEF CycleStart
  <2> HIDE DEF k, key
  <2>3. \A j \in 1 .. n : LET e == [key |-> key(states[j]), position |-> j - 1]
                          IN  e \in h /\ e.key = key(states[j])
    OBVIOUS
  <2>4. \A e \in h : \E j \in 1 .. n : e.key = key(states[j])
    OBVIOUS
  <2> HIDE DEF h
  <2>5. {e.position : e \in {d \in h : d.key = k}} = {} <=> ~\E d \in h : d.key = k
    OBVIOUS
  <2>6. (\E d \in h : d.key = k) <=> \E j \in 1 .. n : key(states[j]) = k
    BY <2>3, <2>4
  <2> QED BY <1>1, <2>2, <2>5, <2>6 DEF k, key
<1>2. CASE ~requires_cycle_detection(p)
  BY <1>2 DEF Remembered, CycleStart
<1> QED BY <1>1, <1>2

\* The history goes on, and back.
LEMMA RememberedMore ==
    ASSUME NEW p, NEW S, NEW n \in Nat, NEW T, \A i \in 1 .. n : T[i] = S[i]
    PROVE  /\ Remembered(p, T, n) = Remembered(p, S, n)
           /\ Observed(p, Remembered(p, S, n), T[n + 1], n) = Remembered(p, T, n + 1)
           /\ Restored(Remembered(p, T, n + 1), n) = Remembered(p, S, n)
<1> DEFINE key(x) == behavioral_state_fingerprint(x)
           at(U, i) == [key |-> key(U[i]), position |-> i - 1]
           h(U, m) == {at(U, i) : i \in 1 .. m}
<1>1. CASE ~requires_cycle_detection(p)
  BY <1>1 DEF Remembered, Observed, Restored
<1>2. CASE requires_cycle_detection(p)
  <2>1. Remembered(p, T, n) = h(T, n) /\ Remembered(p, S, n) = h(S, n)
        /\ Remembered(p, T, n + 1) = h(T, n + 1)
    BY <1>2 DEF Remembered
  <2>2. \A i \in 1 .. n : at(T, i) = at(S, i)
    OBVIOUS
  <2>3. at(T, n + 1) = [key |-> key(T[n + 1]), position |-> n]
    OBVIOUS
  <2>4. \A i \in 1 .. n + 1 : at(T, i).position = i - 1
    OBVIOUS
  <2> HIDE DEF at
  <2>5. h(T, n) = h(S, n)
    BY <2>2
  <2>6. h(T, n + 1) = h(T, n) \cup {at(T, n + 1)}
    <3>1. 1 .. n + 1 = (1 .. n) \cup {n + 1}
      OBVIOUS
    <3> QED BY <3>1
  <2>7. {e \in h(T, n + 1) : e.position # n} = h(T, n)
    <3>1. \A e \in h(T, n) : e.position # n
      BY <2>4
    <3>2. at(T, n + 1).position = n
      BY <2>4
    <3> HIDE DEF h
    <3> QED BY <2>6, <3>1, <3>2
  <2> HIDE DEF h
  <2>8. Observed(p, Remembered(p, S, n), T[n + 1], n) = h(S, n) \cup {at(T, n + 1)}
    BY <1>2, <2>1, <2>3 DEF Observed
  <2>9. Restored(Remembered(p, T, n + 1), n) = h(T, n)
    BY <2>1, <2>7 DEF Restored
  <2> QED BY <2>1, <2>5, <2>6, <2>8, <2>9
<1> QED BY <1>1, <1>2

\* A complete execution that comes after all of the list goes to its end.
LEMMA ListedMore ==
    ASSUME NEW p, NEW model, NEW cap \in Nat, NEW count, NEW ss, Listed(p, model, cap, count, ss),
           count < cap, NEW x, IsComplete(p, model, x), \A c \in Range(ss) : Earlier(c, x)
    PROVE  Listed(p, model, cap, count + 1, Append(ss, x))
<1> DEFINE t == Append(ss, x)
<1>1. IsSeq(ss) /\ Len(ss) = count /\ count \in Nat
  BY SeqLength DEF Listed
<1>2. /\ IsSeq(t) /\ Len(t) = count + 1 /\ t[count + 1] = x
      /\ \A i \in 1 .. count : t[i] = ss[i]
  BY <1>1, SeqAppend
<1>3. Range(t) = Range(ss) \cup {x}
  BY <1>1, RangeAppend
<1> HIDE DEF t
<1>4. ASSUME NEW i \in 1 .. Len(t) - 1 PROVE Earlier(t[i], t[i + 1])
  <2>1. i \in 1 .. count /\ ss[i] \in Range(ss)
    BY <1>1, <1>2, SeqLength DEF Range
  <2>2. CASE i = count
    BY <1>2, <2>1, <2>2
  <2>3. CASE i # count
    <3>1. i \in 1 .. Len(ss) - 1 /\ i + 1 \in 1 .. count
      BY <1>1, <2>1, <2>3
    <3> QED BY <1>2, <2>1, <3>1 DEF Listed
  <2> QED BY <2>2, <2>3
<1>5. count + 1 <= cap
  BY <1>1
<1>6. \A c \in Range(t) : IsComplete(p, model, c)
  BY <1>3 DEF Listed
<1>7. Listed(p, model, cap, count + 1, t)
  BY <1>2, <1>4, <1>5, <1>6 DEF Listed
<1> QED BY <1>7 DEF t

\* All that has been counted comes before what is pending.
LEMMA CountedFirst ==
    ASSUME NEW p, NEW model, NEW fs, NEW path, NEW h, NEW ss, IsSeq(path),
           Searched(p, model, fs, path, h, ss),
           NEW c \in Range(ss), IsComplete(p, model, c), NEW e, Pending(p, fs, path, e)
    PROVE  Earlier(c, e)
<1> DEFINE rest == FrameRests(fs)
           n == Len(path)
<1>1. /\ Behind(c, path, rest) /\ Ahead(path, rest) /\ n \in Nat
      /\ Opens(p, model, path, FrameStates(fs), n)
  BY SeqLength DEF Searched
<1>2. CASE Awaits(e, path, rest)
  BY <1>1, <1>2, BehindAwaited
<1>3. CASE e = path /\ enabled_steps(p, FrameStates(fs)[n + 1]) = {}
  <2>1. ~Reaches(c, path, n + 1)
    <3> SUFFICES ASSUME Reaches(c, path, n + 1) PROVE FALSE
      OBVIOUS
    <3>1. n + 1 <= Len(c) /\ Len(c) \in Nat /\ \A i \in 1 .. n + 1 - 1 : c[i] = path[i]
      BY SeqLength DEF Reaches
    <3>2. n \in 0 .. n /\ n <= Len(c) /\ n < Len(c) /\ n + 1 - 1 = n
      BY <1>1, <3>1
    <3>3. c[n + 1] \in enabled_steps(p, FrameStates(fs)[n + 1])
      BY <1>1, <3>1, <3>2, CompleteFollows
    <3> QED BY <1>3, <3>3
  <2>2. Earlier(c, path)
    BY <1>1, <2>1, BehindPath
  <2> QED BY <1>3, <2>2
<1> QED BY <1>2, <1>3 DEF Pending

\* What a frame has left when the last one takes a step.
LEMMA RestsTake ==
    ASSUME NEW p, NEW fs, IsSeq(fs), Len(fs) \in 1 .. Len(fs),
           \A i \in 1 .. Len(fs) : IsFrame(p, fs[i]), NEW step
    PROVE  LET fs2 == [fs EXCEPT ![Len(fs)].rest = @ \ {step}]
           IN  /\ \A i \in 1 .. Len(fs) - 1 : FrameRests(fs2)[i] = FrameRests(fs)[i]
               /\ FrameRests(fs2)[Len(fs)] = FrameRests(fs)[Len(fs)] \ {step}
<1> DEFINE n == Len(fs)
           fs2 == [fs EXCEPT ![n].rest = @ \ {step}]
<1>1. n \in Nat /\ DOMAIN fs = 1 .. n /\ DOMAIN fs2 = 1 .. n
  BY SeqLength
<1>2. \A i \in 1 .. n : i # n => fs2[i] = fs[i]
  BY <1>1
<1>3. fs2[n] = [fs[n] EXCEPT !.rest = @ \ {step}]
  BY <1>1
<1>4. fs[n] = [state |-> fs[n].state, rest |-> fs[n].rest]
  BY DEF IsFrame
<1>5. fs2[n].rest = fs[n].rest \ {step}
  BY <1>3, <1>4
<1> HIDE DEF fs2
<1>6. \A i \in 1 .. n : FrameRests(fs2)[i] = fs2[i].rest /\ FrameRests(fs)[i] = fs[i].rest
  BY <1>1 DEF FrameRests
<1>7. FrameRests(fs2)[n] = FrameRests(fs)[n] \ {step}
  BY <1>5, <1>6
<1>8. \A i \in 1 .. n - 1 : i \in 1 .. n /\ i # n
  <2>1. n \in Nat
    BY <1>1
  <2> HIDE DEF n
  <2> QED BY <2>1
<1>9. ASSUME NEW i \in 1 .. n - 1 PROVE FrameRests(fs2)[i] = FrameRests(fs)[i]
  <2>1. i \in 1 .. n /\ fs2[i] = fs[i]
    BY <1>2, <1>8
  <2> HIDE DEF n
  <2>2. FrameRests(fs2)[i] = fs2[i].rest /\ FrameRests(fs)[i] = fs[i].rest
    BY <1>6, <2>1
  <2> QED BY <2>1, <2>2
<1> QED BY <1>7, <1>9 DEF fs2

\* The last frame returns, and the one before it is the last.
LEMMA SearchedPop ==
    ASSUME NEW p, NEW model, NEW fs, NEW path, NEW h, NEW ss, NEW ss2,
           IsSeq(fs), IsSeq(path), Len(fs) = Len(path) + 1, path # <<>>, IsSeq(ss),
           Searched(p, model, fs, path, h, ss), ss2 = ss \/ ss2 = Append(ss, path)
    PROVE  /\ Searched(p, model, Front(fs), Front(path), Restored(h, Len(path)), ss2)
           /\ \A e : Awaits(e, path, FrameRests(fs)) =>
                 \/ Awaits(e, Front(path), FrameRests(Front(fs)))
                 \/ e[Len(path) + 1] \in FrameRests(fs)[Len(path) + 1]
<1> DEFINE fs2 == Front(fs)
           q == Front(path)
           n == Len(path)
           S == FrameStates(fs)
           T == FrameStates(fs2)
<1>1. n \in Nat \ {0} /\ Len(q) = n - 1 /\ \A i \in 1 .. n - 1 : q[i] = path[i]
  BY SeqFront
<1>2. fs # <<>>
  BY <1>1, SeqLength
<1>3. IsSeq(fs2) /\ Len(fs2) = n /\ \A i \in 1 .. n : fs2[i] = fs[i]
  <2>1. IsSeq(fs2) /\ Len(fs2) = Len(fs) - 1 /\ \A i \in 1 .. Len(fs) - 1 : fs2[i] = fs[i]
    BY <1>2, SeqFront
  <2> QED BY <1>1, <2>1
<1> HIDE DEF fs2, q
<1>4. \A i \in 1 .. n : i \in 1 .. Len(fs) /\ i \in 1 .. Len(fs2)
  BY <1>1, <1>3
<1>5. \A i \in 1 .. n : T[i] = S[i]
  <2>1. \A i \in 1 .. Len(fs) : S[i] = fs[i].state
    BY FramesAre
  <2>2. \A i \in 1 .. Len(fs2) : T[i] = fs2[i].state
    BY <1>3, FramesAre
  <2> QED BY <1>3, <1>4, <2>1, <2>2
<1>6. \A i \in 1 .. n : FrameRests(fs2)[i] = FrameRests(fs)[i]
  <2>1. \A i \in 1 .. Len(fs) : FrameRests(fs)[i] = fs[i].rest
    BY RestsAre
  <2>2. \A i \in 1 .. Len(fs2) : FrameRests(fs2)[i] = fs2[i].rest
    BY <1>3, RestsAre
  <2> QED BY <1>3, <1>4, <2>1, <2>2
<1> HIDE DEF S, T
<1>7. /\ Opens(p, model, path, S, n) /\ h = Remembered(p, S, n + 1)
      /\ Ahead(path, FrameRests(fs)) /\ \A c \in Range(ss) : Behind(c, path, FrameRests(fs))
  BY DEF Searched, S
<1>8. Opens(p, model, q, T, n - 1)
  <2> DEFINE m == n - 1
  <2>1. m \in 0 .. n /\ n \in Nat /\ m + 1 = n
    BY <1>1
  <2>2. \A i \in 1 .. m : path[i] = q[i]
    BY <1>1
  <2>3. \A i \in 1 .. m + 1 : S[i] = T[i]
    BY <1>5, <2>1
  <2> HIDE DEF m, n
  <2>4. Opens(p, model, q, T, m)
    BY <1>7, <2>1, <2>2, <2>3, OpensPrefix
  <2> QED BY <2>4 DEF m
<1>9. Restored(h, n) = Remembered(p, T, n)
  <2>1. \A i \in 1 .. n : S[i] = T[i]
    BY <1>5
  <2>2. n \in Nat
    BY <1>1
  <2> HIDE DEF n
  <2>3. Restored(Remembered(p, S, n + 1), n) = Remembered(p, T, n)
    BY <2>1, <2>2, RememberedMore
  <2> QED BY <1>7, <2>3
<1>10. /\ Ahead(q, FrameRests(fs2)) /\ Behind(path, q, FrameRests(fs2))
       /\ \A c : Behind(c, path, FrameRests(fs)) => Behind(c, q, FrameRests(fs2))
       /\ \A e : Awaits(e, path, FrameRests(fs)) =>
             \/ Awaits(e, q, FrameRests(fs2)) \/ e[n + 1] \in FrameRests(fs)[n + 1]
  BY <1>6, <1>7, OrderPop DEF q
<1>11. \A c \in Range(ss2) : Behind(c, q, FrameRests(fs2))
  <2>1. Range(Append(ss, path)) = Range(ss) \cup {path}
    BY RangeAppend
  <2> QED BY <1>7, <1>10, <2>1
<1>12. n - 1 + 1 = n
  BY <1>1
<1>13. Opens(p, model, q, T, Len(q)) /\ Restored(h, n) = Remembered(p, T, Len(q) + 1)
  BY <1>1, <1>8, <1>9, <1>12
<1>14. Searched(p, model, fs2, q, Restored(h, n), ss2)
  BY <1>10, <1>11, <1>13 DEF Searched, T
<1> QED BY <1>10, <1>14 DEF fs2, q

\* The frames after a call has returned, if all that is complete there has been counted.
LEMMA ExactPop ==
    ASSUME NEW p, NEW model, NEW cap, NEW count, NEW fs, NEW path, NEW h, NEW ss, NEW ss2,
           IsSeq(fs), IsSeq(path), Len(fs) = Len(path) + 1, IsSeq(ss),
           Searched(p, model, fs, path, h, ss), ss2 = ss \/ ss2 = Append(ss, path),
           Listed(p, model, cap, count, ss2),
           \A e : IsComplete(p, model, e) =>
              \/ e \in Range(ss2) \/ LeftOut(cap, count, ss2, e)
              \/ /\ Awaits(e, path, FrameRests(fs))
                 /\ e[Len(path) + 1] \notin FrameRests(fs)[Len(path) + 1],
           NEW path2, path2 = IF path = <<>> THEN path ELSE Front(path),
           NEW h2, h2 = IF path = <<>> THEN h ELSE Restored(h, Len(path))
    PROVE  Exact(p, model, cap, count, ss2, Front(fs), path2, h2)
<1>1. CASE path = <<>>
  <2>0. Len(path) = 0 <=> path = <<>>
    BY SeqLength
  <2>1. Len(path) = 0 /\ Len(fs) = 1
    <3>1. Len(path) = 0
      BY <1>1, <2>0
    <3> QED BY <3>1
  <2>2. fs # <<>>
    BY <2>1, SeqLength
  <2>3. Front(fs) = <<>>
    <3>1. IsSeq(Front(fs)) /\ Len(Front(fs)) = Len(fs) - 1
      BY <2>2, SeqFront
    <3>2. Len(Front(fs)) = 0
      BY <2>1, <3>1
    <3> QED BY <3>1, <3>2, SeqLength
  <2>4. ASSUME NEW e, Awaits(e, path, FrameRests(fs))
        PROVE  e[Len(path) + 1] \in FrameRests(fs)[Len(path) + 1]
    <3>1. PICK k \in 1 .. Len(path) + 1 : e[k] \in FrameRests(fs)[k]
      BY <2>4 DEF Awaits
    <3>2. k = Len(path) + 1
      BY <2>1
    <3> QED BY <3>1, <3>2
  <2>5. \A e : IsComplete(p, model, e) => e \in Range(ss2) \/ LeftOut(cap, count, ss2, e)
    BY <2>4
  <2> QED BY <2>3, <2>5 DEF Exact
<1>2. CASE path # <<>>
  <2>1. path2 = Front(path) /\ h2 = Restored(h, Len(path))
    BY <1>2
  <2>2. /\ Searched(p, model, Front(fs), path2, h2, ss2)
        /\ \A e : Awaits(e, path, FrameRests(fs)) =>
              \/ Awaits(e, path2, FrameRests(Front(fs)))
              \/ e[Len(path) + 1] \in FrameRests(fs)[Len(path) + 1]
    BY <1>2, <2>1, SearchedPop
  <2>3. Front(fs) # <<>>
    <3>1. Len(path) \in Nat \ {0} /\ Len(fs) # 0
      BY <1>2, SeqLength
    <3>2. fs # <<>>
      BY <3>1, SeqLength
    <3>3. IsSeq(Front(fs)) /\ Len(Front(fs)) = Len(path)
      BY <3>1, <3>2, SeqFront
    <3> QED BY <3>1, <3>3, SeqLength
  <2>4. ASSUME NEW e, IsComplete(p, model, e)
        PROVE  \/ e \in Range(ss2) \/ LeftOut(cap, count, ss2, e)
               \/ Pending(p, Front(fs), path2, e)
    BY <2>2, <2>4 DEF Pending
  <2> QED BY <2>2, <2>3, <2>4 DEF Exact
<1> QED BY <1>1, <1>2

\* A state without enabled steps: its path is counted.
LEMMA ExactLeaf ==
    ASSUME NEW p, NEW model, NEW cap \in Nat, NEW count, NEW fs, NEW path, NEW h, NEW R, NEW ss,
           Walking(p, model, fs, path, h, R, ss), fs # <<>>,
           Exact(p, model, cap, count, ss, fs, path, h),
           count < cap, enabled_steps(p, fs[Len(fs)].state) = {},
           NEW path2, path2 = IF path = <<>> THEN path ELSE Front(path),
           NEW h2, h2 = IF path = <<>> THEN h ELSE Restored(h, Len(path))
    PROVE  Exact(p, model, cap, count + 1, Append(ss, path), Front(fs), path2, h2)
<1> DEFINE n == Len(path)
           top == fs[Len(fs)]
           ss2 == Append(ss, path)
<1>1. /\ Len(fs) = n + 1 /\ IsFrame(p, top) /\ FrameStates(fs)[n + 1] = top.state
      /\ path \in Seq(ScheduleStep) /\ IsSeq(fs) /\ IsSeq(ss) /\ Len(fs) \in 1 .. Len(fs)
  BY WalkingTop
<1>2. IsSeq(path)
  BY <1>1 DEF IsSeq
<1>3. FrameRests(fs)[n + 1] = {}
  <2>1. FrameRests(fs)[Len(fs)] = top.rest
    BY <1>1, RestsAre
  <2>2. top.rest = {}
    BY <1>1 DEF IsFrame
  <2> QED BY <1>1, <2>1, <2>2
<1>4. /\ Listed(p, model, cap, count, ss) /\ Searched(p, model, fs, path, h, ss)
      /\ \A e : IsComplete(p, model, e) =>
            e \in Range(ss) \/ LeftOut(cap, count, ss, e) \/ Pending(p, fs, path, e)
  BY DEF Exact
<1>5. Pending(p, fs, path, path)
  BY <1>1 DEF Pending
<1>6. IsComplete(p, model, path)
  <2>1. Opens(p, model, path, FrameStates(fs), n)
    BY <1>4 DEF Searched
  <2> QED BY <1>1, <2>1, CompletesHere
<1>7. \A c \in Range(ss) : IsComplete(p, model, c)
  BY <1>4 DEF Listed
<1>8. \A c \in Range(ss) : Earlier(c, path)
  BY <1>2, <1>4, <1>5, <1>7, CountedFirst
<1>9. Listed(p, model, cap, count + 1, ss2)
  BY <1>4, <1>6, <1>8, ListedMore
<1>10. Range(ss2) = Range(ss) \cup {path}
  BY <1>1, RangeAppend
<1>11. ~(count >= cap)
  <2>1. count \in Nat
    BY <1>4, SeqLength DEF Listed
  <2> QED BY <2>1
<1>12. ASSUME NEW e, IsComplete(p, model, e)
       PROVE  \/ e \in Range(ss2) \/ LeftOut(cap, count + 1, ss2, e)
              \/ Awaits(e, path, FrameRests(fs)) /\ e[n + 1] \notin FrameRests(fs)[n + 1]
  <2>1. e \in Range(ss) \/ Pending(p, fs, path, e)
    BY <1>4, <1>11, <1>12 DEF LeftOut
  <2>2. e \in Range(ss) \/ e = path \/ Awaits(e, path, FrameRests(fs))
    BY <2>1 DEF Pending
  <2> QED BY <1>3, <1>10, <2>2
<1> HIDE DEF ss2
<1>13. ss2 = ss \/ ss2 = Append(ss, path)
  BY DEF ss2
<1>14. Exact(p, model, cap, count + 1, ss2, Front(fs), path2, h2)
  BY <1>1, <1>2, <1>4, <1>9, <1>12, <1>13, ExactPop
<1> QED BY <1>14 DEF ss2

\* A call that has taken all its steps returns, or any call at the cap.
LEMMA ExactReturn ==
    ASSUME NEW p, NEW model, NEW cap \in Nat, NEW count, NEW fs, NEW path, NEW h, NEW R, NEW ss,
           Walking(p, model, fs, path, h, R, ss), fs # <<>>,
           Exact(p, model, cap, count, ss, fs, path, h),
           \/ count >= cap
           \/ fs[Len(fs)].rest = {} /\ enabled_steps(p, fs[Len(fs)].state) # {},
           NEW path2, path2 = IF path = <<>> THEN path ELSE Front(path),
           NEW h2, h2 = IF path = <<>> THEN h ELSE Restored(h, Len(path))
    PROVE  Exact(p, model, cap, count, ss, Front(fs), path2, h2)
<1> DEFINE n == Len(path)
           top == fs[Len(fs)]
<1>1. /\ Len(fs) = n + 1 /\ IsFrame(p, top) /\ FrameStates(fs)[n + 1] = top.state
      /\ path \in Seq(ScheduleStep) /\ IsSeq(fs) /\ IsSeq(ss) /\ Len(fs) \in 1 .. Len(fs)
  BY WalkingTop
<1>2. IsSeq(path)
  BY <1>1 DEF IsSeq
<1>3. FrameRests(fs)[n + 1] = top.rest
  <2>1. FrameRests(fs)[Len(fs)] = top.rest
    BY <1>1, RestsAre
  <2> QED BY <1>1, <2>1
<1>4. /\ Listed(p, model, cap, count, ss) /\ Searched(p, model, fs, path, h, ss)
      /\ \A e : IsComplete(p, model, e) =>
            e \in Range(ss) \/ LeftOut(cap, count, ss, e) \/ Pending(p, fs, path, e)
  BY DEF Exact
<1>5. ASSUME NEW e, IsComplete(p, model, e)
      PROVE  \/ e \in Range(ss) \/ LeftOut(cap, count, ss, e)
             \/ Awaits(e, path, FrameRests(fs)) /\ e[n + 1] \notin FrameRests(fs)[n + 1]
  <2>1. CASE ~Pending(p, fs, path, e)
    BY <1>4, <1>5, <2>1
  <2>2. CASE Pending(p, fs, path, e) /\ count >= cap
    <3>1. ASSUME ss # <<>> PROVE Earlier(Last(ss), e)
      <4>1. Len(ss) \in Nat \ {0} /\ DOMAIN ss = 1 .. Len(ss)
        BY <1>1, <3>1, SeqLength
      <4>2. Last(ss) \in Range(ss)
        BY <4>1 DEF Range, Last
      <4>3. IsComplete(p, model, Last(ss))
        BY <1>4, <4>2 DEF Listed
      <4> QED BY <1>2, <1>4, <2>2, <4>2, <4>3, CountedFirst
    <3> QED BY <2>2, <3>1 DEF LeftOut
  <2>3. CASE Pending(p, fs, path, e) /\ top.rest = {} /\ enabled_steps(p, top.state) # {}
    BY <1>1, <1>3, <2>3 DEF Pending
  <2> QED BY <2>1, <2>2, <2>3
<1> QED BY <1>1, <1>2, <1>4, <1>5, ExactPop

\* The step the last frame takes next is the least of those it has left.
IsLeast(step, rest) == step \in rest /\ \A x \in rest \ {step} : StepLess(step, x)

\* A path that ends with its next step is counted.
LEMMA ExactTake ==
    ASSUME NEW p, NEW model, NEW cap \in Nat, NEW count, NEW fs, NEW path, NEW h, NEW R, NEW ss,
           Walking(p, model, fs, path, h, R, ss), fs # <<>>,
           Exact(p, model, cap, count, ss, fs, path, h), count < cap,
           NEW step \in ScheduleStep, IsLeast(step, fs[Len(fs)].rest),
           StopsWith(p, step, FrameStates(fs), Len(path) + 1)
    PROVE  Exact(p, model, cap, count + 1, Append(ss, Append(path, step)),
                 [fs EXCEPT ![Len(fs)].rest = @ \ {step}], path, h)
<1> DEFINE n == Len(path)
           top == fs[Len(fs)]
           q == Append(path, step)
           ss2 == Append(ss, q)
           fs2 == [fs EXCEPT ![Len(fs)].rest = @ \ {step}]
           rest == FrameRests(fs)
           rest2 == FrameRests(fs2)
           S == FrameStates(fs)
           T == FrameStates(fs2)
<1>1. /\ Len(fs) = n + 1 /\ IsFrame(p, top) /\ S[n + 1] = top.state /\ n \in Nat
      /\ path \in Seq(ScheduleStep) /\ IsSeq(fs) /\ IsSeq(ss) /\ Len(fs) \in 1 .. Len(fs)
      /\ \A i \in 1 .. Len(fs) : IsFrame(p, fs[i])
  BY WalkingTop DEF Walking
<1>2. IsSeq(path)
  BY <1>1 DEF IsSeq
<1>3. rest[n + 1] = top.rest
  <2>1. rest[Len(fs)] = top.rest
    BY <1>1, RestsAre
  <2> QED BY <1>1, <2>1
<1>4. step \in enabled_steps(p, S[n + 1]) /\ step \in rest[n + 1]
      /\ \A x \in rest[n + 1] \ {step} : StepLess(step, x)
  BY <1>1, <1>3 DEF IsFrame, IsLeast
<1>5. /\ Listed(p, model, cap, count, ss) /\ Searched(p, model, fs, path, h, ss)
      /\ \A e : IsComplete(p, model, e) =>
            e \in Range(ss) \/ LeftOut(cap, count, ss, e) \/ Pending(p, fs, path, e)
  BY DEF Exact
<1>6. /\ Opens(p, model, path, S, n) /\ h = Remembered(p, S, n + 1)
      /\ Ahead(path, rest) /\ \A c \in Range(ss) : Behind(c, path, rest)
  BY <1>5 DEF Searched
<1>7. /\ IsSeq(fs2) /\ Len(fs2) = Len(fs) /\ \A i \in 1 .. Len(fs) : T[i] = S[i]
  <2>1. /\ IsSeq(fs2) /\ Len(fs2) = Len(fs)
        /\ \A i \in 1 .. Len(fs) : /\ IsFrame(p, fs2[i]) /\ FrameStates(fs2)[i] = FrameStates(fs)[i]
                                   /\ FrameTried(fs)[i] \subseteq FrameTried(fs2)[i]
        /\ step \in FrameTried(fs2)[Len(fs)]
    BY <1>1, FrameTakes
  <2> HIDE DEF fs2
  <2> QED BY <2>1
<1>8. /\ \A i \in 1 .. n : rest2[i] = rest[i]
      /\ rest2[n + 1] = rest[n + 1] \ {step}
  <2>1. /\ \A i \in 1 .. Len(fs) - 1 : rest2[i] = rest[i]
        /\ rest2[Len(fs)] = rest[Len(fs)] \ {step}
    BY <1>1, RestsTake
  <2>2. Len(fs) - 1 = n
    BY <1>1
  <2> QED BY <1>1, <2>1, <2>2
<1>9. q \in Seq(ScheduleStep) /\ Len(q) = n + 1 /\ q[n + 1] = step
      /\ \A i \in 1 .. n : q[i] = path[i]
  BY <1>1
<1> HIDE DEF fs2, rest, rest2, S, T
<1>10. /\ Ahead(path, rest2)
       /\ \A c : Behind(c, path, rest) => Behind(c, path, rest2)
       /\ Behind(q, path, rest2) /\ Awaits(q, path, rest)
       /\ \A e : Awaits(e, path, rest) =>
             Awaits(e, path, rest2) \/ (Reaches(e, path, n + 1) /\ e[n + 1] = step)
  BY <1>1, <1>4, <1>6, <1>8, OrderTake
<1>11. IsComplete(p, model, q)
  <2>1. StopsWith(p, step, S, n + 1)
    BY DEF S
  <2> QED BY <1>1, <1>4, <1>6, <2>1, CompletesHere
<1> HIDE DEF q
<1>12. Listed(p, model, cap, count + 1, ss2)
  <2>1. Pending(p, fs, path, q)
    BY <1>10 DEF Pending, rest
  <2>2. \A c \in Range(ss) : IsComplete(p, model, c)
    BY <1>5 DEF Listed
  <2>3. \A c \in Range(ss) : Earlier(c, q)
    BY <1>2, <1>5, <2>1, <2>2, CountedFirst
  <2> QED BY <1>5, <1>11, <2>3, ListedMore
<1>13. Range(ss2) = Range(ss) \cup {q}
  BY <1>1, RangeAppend
<1> HIDE DEF ss2
<1>14. Searched(p, model, fs2, path, h, ss2)
  <2>1. \A i \in 1 .. n + 1 : T[i] = S[i]
    BY <1>1, <1>7
  <2>2. Opens(p, model, path, T, n)
    <3>1. n \in 0 .. n /\ \A i \in 1 .. n : path[i] = path[i]
      BY <1>1
    <3>2. \A i \in 1 .. n + 1 : S[i] = T[i]
      BY <2>1
    <3> HIDE DEF n
    <3> QED BY <1>1, <1>6, <3>1, <3>2, OpensPrefix
  <2>3. Remembered(p, T, n + 1) = Remembered(p, S, n + 1)
    <3> DEFINE m == n + 1
    <3>1. m \in Nat /\ \A i \in 1 .. m : T[i] = S[i]
      BY <1>1, <2>1
    <3> HIDE DEF m
    <3>2. Remembered(p, T, m) = Remembered(p, S, m)
      BY <3>1, RememberedMore
    <3> QED BY <3>2 DEF m
  <2>4. \A c \in Range(ss2) : Behind(c, path, rest2)
    BY <1>6, <1>10, <1>13
  <2> QED BY <1>6, <1>10, <2>2, <2>3, <2>4 DEF Searched, T, rest2
<1>15. ~(count >= cap)
  <2>1. count \in Nat
    BY <1>5, SeqLength DEF Listed
  <2> QED BY <2>1
<1>16. ASSUME NEW e, IsComplete(p, model, e)
       PROVE  e \in Range(ss2) \/ Pending(p, fs2, path, e)
  <2>1. e \in Range(ss) \/ Pending(p, fs, path, e)
    BY <1>5, <1>15, <1>16 DEF LeftOut
  <2>2. e \in Range(ss) \/ Awaits(e, path, rest)
    BY <1>4, <2>1 DEF Pending, S, rest
  <2>3. CASE Reaches(e, path, n + 1) /\ e[n + 1] = step
    <3>1. IsSeq(e) /\ n + 1 <= Len(e) /\ \A i \in 1 .. n + 1 - 1 : e[i] = path[i]
      BY <2>3 DEF Reaches
    <3>2. Len(e) \in Nat /\ n \in 0 .. n /\ n <= Len(e) /\ n < Len(e) /\ n + 1 - 1 = n
      BY <1>1, <3>1, SeqLength
    <3>3. \A i \in 1 .. n : e[i] = path[i]
      BY <3>1, <3>2
    <3>4. /\ e \in Seq(ScheduleStep)
          /\ StopsWith(p, e[n + 1], S, n + 1) => Len(e) = n + 1
      <4> HIDE DEF n
      <4> QED BY <1>1, <1>6, <1>16, <3>2, <3>3, CompleteFollows
    <3>5. Len(e) = n + 1
      BY <2>3, <3>4 DEF S
    <3>6. \A i \in 1 .. n + 1 : e[i] = q[i]
      <4>1. \A i \in 1 .. n + 1 : i \in 1 .. n \/ i = n + 1
        BY <1>1
      <4> HIDE DEF n
      <4> QED BY <1>9, <2>3, <3>3, <4>1
    <3>7. e = q
      <4> HIDE DEF n
      <4>1. Len(e) = Len(q) /\ \A i \in 1 .. Len(e) : e[i] = q[i]
        BY <1>9, <3>5, <3>6
      <4> QED BY <1>9, <3>4, <4>1, SeqEqual
    <3> QED BY <1>13, <3>7
  <2>4. CASE Awaits(e, path, rest2)
    BY <2>4 DEF Pending, rest2
  <2> QED BY <1>10, <1>13, <2>2, <2>3, <2>4
<1>17. fs2 # <<>>
  <2>1. Len(fs2) # 0
    BY <1>1, <1>7
  <2> QED BY <1>7, <2>1, SeqLength
<1>18. Exact(p, model, cap, count + 1, ss2, fs2, path, h)
  BY <1>12, <1>14, <1>16, <1>17 DEF Exact
<1> QED BY <1>18 DEF ss2, q, fs2

\* s is the state that step leads to.
Leads(p, from, step, s) == s = execute_enabled_step(p, from, step).state

\* The frames after the last one has taken a step and called for the state s.
Deeper(p, fs, step, s) == Append([fs EXCEPT ![Len(fs)].rest = @ \ {step}],
                                 [state |-> s, rest |-> enabled_steps(p, s)])

IsDeeper(p, fs, n, step, s, fs2) ==
    /\ IsSeq(fs2) /\ fs2 # <<>>
    /\ \A i \in 1 .. n + 1 : FrameStates(fs2)[i] = FrameStates(fs)[i]
    /\ FrameStates(fs2)[n + 2] = s
    /\ \A i \in 1 .. n : FrameRests(fs2)[i] = FrameRests(fs)[i]
    /\ FrameRests(fs2)[n + 1] = FrameRests(fs)[n + 1] \ {step}
    /\ FrameRests(fs2)[n + 2] = enabled_steps(p, s)

LEMMA FramesAfter ==
    ASSUME NEW p, NEW model, NEW fs, NEW path, NEW h, NEW R, NEW ss,
           Walking(p, model, fs, path, h, R, ss), NEW step \in fs[Len(fs)].rest, NEW s
    PROVE  IsDeeper(p, fs, Len(path), step, s, Deeper(p, fs, step, s))
<1> DEFINE n == Len(path)
           f == [state |-> s, rest |-> enabled_steps(p, s)]
           taken == [fs EXCEPT ![Len(fs)].rest = @ \ {step}]
           fs2 == Append(taken, f)
           rest == FrameRests(fs)
           rest2 == FrameRests(fs2)
           S == FrameStates(fs)
           T == FrameStates(fs2)
<1>1. /\ Len(fs) = n + 1 /\ n \in Nat /\ IsSeq(fs) /\ Len(fs) \in 1 .. Len(fs)
      /\ \A i \in 1 .. Len(fs) : IsFrame(p, fs[i])
  BY WalkingTop DEF Walking
<1>2. f.rest = enabled_steps(p, s)
  OBVIOUS
<1>7. /\ \A i \in 1 .. n + 1 : T[i] = S[i]
      /\ T[n + 2] = s
  <2>2. /\ \A i \in 1 .. Len(path) + 1 : FrameStates(fs2)[i] = FrameStates(fs)[i]
        /\ FrameStates(fs2)[Len(path) + 2] = s
        /\ \A h3, R3 : Standing(p, model, Append(path, step), FrameStates(fs2), h3, R3)
             => Walking(p, model, fs2, Append(path, step), h3, R3, ss)
    BY WalkingPush
  <2> HIDE DEF fs2
  <2> QED BY <2>2
<1>8. /\ IsSeq(taken) /\ Len(taken) = n + 1
      /\ \A i \in 1 .. n : FrameRests(taken)[i] = rest[i]
      /\ FrameRests(taken)[n + 1] = rest[n + 1] \ {step}
  <2>1. IsSeq(taken) /\ Len(taken) = Len(fs)
    BY <1>1, FrameTakes
  <2>2. /\ \A i \in 1 .. Len(fs) - 1 : FrameRests(taken)[i] = rest[i]
        /\ FrameRests(taken)[Len(fs)] = rest[Len(fs)] \ {step}
    BY <1>1, RestsTake
  <2>3. Len(fs) - 1 = n
    BY <1>1
  <2> HIDE DEF taken, rest
  <2> QED BY <1>1, <2>1, <2>2, <2>3
<1> HIDE DEF taken, f
<1>9. /\ IsSeq(fs2) /\ Len(fs2) = n + 2 /\ fs2[n + 2] = f
      /\ \A i \in 1 .. n + 1 : fs2[i] = taken[i]
  <2>1. /\ IsSeq(fs2) /\ Len(fs2) = Len(taken) + 1 /\ fs2[Len(taken) + 1] = f
        /\ \A i \in 1 .. Len(taken) : fs2[i] = taken[i]
    BY <1>8, SeqAppend
  <2>2. Len(taken) + 1 = n + 2
    BY <1>1, <1>8
  <2> HIDE DEF fs2
  <2> QED BY <1>8, <2>1, <2>2
<1> HIDE DEF fs2
<1>10. /\ \A i \in 1 .. n : rest2[i] = rest[i]
       /\ rest2[n + 1] = rest[n + 1] \ {step}
       /\ rest2[n + 2] = enabled_steps(p, s)
  <2>1. \A i \in 1 .. Len(taken) : FrameRests(taken)[i] = taken[i].rest
    BY <1>8, RestsAre
  <2>2. \A i \in 1 .. Len(fs2) : rest2[i] = fs2[i].rest
    BY <1>9, RestsAre
  <2> HIDE DEF rest, rest2
  <2>3. /\ \A i \in 1 .. n : i \in 1 .. n + 1 /\ i \in 1 .. n + 2
        /\ n + 1 \in 1 .. n + 1 /\ n + 1 \in 1 .. n + 2 /\ n + 2 \in 1 .. n + 2
    BY <1>1
  <2>4. \A i \in 1 .. n : rest2[i] = rest[i]
    BY <1>8, <1>9, <2>1, <2>2, <2>3
  <2>5. rest2[n + 1] = rest[n + 1] \ {step}
    BY <1>8, <1>9, <2>1, <2>2, <2>3
  <2>6. rest2[n + 2] = enabled_steps(p, s)
    BY <1>2, <1>9, <2>2, <2>3
  <2> QED BY <2>4, <2>5, <2>6
<1>11. fs2 # <<>>
  <2>1. Len(fs2) # 0
    BY <1>1, <1>9
  <2> QED BY <1>9, <2>1, SeqLength
<1> HIDE DEF n
<1>12. IsDeeper(p, fs, n, step, s, fs2)
  BY <1>7, <1>9, <1>10, <1>11 DEF IsDeeper
<1> QED BY <1>12 DEF Deeper, fs2, n, taken, f

\* A step that does not end the execution: the call for the state it leads to.
LEMMA ExactPush ==
    ASSUME NEW p, NEW model, NEW cap \in Nat, NEW count, NEW fs, NEW path, NEW h, NEW R, NEW ss,
           Walking(p, model, fs, path, h, R, ss), fs # <<>>,
           Exact(p, model, cap, count, ss, fs, path, h), count < cap,
           NEW step \in ScheduleStep, IsLeast(step, fs[Len(fs)].rest),
           ~StopsWith(p, step, FrameStates(fs), Len(path) + 1),
           NEW s, Leads(p, fs[Len(fs)].state, step, s)
    PROVE  Exact(p, model, cap, count, ss, Deeper(p, fs, step, s),
                 Append(path, step), Observed(p, h, s, Len(path) + 1))
<1> DEFINE n == Len(path)
           top == fs[Len(fs)]
           q == Append(path, step)
           fs2 == Deeper(p, fs, step, s)
           rest == FrameRests(fs)
           rest2 == FrameRests(fs2)
           S == FrameStates(fs)
           T == FrameStates(fs2)
           h2 == Observed(p, h, s, n + 1)
<1>1. /\ Len(fs) = n + 1 /\ IsFrame(p, top) /\ S[n + 1] = top.state /\ n \in Nat
      /\ path \in Seq(ScheduleStep) /\ IsSeq(fs) /\ IsSeq(ss) /\ Len(fs) \in 1 .. Len(fs)
      /\ \A i \in 1 .. Len(fs) : IsFrame(p, fs[i])
  BY WalkingTop DEF Walking
<1>3. rest[n + 1] = top.rest
  <2>1. rest[Len(fs)] = top.rest
    BY <1>1, RestsAre
  <2> QED BY <1>1, <2>1
<1>4. step \in enabled_steps(p, S[n + 1]) /\ step \in rest[n + 1] /\ step \in top.rest
      /\ \A x \in rest[n + 1] \ {step} : StepLess(step, x)
  BY <1>1, <1>3 DEF IsFrame, IsLeast
<1>5. /\ Listed(p, model, cap, count, ss) /\ Searched(p, model, fs, path, h, ss)
      /\ \A e : IsComplete(p, model, e) =>
            e \in Range(ss) \/ LeftOut(cap, count, ss, e) \/ Pending(p, fs, path, e)
  BY DEF Exact
<1>6. /\ Opens(p, model, path, S, n) /\ h = Remembered(p, S, n + 1)
      /\ Ahead(path, rest) /\ \A c \in Range(ss) : Behind(c, path, rest)
  BY <1>5 DEF Searched
<1>7. /\ IsSeq(fs2) /\ fs2 # <<>>
      /\ \A i \in 1 .. n + 1 : T[i] = S[i]
      /\ T[n + 2] = s
      /\ \A i \in 1 .. n : rest2[i] = rest[i]
      /\ rest2[n + 1] = rest[n + 1] \ {step}
      /\ rest2[n + 2] = enabled_steps(p, s)
  <2>1. step \in fs[Len(fs)].rest
    BY <1>4
  <2>2. IsDeeper(p, fs, n, step, s, fs2)
    BY <2>1, FramesAfter
  <2> HIDE DEF fs2, n
  <2> QED BY <2>2 DEF IsDeeper
<1> HIDE DEF fs2
<1>11. q \in Seq(ScheduleStep) /\ Len(q) = n + 1 /\ q[n + 1] = step
       /\ \A i \in 1 .. n : q[i] = path[i]
  BY <1>1
<1> HIDE DEF rest, rest2, S, T
<1>12. /\ Ahead(q, rest2)
       /\ \A c : Behind(c, path, rest) => Behind(c, q, rest2)
       /\ \A e : Awaits(e, path, rest) => Awaits(e, q, rest2) \/ Continues(e, q)
  BY <1>1, <1>4, <1>6, <1>7, OrderPush
<1> HIDE DEF q
<1>13. Opens(p, model, q, T, n + 1)
  <2>1. Opens(p, model, q, T, n)
    <3>1. n \in 0 .. n /\ \A i \in 1 .. n : path[i] = q[i]
      BY <1>1, <1>11
    <3>2. \A i \in 1 .. n + 1 : S[i] = T[i]
      BY <1>7
    <3> HIDE DEF n
    <3> QED BY <1>1, <1>6, <3>1, <3>2, OpensPrefix
  <2>2. PassesOn(p, q, T, n + 1)
    <3> DEFINE m == n + 1
    <3>1. m \in Nat \ {0} /\ m \in 1 .. m /\ m + 1 = n + 2
      BY <1>1
    <3>2. T[m] = S[m] /\ q[m] = step /\ S[m] = top.state /\ T[m + 1] = s
      BY <1>1, <1>7, <1>11, <3>1
    <3>7. s = execute_enabled_step(p, top.state, step).state
      BY DEF Leads
    <3>3. ~StopsWith(p, step, S, m) /\ step \in enabled_steps(p, S[m])
      BY <1>4 DEF S
    <3>4. \A j \in 1 .. m : S[j] = T[j]
      BY <1>7
    <3> HIDE DEF m
    <3>5. ~StopsWith(p, step, T, m)
      BY <3>1, <3>3, <3>4, StopsSame
    <3>6. PassesOn(p, q, T, m)
      BY <3>2, <3>3, <3>5, <3>7 DEF PassesOn
    <3> QED BY <3>6 DEF m
  <2>3. \A i \in 1 .. n + 1 : i \in 1 .. n \/ i = n + 1
    BY <1>1
  <2> QED BY <2>1, <2>2, <2>3 DEF Opens
<1>14. h2 = Remembered(p, T, n + 2)
  <2> DEFINE m == n + 1
  <2>1. m \in Nat /\ m + 1 = n + 2 /\ \A i \in 1 .. m : T[i] = S[i]
    BY <1>1, <1>7
  <2>2. h = Remembered(p, S, m) /\ T[m + 1] = s
    BY <1>6, <1>7, <2>1
  <2> HIDE DEF m
  <2>3. Observed(p, Remembered(p, S, m), T[m + 1], m) = Remembered(p, T, m + 1)
    BY <2>1, RememberedMore
  <2>4. Observed(p, h, s, m) = Remembered(p, T, m + 1)
    BY <2>2, <2>3
  <2> QED BY <2>1, <2>4 DEF m
<1>15. Searched(p, model, fs2, q, h2, ss)
  <2>1. Len(q) = n + 1 /\ Len(q) + 1 = n + 2
    BY <1>1, <1>11
  <2>2. \A c \in Range(ss) : Behind(c, q, rest2)
    BY <1>6, <1>12
  <2>3. Opens(p, model, q, T, Len(q)) /\ h2 = Remembered(p, T, Len(q) + 1)
    BY <1>13, <1>14, <2>1
  <2> HIDE DEF h2
  <2> QED BY <1>12, <2>2, <2>3 DEF Searched, T, rest2
<1>16. ~(count >= cap)
  <2>1. count \in Nat
    BY <1>5, SeqLength DEF Listed
  <2> QED BY <2>1
<1>17. ASSUME NEW e, IsComplete(p, model, e)
       PROVE  e \in Range(ss) \/ Pending(p, fs2, q, e)
  <2>1. e \in Range(ss) \/ Pending(p, fs, path, e)
    BY <1>5, <1>16, <1>17 DEF LeftOut
  <2>2. e \in Range(ss) \/ Awaits(e, path, rest)
    BY <1>4, <2>1 DEF Pending, S, rest
  <2>3. CASE Awaits(e, q, rest2)
    BY <2>3 DEF Pending, rest2
  <2>4. CASE Continues(e, q)
    <3> DEFINE m == n + 1
    <3>0. /\ m \in Nat /\ m \in 0 .. m /\ Len(q) = m /\ m + 1 = n + 2
          /\ m + 1 \in 1 .. m + 1 /\ m + 1 - 1 = m
      BY <1>1, <1>11
    <3>1. /\ IsSeq(e) /\ m <= Len(e) /\ Len(e) \in Nat /\ \A i \in 1 .. m : e[i] = q[i]
      BY <2>4, <3>0, SeqLength DEF Continues
    <3>2. Opens(p, model, q, T, m) /\ rest2[m + 1] = enabled_steps(p, T[m + 1])
      BY <1>7, <1>13, <3>0
    <3> HIDE DEF m
    <3>3. /\ e \in Seq(ScheduleStep)
          /\ m = Len(e) => enabled_steps(p, T[m + 1]) = {}
          /\ m < Len(e) => /\ e[m + 1] \in enabled_steps(p, T[m + 1])
                           /\ StopsWith(p, e[m + 1], T, m + 1) => Len(e) = m + 1
      <4>1. m \in Nat /\ m \in 0 .. m /\ m <= Len(e) /\ \A i \in 1 .. m : e[i] = q[i]
        BY <3>0, <3>1
      <4>2. Opens(p, model, q, T, m)
        BY <3>2
      <4> QED BY <1>17, <4>1, <4>2, CompleteFollows
    <3>4. CASE m = Len(e)
      <4>1. Len(e) = Len(q) /\ \A i \in 1 .. Len(e) : e[i] = q[i]
        BY <3>0, <3>1, <3>4
      <4>2. e = q
        BY <1>11, <3>3, <4>1, SeqEqual
      <4>3. enabled_steps(p, T[Len(q) + 1]) = {}
        BY <3>0, <3>3, <3>4
      <4> QED BY <4>2, <4>3 DEF Pending, T
    <3>5. CASE m # Len(e)
      <4>1. m < Len(e) /\ m + 1 <= Len(e)
        BY <3>0, <3>1, <3>5
      <4>2. e[m + 1] \in rest2[m + 1]
        BY <3>2, <3>3, <4>1
      <4>3. Reaches(e, q, m + 1)
        BY <3>0, <3>1, <4>1 DEF Reaches
      <4>4. Awaits(e, q, rest2)
        BY <3>0, <4>2, <4>3 DEF Awaits
      <4> QED BY <4>4 DEF Pending, rest2
    <3> QED BY <3>4, <3>5
  <2> QED BY <1>12, <2>2, <2>3, <2>4
<1>18. Exact(p, model, cap, count, ss, fs2, q, h2)
  BY <1>5, <1>15, <1>7, <1>17 DEF Exact
<1> QED BY <1>18 DEF q, fs2

-----------------------------------------------------------------------------
(***************************************************************************)
(* Every action keeps it.                                                  *)
(***************************************************************************)
LEMMA InitExact == Init => ExactInv
<1> SUFFICES ASSUME Init PROVE ExactInv
  OBVIOUS
<1> DEFINE s == initial_state(program, memory_model)
           f == [state |-> s, rest |-> enabled_steps(program, s)]
           none == <<>>
           S == FrameStates(frames)
           rest == FrameRests(frames)
<1>1. /\ program \in Programs /\ memory_model \in MemoryModel /\ max_schedules \in Nat
      /\ frames = <<f>> /\ history = initial_state_history(program, s)
      /\ schedule = none /\ schedules = none /\ result = NoResult
  BY SearchAssumption DEF Init, Frame
<1>2. IsSeq(frames) /\ Len(frames) = 1 /\ frames[1] = f
  <2> HIDE DEF f
  <2>1. <<f>> \in Seq({f}) /\ Len(<<f>>) = 1 /\ <<f>>[1] = f
    OBVIOUS
  <2> QED BY <1>1, <2>1 DEF IsSeq
<1>3. IsSeq(none) /\ Len(none) = 0 /\ Range(none) = {}
  <2>1. none \in Seq({}) /\ Len(none) = 0 /\ DOMAIN none = {}
    OBVIOUS
  <2> HIDE DEF none
  <2> QED BY <2>1 DEF IsSeq, Range
<1>4. S[1] = s /\ rest[1] = enabled_steps(program, s)
  <2>1. f.state = s /\ f.rest = enabled_steps(program, s)
    OBVIOUS
  <2>2. 1 \in 1 .. Len(frames)
    BY <1>2
  <2>3. S[1] = frames[1].state /\ rest[1] = frames[1].rest
    BY <1>2, <2>2, FramesAre, RestsAre
  <2> HIDE DEF f, S, rest
  <2> QED BY <1>2, <2>1, <2>3
<1>5. frames # <<>>
  BY <1>2, SeqLength
<1> HIDE DEF none, s, f
<1>6. Opens(program, memory_model, none, S, 0)
  BY <1>4 DEF Opens, s
<1>7. history = Remembered(program, S, 1)
  <2>1. {[key |-> behavioral_state_fingerprint(S[i]), position |-> i - 1] : i \in 1 .. 1} =
        {[key |-> behavioral_state_fingerprint(s), position |-> 0]}
    <3>1. 1 .. 1 = {1} /\ 1 - 1 = 0
      OBVIOUS
    <3> HIDE DEF S
    <3> QED BY <1>4, <3>1
  <2> QED BY <1>1, <2>1 DEF Remembered, initial_state_history
<1> HIDE DEF S, rest
<1>8. Listed(program, memory_model, max_schedules, 0, none)
  BY <1>1, <1>3 DEF Listed
<1>9. Searched(program, memory_model, frames, none, history, none)
  <2>1. Ahead(none, rest)
    BY <1>3 DEF Ahead
  <2>2. Opens(program, memory_model, none, S, Len(none))
        /\ history = Remembered(program, S, Len(none) + 1)
    BY <1>3, <1>6, <1>7
  <2> QED BY <1>3, <2>1, <2>2 DEF Searched, S, rest
<1>10. ASSUME NEW e, IsComplete(program, memory_model, e)
       PROVE  Pending(program, frames, none, e)
  <2>1. e \in Seq(ScheduleStep) /\ Len(e) \in Nat
    <3>1. e \in Seq(ScheduleStep)
      BY <1>10 DEF IsComplete, CompleteAt
    <3> QED BY <3>1
  <2>2. /\ 0 = Len(e) => enabled_steps(program, S[0 + 1]) = {}
        /\ 0 < Len(e) => e[0 + 1] \in enabled_steps(program, S[0 + 1])
    <3> DEFINE q == 0
    <3>1. q \in Nat /\ q \in 0 .. q /\ q <= Len(e) /\ \A i \in 1 .. q : e[i] = none[i]
      BY <2>1
    <3>2. Opens(program, memory_model, none, S, q)
      BY <1>6
    <3> HIDE DEF q
    <3>3. /\ e \in Seq(ScheduleStep)
          /\ q = Len(e) => enabled_steps(program, S[q + 1]) = {}
          /\ q < Len(e) => /\ e[q + 1] \in enabled_steps(program, S[q + 1])
                           /\ StopsWith(program, e[q + 1], S, q + 1) => Len(e) = q + 1
      BY <1>10, <3>1, <3>2, CompleteFollows
    <3> QED BY <3>3 DEF q
  <2>3. CASE Len(e) = 0
    <3>1. e = none
      <4>1. e = <<>>
        BY <2>1, <2>3
      <4> QED BY <4>1 DEF none
    <3>2. enabled_steps(program, S[Len(none) + 1]) = {}
      BY <1>3, <2>2, <2>3
    <3> QED BY <3>1, <3>2 DEF Pending, S
  <2>4. CASE Len(e) # 0
    <3>1. 1 <= Len(e) /\ 1 \in 1 .. Len(none) + 1 /\ e[1] \in rest[1]
      BY <1>3, <1>4, <2>1, <2>2, <2>4
    <3>2. Reaches(e, none, 1)
      BY <2>1, <3>1 DEF Reaches, IsSeq
    <3>3. Awaits(e, none, rest)
      BY <3>1, <3>2 DEF Awaits
    <3> QED BY <3>3 DEF Pending, rest
  <2> QED BY <2>3, <2>4
<1>11. result.schedules_explored = 0
  BY <1>1 DEF NoResult
<1>12. Exact(program, memory_model, max_schedules, result.schedules_explored, schedules,
             frames, schedule, history)
  BY <1>1, <1>5, <1>8, <1>9, <1>10, <1>11 DEF Exact
<1> QED BY <1>12, InitNaiveInv DEF ExactInv

\* A schedule counted is one more.
LEMMA CountsOne ==
    ASSUME NEW p, NEW model, NEW s, NEW R, NEW R2, Counted(p, model, s, R, R2)
    PROVE  R2.schedules_explored = R.schedules_explored + 1
<1>1. PICK r \in ReplayOf(p, s, model) :
        /\ r.schedules_explored = 1
        /\ \A counter \in CountFields : R2[counter] = R[counter] + r[counter]
  BY DEF Counted
<1>2. "schedules_explored" \in CountFields
  BY DEF CountFields
<1>3. R2["schedules_explored"] = R["schedules_explored"] + r["schedules_explored"]
  BY <1>1, <1>2
<1> QED BY <1>1, <1>3

\* The cap as a number of schedules.
LEMMA BelowCap ==
    ASSUME ExactInv
    PROVE  /\ result.schedules_explored \in Nat /\ max_schedules \in Nat
           /\ ~capped => result.schedules_explored < max_schedules
<1>1. result.schedules_explored \in Nat /\ max_schedules \in Nat
  <2>1. /\ IsSeq(schedules) /\ Len(schedules) = result.schedules_explored
    BY DEF ExactInv, Exact, Listed
  <2>2. Len(schedules) \in Nat
    BY <2>1, SeqLength
  <2> QED BY <2>1, <2>2 DEF ExactInv, NaiveInv
<1> QED BY <1>1 DEF capped

LEMMA LeafExact == ASSUME ExactInv, Leaf PROVE ExactInv'
<1>1. NaiveInv /\ NaiveInv'
  BY LeafExplores DEF ExactInv
<1>2. Walking(program, memory_model, frames, schedule, history, result, schedules)
  BY <1>1, Walks DEF Leaf
<1>3. /\ frames # <<>> /\ ~capped /\ UNCHANGED params
      /\ enabled_steps(program, frames[Len(frames)].state) = {}
      /\ result' = WithDeadlock(WithLeaf(result), program, Top.state, schedule)
      /\ schedules' = Append(schedules, schedule)
      /\ frames' = Front(frames)
      /\ schedule' = IF schedule = <<>> THEN schedule ELSE Front(schedule)
      /\ history' = IF schedule = <<>> THEN history ELSE Restored(history, Len(schedule))
  BY DEF Leaf, Pop, Finished, Top
<1>4. FrameStates(frames)[Len(schedule) + 1] = Top.state
  BY <1>2, WalkingTop DEF Top
<1>5. Counted(program, memory_model, schedule, result, result')
  BY <1>2, <1>3, <1>4, LeafCounted DEF Walking, Top
<1>6. result'.schedules_explored = result.schedules_explored + 1
  BY <1>5, CountsOne
<1>7. /\ result.schedules_explored < max_schedules /\ max_schedules \in Nat
      /\ Exact(program, memory_model, max_schedules, result.schedules_explored, schedules,
               frames, schedule, history)
  BY <1>3, BelowCap DEF ExactInv
<1>8. Exact(program, memory_model, max_schedules, result.schedules_explored + 1,
            Append(schedules, schedule), Front(frames), schedule', history')
  BY <1>2, <1>3, <1>7, ExactLeaf
<1>9. Exact(program', memory_model', max_schedules', result'.schedules_explored, schedules',
            frames', schedule', history')
  BY <1>3, <1>6, <1>8 DEF params
<1> QED BY <1>1, <1>9 DEF ExactInv

LEMMA ReturnExact == ASSUME ExactInv, Return PROVE ExactInv'
<1>1. NaiveInv /\ NaiveInv'
  BY ReturnExplores DEF ExactInv
<1>2. Walking(program, memory_model, frames, schedule, history, result, schedules)
  BY <1>1, Walks DEF Return
<1>3. /\ frames # <<>> /\ UNCHANGED <<params, result, schedules>>
      /\ frames' = Front(frames)
      /\ schedule' = IF schedule = <<>> THEN schedule ELSE Front(schedule)
      /\ history' = IF schedule = <<>> THEN history ELSE Restored(history, Len(schedule))
  BY DEF Return, Pop, Finished
<1>4. \/ result.schedules_explored >= max_schedules
      \/ frames[Len(frames)].rest = {} /\ enabled_steps(program, frames[Len(frames)].state) # {}
  BY DEF Return, Top, capped
<1>5. /\ max_schedules \in Nat
      /\ Exact(program, memory_model, max_schedules, result.schedules_explored, schedules,
               frames, schedule, history)
  BY BelowCap DEF ExactInv
<1>6. Exact(program, memory_model, max_schedules, result.schedules_explored,
            schedules, Front(frames), schedule', history')
  BY <1>2, <1>3, <1>4, <1>5, ExactReturn
<1>7. Exact(program', memory_model', max_schedules', result'.schedules_explored, schedules',
            frames', schedule', history')
  BY <1>3, <1>6 DEF params
<1> QED BY <1>1, <1>7 DEF ExactInv

\* The step dfs takes next is the least there is, and what it would end with.
LEMMA TakesLeast ==
    ASSUME ExactInv, Taking
    PROVE  /\ Walking(program, memory_model, frames, schedule, history, result, schedules)
           /\ frames # <<>> /\ result.schedules_explored < max_schedules /\ max_schedules \in Nat
           /\ Exact(program, memory_model, max_schedules, result.schedules_explored, schedules,
                    frames, schedule, history)
           /\ NextStep \in ScheduleStep /\ IsLeast(NextStep, frames[Len(frames)].rest)
           /\ NextStep \in enabled_steps(program, Top.state)
           /\ FrameStates(frames)[Len(schedule) + 1] = Top.state
           /\ LET outcome == execute_enabled_step(program, Top.state, NextStep)
              IN  StopsWith(program, NextStep, FrameStates(frames), Len(schedule) + 1) <=>
                     \/ step_bound_reached(Top.state, NextStep.thread)
                     \/ Failed(outcome)
                     \/ CycleStart(history, outcome.state) # {}
<1> DEFINE outcome == execute_enabled_step(program, Top.state, NextStep)
           S == FrameStates(frames)
           n == Len(schedule) + 1
<1>1. /\ Walking(program, memory_model, frames, schedule, history, result, schedules)
      /\ S[n] = Top.state /\ ~capped
      /\ NextStep \in ScheduleStep /\ NextStep \in enabled_steps(program, Top.state)
  BY TakesEnabled DEF ExactInv
<1>2. IsLeast(NextStep, Top.rest)
  <2>1. IsFrame(program, Top) /\ enabled_steps(program, Top.state) \subseteq ScheduleStep
    BY <1>1, WalkingTop DEF Top
  <2>2. Top.rest \in SUBSET ScheduleStep /\ Top.rest # {}
    BY <2>1 DEF IsFrame, Taking
  <2> QED BY <2>2, LeastStepIn DEF NextStep, IsLeast
<1>3. /\ frames # <<>> /\ result.schedules_explored < max_schedules /\ max_schedules \in Nat
      /\ Exact(program, memory_model, max_schedules, result.schedules_explored, schedules,
               frames, schedule, history)
  BY <1>1, BelowCap DEF ExactInv, Taking, Finished
<1>4. history = Remembered(program, S, n) /\ n \in Nat
  <2>1. history = Remembered(program, S, n)
    BY <1>3 DEF Exact, Searched
  <2>2. schedule \in Seq(ScheduleStep)
    BY <1>1, WalkingTop
  <2> QED BY <2>1, <2>2
<1> HIDE DEF S, n
<1>5. CycleStart(history, outcome.state) # {} <=>
         /\ requires_cycle_detection(program)
         /\ \E j \in 1 .. n : behavioral_state_fingerprint(S[j]) =
                                  behavioral_state_fingerprint(outcome.state)
  <2> DEFINE s == outcome.state
  <2> HIDE DEF s
  <2>1. CycleStart(Remembered(program, S, n), s) = {} <=>
           ~(requires_cycle_detection(program)
                /\ \E j \in 1 .. n : behavioral_state_fingerprint(S[j]) =
                                         behavioral_state_fingerprint(s))
    BY <1>4, RememberedCycle
  <2> QED BY <1>4, <2>1 DEF s
<1>6. StopsWith(program, NextStep, S, n) <=>
         \/ step_bound_reached(Top.state, NextStep.thread)
         \/ Failed(outcome)
         \/ CycleStart(history, outcome.state) # {}
  BY <1>1, <1>5 DEF StopsWith
<1> QED BY <1>1, <1>2, <1>3, <1>6 DEF S, n, Top

\* CountPath, for a result that counts the path.
LEMMA CountPathExact ==
    ASSUME ExactInv, Taking, NEW r, CountPath(r, NextStep), NaiveInv',
           Counted(program, memory_model, Append(schedule, NextStep), result, r),
           StopsWith(program, NextStep, FrameStates(frames), Len(schedule) + 1)
    PROVE  ExactInv'
<1> DEFINE step == NextStep
<1>1. /\ Walking(program, memory_model, frames, schedule, history, result, schedules)
      /\ frames # <<>> /\ result.schedules_explored < max_schedules /\ max_schedules \in Nat
      /\ Exact(program, memory_model, max_schedules, result.schedules_explored, schedules,
               frames, schedule, history)
      /\ step \in ScheduleStep /\ IsLeast(step, frames[Len(frames)].rest)
  BY TakesLeast
<1>2. /\ result' = r /\ schedules' = Append(schedules, Append(schedule, step))
      /\ frames' = [frames EXCEPT ![Len(frames)].rest = @ \ {step}]
      /\ UNCHANGED params /\ schedule' = schedule /\ history' = history
  BY DEF CountPath, WithoutStep
<1>3. r.schedules_explored = result.schedules_explored + 1
  BY CountsOne
<1>4. StopsWith(program, step, FrameStates(frames), Len(schedule) + 1)
  OBVIOUS
<1> HIDE DEF step
<1>5. Exact(program, memory_model, max_schedules, result.schedules_explored + 1,
            Append(schedules, Append(schedule, step)),
            [frames EXCEPT ![Len(frames)].rest = @ \ {step}], schedule, history)
  BY <1>1, <1>4, ExactTake
<1>6. Exact(program', memory_model', max_schedules', result'.schedules_explored, schedules',
            frames', schedule', history')
  BY <1>2, <1>3, <1>5 DEF params
<1> QED BY <1>6 DEF ExactInv

LEMMA BoundLeafExact == ASSUME ExactInv, BoundLeaf PROVE ExactInv'
<1>1. Taking /\ step_bound_reached(Top.state, NextStep.thread)
      /\ CountPath(record_bound_exceeded(result), NextStep)
  BY DEF BoundLeaf
<1>2. /\ Walking(program, memory_model, frames, schedule, history, result, schedules)
      /\ FrameStates(frames)[Len(schedule) + 1] = Top.state
      /\ NextStep \in enabled_steps(program, Top.state)
      /\ StopsWith(program, NextStep, FrameStates(frames), Len(schedule) + 1)
  BY <1>1, TakesLeast
<1>3. Counted(program, memory_model, Append(schedule, NextStep), result,
              record_bound_exceeded(result))
  BY <1>1, <1>2, StepCounted DEF Walking
<1>4. NaiveInv'
  BY BoundLeafExplores DEF ExactInv
<1> QED BY <1>1, <1>2, <1>3, <1>4, CountPathExact

LEMMA TakeStepExact == ASSUME ExactInv, TakeStep PROVE ExactInv'
<1> DEFINE step == NextStep
           s == Top.state
           out == execute_enabled_step(program, s, step)
           taken == Append(schedule, step)
           reported == WithStepReport(result, out.report, taken)
           states == FrameStates(frames)
           n == Len(schedule) + 1
<1>1. /\ Taking /\ ~step_bound_reached(s, step.thread)
      /\ FailureLeaf(step, out, reported) \/ CycleLeaf(step, out, reported)
            \/ Descend(step, out, reported)
  BY DEF TakeStep
<1>2. /\ Walking(program, memory_model, frames, schedule, history, result, schedules)
      /\ frames # <<>> /\ result.schedules_explored < max_schedules /\ max_schedules \in Nat
      /\ Exact(program, memory_model, max_schedules, result.schedules_explored, schedules,
               frames, schedule, history)
      /\ step \in ScheduleStep /\ IsLeast(step, frames[Len(frames)].rest)
      /\ step \in enabled_steps(program, s) /\ states[Len(schedule) + 1] = s
      /\ StopsWith(program, step, states, n) <=>
            \/ step_bound_reached(s, step.thread)
            \/ Failed(out)
            \/ CycleStart(history, out.state) # {}
  BY <1>1, TakesLeast
<1>3. Standing(program, memory_model, schedule, states, history, result)
  BY <1>2 DEF Walking
<1>4. NaiveInv'
  BY TakeStepExplores DEF ExactInv
<1>5. CASE FailureLeaf(step, out, reported)
  <2>1. Failed(out) /\ CountPath(WithLeaf(reported), NextStep)
    BY <1>5 DEF FailureLeaf
  <2>2. Counted(program, memory_model, taken, result, WithLeaf(reported))
    BY <1>1, <1>2, <1>3, <2>1, StepCounted
  <2>3. StopsWith(program, NextStep, FrameStates(frames), Len(schedule) + 1)
    BY <1>2, <2>1
  <2> QED BY <1>1, <1>4, <2>1, <2>2, <2>3, CountPathExact
<1>6. CASE CycleLeaf(step, out, reported)
  <2>1. PICK start \in CycleStart(history, out.state) :
           \E report \in make_nontermination_report(program, taken, start, memory_model) :
              CountPath(record_nontermination(reported, report), NextStep)
    BY <1>6 DEF CycleLeaf
  <2>2. PICK report \in make_nontermination_report(program, taken, start, memory_model) :
              CountPath(record_nontermination(reported, report), NextStep)
    BY <2>1
  <2>3. ~Failed(out)
    BY <1>6 DEF CycleLeaf
  <2> DEFINE r == record_nontermination(reported, report)
  <2>4. Counted(program, memory_model, taken, result, r)
    BY <1>1, <1>2, <1>3, <2>1, <2>2, <2>3, StepCounted
  <2>5. StopsWith(program, NextStep, FrameStates(frames), Len(schedule) + 1)
    BY <1>2, <2>1
  <2> QED BY <1>1, <1>4, <2>2, <2>4, <2>5, CountPathExact
<1>7. CASE Descend(step, out, reported)
  <2> DEFINE next == out.state
  <2>1. /\ ~Failed(out) /\ CycleStart(history, next) = {}
        /\ frames' = Deeper(program, frames, step, next)
        /\ schedule' = taken /\ history' = Observed(program, history, next, n)
        /\ result' = reported /\ UNCHANGED <<params, schedules>>
    BY <1>7 DEF Descend, WithoutStep, Frame, Deeper
  <2>2. ~StopsWith(program, step, states, n)
    BY <1>1, <1>2, <2>1
  <2>3. Leads(program, frames[Len(frames)].state, step, next)
    BY DEF Leads, Top
  <2>4. reported.schedules_explored = result.schedules_explored
    <3> HIDE DEF out, taken
    <3> QED BY DEF WithStepReport
  <2> HIDE DEF next, step, states, reported, out, s
  <2>5. Exact(program, memory_model, max_schedules, result.schedules_explored, schedules,
              Deeper(program, frames, step, next), taken, Observed(program, history, next, n))
    BY <1>2, <2>2, <2>3, ExactPush DEF states
  <2>6. Exact(program', memory_model', max_schedules', result'.schedules_explored, schedules',
              frames', schedule', history')
    BY <2>1, <2>4, <2>5 DEF params
  <2> QED BY <1>4, <2>6 DEF ExactInv
<1> QED BY <1>1, <1>5, <1>6, <1>7

LEMMA ExactInvariance == Spec => []ExactInv
<1>1. Init => ExactInv
  BY InitExact
<1>2. ExactInv /\ [Next \/ (Finished /\ UNCHANGED vars)]_vars => ExactInv'
  <2> SUFFICES ASSUME ExactInv, [Next \/ (Finished /\ UNCHANGED vars)]_vars PROVE ExactInv'
    OBVIOUS
  <2>1. CASE UNCHANGED vars
    BY <2>1 DEF vars, params, ExactInv, NaiveInv, Finished
  <2>2. CASE Next
    BY <2>2, LeafExact, ReturnExact, BoundLeafExact, TakeStepExact DEF Next
  <2> QED BY <2>1, <2>2
<1> QED BY <1>1, <1>2, PTL DEF Spec

\* When dfs returns, what it has counted are, each once and in lexicographic order, the
\* complete schedules of the program, and all of them unless the cap is met; then those it
\* leaves out come after all it has counted.  This holds of any program, memory model, step
\* bound and cap, and the schedules there are do not depend on the search.
THEOREM SearchIsExact == Spec => []ExactSearch
<1>1. ExactInv => ExactSearch
  <2> SUFFICES ASSUME ExactInv, Finished PROVE ExactSearch
    BY DEF ExactSearch
  <2>1. /\ program \in Programs /\ memory_model \in MemoryModel /\ max_schedules \in Nat
        /\ Listed(program, memory_model, max_schedules, result.schedules_explored, schedules)
    BY DEF ExactInv, NaiveInv, Exact
  <2>2. /\ IsSeq(schedules) /\ Len(schedules) = result.schedules_explored
        /\ Len(schedules) <= max_schedules /\ Len(schedules) \in Nat
        /\ \A i \in 1 .. Len(schedules) - 1 : Earlier(schedules[i], schedules[i + 1])
        /\ \A c \in Range(schedules) : IsComplete(program, memory_model, c)
    BY <2>1, SeqLength DEF Listed
  <2>3. \A e : e \in Executions <=> IsComplete(program, memory_model, e)
    BY <2>1, ExecutionsAre
  <2>4. Range(schedules) \subseteq Executions
    BY <2>2, <2>3
  <2>5. ASSUME NEW left \in Executions \ Range(schedules)
        PROVE  /\ Len(schedules) = max_schedules
               /\ schedules # <<>> => Earlier(Last(schedules), left)
    <3>1. IsComplete(program, memory_model, left)
      BY <2>3, <2>5
    <3>2. LeftOut(max_schedules, result.schedules_explored, schedules, left)
      BY <2>5, <3>1 DEF ExactInv, Exact, Finished
    <3>3. /\ Len(schedules) >= max_schedules
          /\ schedules # <<>> => Earlier(Last(schedules), left)
      BY <2>2, <3>2 DEF LeftOut
    <3> QED BY <2>1, <2>2, <3>3
  <2> QED BY <2>2, <2>4, <2>5 DEF ExactSearch
<1> QED BY <1>1, ExactInvariance, PTL
=============================================================================
