---------------------------- MODULE AccessProofs ----------------------------
(***************************************************************************)
(* Race detection, proved for every program and memory model: a reported   *)
(* race is a race of the access histories, clocks are causally closed, and *)
(* in programs without backward branches no race of the histories goes     *)
(* unreported.                                                             *)
(*                                                                         *)
(* All three rest on what one step does to the histories: it records       *)
(* nothing and reports no race, or it records one access, with the clock   *)
(* its thread has after the step, and reports races of that access with    *)
(* accesses recorded before it.                                            *)
(***************************************************************************)
EXTENDS InterpreterProofs

-----------------------------------------------------------------------------
(***************************************************************************)
(* Program counters of programs without backward branches.                 *)
(***************************************************************************)
Forward(s, r) == \A u \in ThreadId : s.pc[u] <= r.pc[u]

CounterIs(r, k) == "pc" \in DOMAIN r /\ r.pc = k

\* Nothing but advancing, branching, spawning and opening a barrier touches counters.
LEMMA CounterParts ==
    ASSUME NEW r, NEW k, CounterIs(r, k), NEW t
    PROVE  /\ \A m : CounterIs(AcquireMutex(r, t, m), k) /\ CounterIs(ReleaseMutex(r, t, m), k)
           /\ \A i, v : CounterIs(write_register(r, t, i, v), k)
           /\ \A p, c, woken : CounterIs(Wake(p, r, t, c, woken), k)
           /\ \A i, v, l, w : CounterIs([r EXCEPT !.thread_clock[i] = v, !.rwlocks[l] = w], k)
           /\ \A l, w : CounterIs([r EXCEPT !.rwlocks[l] = w], k)
           /\ \A i, v, l, w : CounterIs([r EXCEPT !.semaphores[l] = w, !.thread_clock[i] = v], k)
           /\ \A l, w : CounterIs([r EXCEPT !.semaphores[l] = w], k)
           /\ \A l, w : CounterIs([r EXCEPT !.barriers[l] = w], k)
           /\ \A i, v : CounterIs([r EXCEPT !.thread_clock[i] = v], k)
BY DEF CounterIs, AcquireMutex, ReleaseMutex, write_register, Wake

CountersAt(out, k) == CounterIs(out.state, k)

LEMMA CounterOutcomes ==
    ASSUME NEW r, NEW k, CounterIs(r, k)
    PROVE  /\ CountersAt(Done(r), k)
           /\ \A step, message : CountersAt(ModelError(r, step, message), k)
           /\ \A x : CountersAt([state |-> r, report |-> x], k)
BY DEF CountersAt, Done, ModelError

\* Where the counters stand after the effects that advance their thread...
LEMMA CountersAdvanced ==
    ASSUME NEW p, NEW s, "pc" \in DOMAIN s, NEW step, NEW a
    PROVE  LET k == advance_pc(p, s, step.thread).pc
           IN  /\ a.kind \in MutexKinds => CountersAt(MutexEffect(p, s, step, a), k)
               /\ a.kind \in RwLockKinds => CountersAt(RwLockEffect(p, s, step, a), k)
               /\ a.kind \in {"Set", "Assert", "Fence", "Yield"} =>
                     CountersAt(LocalEffect(p, s, step, a), k)
               /\ a.kind \in NotifyKinds \cup SemaphoreKinds \cup {"Join"} =>
                     CountersAt(OtherSyncEffect(p, s, step, a), k)
<1> DEFINE t == step.thread
           k == advance_pc(p, s, t).pc
<1>1. CounterIs(advance_pc(p, s, t), k) /\ CounterIs(s, s.pc)
  BY DEF CounterIs, advance_pc
<1>2. \A r : CounterIs(r, s.pc) => CounterIs(advance_pc(p, r, t), k)
  BY DEF CounterIs, advance_pc
<1> HIDE DEF k
<1>3. a.kind = "Lock" => CountersAt(MutexEffect(p, s, step, a), k)
  BY <1>1, CounterParts, CounterOutcomes DEF MutexEffect, LockEffect
<1>4. a.kind = "TryLock" => CountersAt(MutexEffect(p, s, step, a), k)
  BY <1>1, CounterParts, CounterOutcomes DEF MutexEffect, TryLockEffect
<1>5. a.kind = "Unlock" => CountersAt(MutexEffect(p, s, step, a), k)
  BY <1>1, CounterParts, CounterOutcomes DEF MutexEffect, UnlockEffect
<1>6. a.kind = "RLock" => CountersAt(RwLockEffect(p, s, step, a), k)
  BY <1>1, CounterParts, CounterOutcomes DEF RwLockEffect, RLockEffect
<1>7. a.kind = "WLock" => CountersAt(RwLockEffect(p, s, step, a), k)
  BY <1>1, CounterParts, CounterOutcomes DEF RwLockEffect, WLockEffect, AcquireExclusive
<1>8. a.kind = "RUnlock" => CountersAt(RwLockEffect(p, s, step, a), k)
  BY <1>1, CounterParts, CounterOutcomes DEF RwLockEffect, RUnlockEffect
<1>9. a.kind = "WUnlock" => CountersAt(RwLockEffect(p, s, step, a), k)
  BY <1>1, CounterParts, CounterOutcomes DEF RwLockEffect, WUnlockEffect, ReleaseExclusive
<1>10. a.kind = "Upgrade" => CountersAt(RwLockEffect(p, s, step, a), k)
  BY <1>1, CounterParts, CounterOutcomes DEF RwLockEffect, UpgradeEffect, AcquireExclusive
<1>11. a.kind = "Downgrade" => CountersAt(RwLockEffect(p, s, step, a), k)
  BY <1>1, CounterParts, CounterOutcomes DEF RwLockEffect, DowngradeEffect, ReleaseExclusive
<1>12. a.kind = "Set" => CountersAt(LocalEffect(p, s, step, a), k)
  BY <1>1, <1>2, CounterParts, CounterOutcomes DEF LocalEffect, SetEffect
<1>13. a.kind = "Assert" => CountersAt(LocalEffect(p, s, step, a), k)
  BY <1>1, CounterOutcomes DEF LocalEffect, AssertEffect
<1>14. a.kind \in {"Fence", "Yield"} => CountersAt(LocalEffect(p, s, step, a), k)
  BY <1>1, CounterOutcomes DEF LocalEffect
<1>15. a.kind = "Signal" => CountersAt(OtherSyncEffect(p, s, step, a), k)
  BY <1>1, CounterParts, CounterOutcomes DEF OtherSyncEffect, SignalEffect, WaitKinds
<1>16. a.kind = "Broadcast" => CountersAt(OtherSyncEffect(p, s, step, a), k)
  BY <1>1, CounterParts, CounterOutcomes DEF OtherSyncEffect, BroadcastEffect, WaitKinds
<1>17. a.kind = "SemPost" => CountersAt(OtherSyncEffect(p, s, step, a), k)
  BY <1>1, CounterParts, CounterOutcomes DEF OtherSyncEffect, SemPostEffect, WaitKinds
<1>18. a.kind = "SemWait" => CountersAt(OtherSyncEffect(p, s, step, a), k)
  BY <1>1, CounterParts, CounterOutcomes DEF OtherSyncEffect, SemWaitEffect, WaitKinds
<1>19. a.kind = "Join" => CountersAt(OtherSyncEffect(p, s, step, a), k)
  BY <1>1, CounterParts, CounterOutcomes DEF OtherSyncEffect, JoinEffect, WaitKinds
<1> QED BY <1>3, <1>4, <1>5, <1>6, <1>7, <1>8, <1>9, <1>10, <1>11, <1>12, <1>13, <1>14, <1>15,
       <1>16, <1>17, <1>18, <1>19
       DEF MutexKinds, RwLockKinds, NotifyKinds, SemaphoreKinds, k

\* ... and after those of a wait, which advances when it returns.
LEMMA CountersWaiting ==
    ASSUME NEW p, NEW s, "pc" \in DOMAIN s, NEW step, NEW a, a.kind \in WaitKinds,
           s.wait_phase[step.thread] \in WaitPhase,
           a.kind = "Wait" => s.wait_phase[step.thread] # "Waiting"
    PROVE  \/ CountersAt(OtherSyncEffect(p, s, step, a), advance_pc(p, s, step.thread).pc)
           \/ CountersAt(OtherSyncEffect(p, s, step, a), s.pc)
<1> DEFINE t == step.thread
           k == advance_pc(p, s, t).pc
<1>1. \A r : CounterIs(r, s.pc) => CounterIs(advance_pc(p, r, t), k)
  BY DEF CounterIs, advance_pc
<1>2. CounterIs(s, s.pc) /\ CounterIs(advance_pc(p, s, t), k)
  BY DEF CounterIs, advance_pc
<1> HIDE DEF k
<1>3. CountersAt(ReacquireEffect(p, s, step, a), k)
  <2> DEFINE r == AcquireMutex(s, t, a.mutex)
             q == [r EXCEPT !.wait_phase[t] = "None"]
  <2>1. CounterIs(r, s.pc)
    BY <1>2, CounterParts
  <2>2. CounterIs(q, s.pc)
    <3> HIDE DEF r
    <3> QED BY <2>1 DEF CounterIs
  <2>3. ReacquireEffect(p, s, step, a) = Done(advance_pc(p, q, t))
    BY DEF ReacquireEffect
  <2> HIDE DEF q
  <2> QED BY <1>1, <2>2, <2>3, CounterOutcomes
<1>4. CountersAt(TimeoutEffect(s, step, a), s.pc)
  <2> DEFINE r == write_register(s, t, RegisterOr0(a.destination), 0)
             q == [r EXCEPT !.condition_waiters[a.condition] = @ \ {t},
                            !.wait_phase[t] = "Woken"]
  <2>1. CounterIs(r, s.pc)
    BY <1>2, CounterParts
  <2>2. CounterIs(q, s.pc)
    <3> HIDE DEF r
    <3> QED BY <2>1 DEF CounterIs
  <2>3. TimeoutEffect(s, step, a) = Done(q)
    BY DEF TimeoutEffect
  <2> HIDE DEF q
  <2> QED BY <2>2, <2>3, CounterOutcomes
<1>5. CountersAt(ParkEffect(p, s, step, a), s.pc) \/ CountersAt(ParkEffect(p, s, step, a), k)
  <2> DEFINE r == ReleaseMutex(s, t, a.mutex)
             q == [r EXCEPT !.condition_waiters[a.condition] = @ \cup {t},
                            !.wait_phase[t] = "Waiting"]
  <2>1. CounterIs(r, s.pc)
    BY <1>2, CounterParts
  <2>2. CounterIs(q, s.pc)
    <3> HIDE DEF r
    <3> QED BY <2>1 DEF CounterIs
  <2>3. \/ ParkEffect(p, s, step, a) = Done(q)
        \/ ParkEffect(p, s, step, a) = ModelError(advance_pc(p, s, t), step, "wait")
    BY DEF ParkEffect
  <2> HIDE DEF q
  <2> QED BY <1>2, <2>2, <2>3, CounterOutcomes
<1>6. OtherSyncEffect(p, s, step, a) = WaitEffect(p, s, step, a)
  BY DEF OtherSyncEffect, WaitKinds
<1> QED BY <1>3, <1>4, <1>5, <1>6 DEF WaitEffect, WaitKinds, WaitPhase, k

\* The counters a counted state has, and where an advance takes its thread's.
LEMMA AdvanceForward ==
    ASSUME NEW p \in Programs, NEW n, NEW s \in CountedState(p, n), NEW t \in ThreadId,
           s.pc[t] < Len(p[t])
    PROVE  /\ Forward(s, s) /\ Forward(s, advance_pc(p, s, t))
           /\ advance_pc(p, s, t).pc[t] > s.pc[t]
<1>1. s.pc \in [ThreadId -> Nat] /\ s.pc[t] + 1 \in 0 .. Len(p[t])
  BY ActionType DEF CountedState, Counters
<1>2. normalize_pc(p, t, s.pc[t] + 1) \in s.pc[t] + 1 .. Len(p[t])
  BY <1>1, NormalizeType
<1>3. advance_pc(p, s, t).pc = [s.pc EXCEPT ![t] = normalize_pc(p, t, s.pc[t] + 1)]
  BY DEF advance_pc, CountedState
<1> QED BY <1>1, <1>2, <1>3 DEF Forward

\* A taken branch goes to a later action, its program having none that goes back.
LEMMA BranchForward ==
    ASSUME NEW p, NEW n, NEW s, NEW step, NEW a, Steps(p, n, s, step, a),
           a.kind = "BranchNonzero", ~requires_cycle_detection(p)
    PROVE  Forward(s, BranchEffect(p, s, step, a).state)
<1> DEFINE t == step.thread
           target == resolve_label(p, t, a.label)
           j == CHOOSE i \in target : TRUE
           out == BranchEffect(p, s, step, a)
           r == [s EXCEPT !.pc[t] = normalize_pc(p, t, j)]
<1>1. /\ p \in Programs /\ s \in CountedState(p, n) /\ t \in ThreadId /\ s.pc[t] < Len(p[t])
      /\ a = ActionAt(p, t, s.pc[t])
  BY StepsFacts DEF Steps, next_action
<1>2. s.pc \in [ThreadId -> Nat] /\ Len(p[t]) \in Nat
  BY <1>1, ActionType DEF CountedState, Counters
<1>3. \/ target # {} /\ out = Done(r)
      \/ out \in {ModelError(advance_pc(p, s, t), step, "branch"), Done(advance_pc(p, s, t))}
  BY DEF BranchEffect
<1>4. ASSUME target # {} PROVE Forward(s, r)
  <2>1. j \in target
    BY <1>4
  <2>2. j \in 0 .. Len(p[t])
    BY <1>2, <2>1 DEF resolve_label
  <2>3. normalize_pc(p, t, j) \in Nat
    BY <1>1, <1>2, <2>2, NormalizeType
  <2>4. s.pc[t] \in 0 .. Len(p[t]) - 1
    BY <1>1, <1>2
  <2> HIDE DEF j
  <2>5. ~(normalize_pc(p, t, j) <= s.pc[t])
    BY <1>1, <2>1, <2>4 DEF requires_cycle_detection
  <2>6. r.pc = [s.pc EXCEPT ![t] = normalize_pc(p, t, j)]
    BY <1>1 DEF CountedState
  <2> QED BY <1>1, <1>2, <2>3, <2>5, <2>6 DEF Forward
<1>5. Forward(s, advance_pc(p, s, t))
  BY <1>1, AdvanceForward
<1> HIDE DEF r, out
<1> QED BY <1>3, <1>4, <1>5 DEF Done, ModelError, out

\* A spawned thread starts at its first action that is not a label.
LEMMA SpawnForward ==
    ASSUME NEW p, NEW n, NEW s, NEW step, NEW a, Steps(p, n, s, step, a)
    PROVE  Forward(s, SpawnEffect(p, s, step, a).state)
<1> DEFINE t == step.thread
           q == advance_pc(p, s, t)
           u == a.target
           out == SpawnEffect(p, s, step, a)
<1>1. /\ p \in Programs /\ s \in CountedState(p, n) /\ t \in ThreadId /\ s.pc[t] < Len(p[t])
  BY StepsFacts DEF Steps
<1>2. Forward(s, q) /\ q \in CountedState(p, n)
  BY <1>1, AdvanceForward, AdvanceCounted
<1>3. CASE InvalidTarget(t, a) \/ s.started[u]
  BY <1>2, <1>3 DEF SpawnEffect, ModelError
<1>4. CASE ~(InvalidTarget(t, a) \/ s.started[u])
  <2>1. u \in ThreadId
    BY <1>4 DEF InvalidTarget
  <2>2. q.pc \in [ThreadId -> Nat] /\ q.pc[u] \in 0 .. Len(p[u])
    <3>1. /\ q.pc \in [ThreadId -> Nat]
          /\ q.pc[u] \in {normalize_pc(p, u, i) : i \in 0 .. Len(p[u])}
      BY <1>2, <2>1 DEF CountedState, Counters
    <3> HIDE DEF q, u
    <3>2. PICK i \in 0 .. Len(p[u]) : q.pc[u] = normalize_pc(p, u, i)
      BY <3>1
    <3>3. normalize_pc(p, u, i) \in i .. Len(p[u]) /\ Len(p[u]) \in Nat
      BY <1>1, <2>1, NormalizeType, ActionType
    <3> QED BY <3>1, <3>2, <3>3
  <2>3. normalize_pc(p, u, q.pc[u]) \in q.pc[u] .. Len(p[u])
    BY <1>1, <2>1, <2>2, NormalizeType
  <2>4. out.state.pc = [q.pc EXCEPT ![u] = normalize_pc(p, u, q.pc[u])]
    <3> HIDE DEF q
    <3> QED BY <1>2, <1>4 DEF SpawnEffect, CountedState, q
  <2>5. s.pc \in [ThreadId -> Nat]
    BY <1>1 DEF CountedState, Counters
  <2> HIDE DEF out, q
  <2> QED BY <1>2, <2>1, <2>2, <2>3, <2>4, <2>5 DEF Forward, out
<1> QED BY <1>3, <1>4

\* The last arrival at a barrier advances every participant.
LEMMA BarrierForward ==
    ASSUME NEW p, NEW n, NEW s, NEW step, NEW a, Steps(p, n, s, step, a),
           a.kind = "BarrierWait"
    PROVE  Forward(s, BarrierWaitEffect(p, s, step, a).state)
<1> DEFINE t == step.thread
           b == s.barriers[a.barrier]
           parties == b.arrivals \cup {t}
           release_clock == Join(b.arrival_releases, s.thread_clock[t])
           r == ReleaseGeneration(p, s, a.barrier, parties, release_clock)
           out == BarrierWaitEffect(p, s, step, a)
<1>1. /\ p \in Programs /\ s \in CountedState(p, n) /\ t \in ThreadId /\ s.pc[t] < Len(p[t])
      /\ a \in BarrierActions /\ Parked(p, s)
  BY StepsFacts, KindFields DEF Steps, Good
<1>2. a.barrier \in Barriers
  BY <1>1 DEF BarrierActions
<1>3. s.pc \in [ThreadId -> Nat] /\ \A u \in ThreadId : Len(p[u]) \in Nat
  BY <1>1, ActionType DEF CountedState, Counters
<1>4. \A u \in parties : s.pc[u] < Len(p[u])
  BY <1>1, <1>2 DEF Parked, ArrivalsParked, StandsAt, has_next_action
<1>5. Forward(s, r)
  <2>1. r.pc = [u \in ThreadId |-> IF u \in parties THEN normalize_pc(p, u, s.pc[u] + 1)
                                    ELSE s.pc[u]]
    BY <1>1 DEF ReleaseGeneration, CountedState
  <2>2. ASSUME NEW u \in ThreadId, u \in parties
        PROVE  normalize_pc(p, u, s.pc[u] + 1) \in s.pc[u] + 1 .. Len(p[u])
    BY <1>1, <1>3, <1>4, <2>2, NormalizeType
  <2> QED BY <1>3, <2>1, <2>2 DEF Forward
<1>6. /\ "pc" \in DOMAIN s /\ Forward(s, advance_pc(p, s, t))
      /\ \A v : Forward(s, [s EXCEPT !.barriers[a.barrier] = v])
  BY <1>1, AdvanceForward DEF CountedState, Forward
<1>7. Cardinality(parties) < b.parties \/ Cardinality(parties) >= b.parties
  <2>1. b.arrivals \subseteq ThreadId /\ b.parties \in Nat
    BY <1>1, <1>2 DEF CountedState, BarrierBelow
  <2>2. IsFiniteSet(parties)
    <3>1. IsFiniteSet(ThreadId)
      BY SizesAssumption, FS_Interval DEF ThreadId
    <3>2. parties \in SUBSET ThreadId
      BY <1>1, <2>1
    <3> QED BY <3>1, <3>2, FS_Subset
  <2> QED BY <2>1, <2>2, FS_CardinalityType
<1> HIDE DEF r
<1> QED BY <1>5, <1>6, <1>7 DEF BarrierWaitEffect, ModelError, Done, r

\* No source step takes a counter back, and a memory action advances its thread's.
LEMMA SourceForward ==
    ASSUME NEW p, NEW n, NEW s, NEW step, NEW a, Steps(p, n, s, step, a),
           ~requires_cycle_detection(p)
    PROVE  /\ Forward(s, SourceEffect(p, s, step, a).state)
           /\ a.kind \in {"Read", "Write"} \cup AtomicKinds =>
                 SourceEffect(p, s, step, a).state.pc[step.thread] > s.pc[step.thread]
<1> DEFINE t == step.thread
           k == advance_pc(p, s, t).pc
           out == SourceEffect(p, s, step, a)
<1>1. /\ p \in Programs /\ s \in CountedState(p, n) /\ t \in ThreadId /\ s.pc[t] < Len(p[t])
      /\ a \in Action /\ a.kind # "Label"
      /\ a.kind = "Wait" => s.wait_phase[t] # "Waiting"
  BY StepsFacts DEF Steps, is_program_action_enabled
<1>2. "pc" \in DOMAIN s /\ s.wait_phase[t] \in WaitPhase
  BY <1>1 DEF CountedState
<1>3. /\ Forward(s, s) /\ Forward(s, advance_pc(p, s, t)) /\ k[t] > s.pc[t]
  BY <1>1, AdvanceForward
<1>4. out.state.pc \in {s.pc, k} => Forward(s, out.state)
  BY <1>3 DEF Forward
<1> HIDE DEF k
<1>5. CASE a.kind \in {"Read", "Write"} \cup AtomicKinds /\ out = MemoryEffect(p, s, step, a)
  <2>1. out.state.pc = k
    BY <1>1, <1>5, MemoryFrame DEF k
  <2> QED BY <1>3, <1>4, <2>1
<1> DEFINE plain == a.kind \notin {"Read", "Write"} \cup AtomicKinds
<1>6. CASE a.kind \in MutexKinds /\ out = MutexEffect(p, s, step, a)
  <2>1. CountersAt(out, k) /\ plain
    BY <1>2, <1>6, CountersAdvanced DEF k, MutexKinds, AtomicKinds
  <2> QED BY <1>4, <2>1 DEF CountersAt, CounterIs
<1>7. CASE a.kind \in RwLockKinds /\ out = RwLockEffect(p, s, step, a)
  <2>1. CountersAt(out, k) /\ plain
    BY <1>2, <1>7, CountersAdvanced DEF k, RwLockKinds, AtomicKinds
  <2> QED BY <1>4, <2>1 DEF CountersAt, CounterIs
<1>8. CASE /\ a.kind \in {"Set", "BranchNonzero", "Assert", "Fence", "Yield"}
           /\ out = LocalEffect(p, s, step, a)
  <2>1. plain
    BY <1>8 DEF AtomicKinds
  <2>2. CASE a.kind = "BranchNonzero"
    <3>1. out = BranchEffect(p, s, step, a)
      BY <1>8, <2>2 DEF LocalEffect
    <3> QED BY <2>1, <2>2, <3>1, BranchForward
  <2>3. CASE a.kind \in {"Set", "Assert", "Fence", "Yield"}
    <3>1. CountersAt(out, k)
      BY <1>2, <1>8, <2>3, CountersAdvanced DEF k
    <3> QED BY <1>4, <2>1, <3>1 DEF CountersAt, CounterIs
  <2> QED BY <1>8, <2>2, <2>3
<1>9. CASE /\ a.kind \in WaitKinds \cup NotifyKinds \cup SemaphoreKinds \cup ThreadKinds
                            \cup {"BarrierWait"}
           /\ out = OtherSyncEffect(p, s, step, a)
  <2>1. plain
    BY <1>9 DEF AtomicKinds, WaitKinds, NotifyKinds, SemaphoreKinds, ThreadKinds
  <2>2. CASE a.kind \in WaitKinds
    <3>1. CountersAt(out, k) \/ CountersAt(out, s.pc)
      BY <1>1, <1>2, <1>9, <2>2, CountersWaiting DEF k
    <3> QED BY <1>4, <2>1, <3>1 DEF CountersAt, CounterIs
  <2>3. CASE a.kind \in NotifyKinds \cup SemaphoreKinds \cup {"Join"}
    <3>1. CountersAt(out, k)
      BY <1>2, <1>9, <2>3, CountersAdvanced DEF k
    <3> QED BY <1>4, <2>1, <3>1 DEF CountersAt, CounterIs
  <2>4. CASE a.kind = "Spawn"
    <3>1. out = SpawnEffect(p, s, step, a)
      BY <1>9, <2>4 DEF OtherSyncEffect, WaitKinds
    <3> QED BY <2>1, <3>1, SpawnForward
  <2>5. CASE a.kind = "BarrierWait"
    <3>1. out = BarrierWaitEffect(p, s, step, a)
      BY <1>9, <2>5 DEF OtherSyncEffect, WaitKinds
    <3> QED BY <2>1, <2>5, <3>1, BarrierForward
  <2> QED BY <1>9, <2>2, <2>3, <2>4, <2>5 DEF ThreadKinds
<1> QED BY <1>1, <1>5, <1>6, <1>7, <1>8, <1>9, Dispatch

-----------------------------------------------------------------------------
(***************************************************************************)
(* What a step records and reports.                                        *)
(***************************************************************************)
\* The accesses f and e, to one address, race.
RaceWith(f, e) ==
    /\ f.is_write \/ e.is_write
    /\ ~(f.is_atomic /\ e.is_atomic)
    /\ Concurrent(f, e)

\* The address state m becomes after when e is recorded, and e is reported against prior.
Recording(m, after, prior, e) ==
    \/ ~e.is_atomic /\ ~e.is_write /\ after = WithRead(m, e) /\ prior = ReadPrior(m, e)
    \/ ~e.is_atomic /\ e.is_write /\ after = WithWrite(m, e) /\ prior = WritePrior(m, e)
    \/ e.is_atomic /\ after = WithAtomic(m, e) /\ prior = AtomicPrior(m, e)

Noted(s, out, x, e) ==
    /\ \A y \in Addresses \ {x} : out.state.memory[y] = s.memory[y]
    /\ \E prior : /\ Recording(s.memory[x], out.state.memory[x], prior, e)
                  /\ out.report.race = make_race_report(x, prior, e)

\* The outcome out of a step made in s records the access e, and publishes no clock but
\* the access's own.
Records(n, s, step, out, x, e) ==
    /\ x \in Addresses /\ e \in AccessBelow(n)
    /\ e.endpoint = step /\ e.clock = out.state.thread_clock[step.thread]
    /\ Noted(s, out, x, e)
    /\ \A y \in Addresses :
          out.state.atomic_location_clock[y] \in {s.atomic_location_clock[y], e.clock}

RecordsNothing(s, out) == out.state.memory = s.memory /\ out.report.race = {}

\* What the record operators report the current access against races with it.
LEMMA PriorsRace ==
    ASSUME NEW n, NEW m \in AddressBelow(n), NEW e \in AccessBelow(n)
    PROVE  /\ ~e.is_atomic =>
                 \A f \in ReadPrior(m, e) : f \in HistoryOf(m) /\ RaceWith(f, e)
           /\ ~e.is_atomic /\ e.is_write =>
                 \A f \in WritePrior(m, e) : f \in HistoryOf(m) /\ RaceWith(f, e)
           /\ \A f \in AtomicPrior(m, e) : f \in HistoryOf(m) /\ RaceWith(f, e)
<1>1. Recorded(m)
  BY DEF AddressBelow
<1>2. \A f : ~ordered_by_happens_before(f, e) => Concurrent(f, e)
  BY DEF ordered_by_happens_before, Concurrent
<1>3. ASSUME ~e.is_atomic, NEW f \in UnorderedWrite(m, e)
      PROVE  f \in HistoryOf(m) /\ RaceWith(f, e)
  BY <1>1, <1>2, <1>3 DEF UnorderedWrite, Recorded, RaceWith
<1>4. ASSUME ~e.is_atomic, e.is_write, NEW f \in UnorderedRead(m, e)
      PROVE  f \in HistoryOf(m) /\ RaceWith(f, e)
  BY <1>1, <1>2, <1>4 DEF UnorderedRead, Recorded, RaceWith
<1>5. ASSUME ~e.is_atomic, NEW f \in UnorderedConflict(m.atomic_accesses, e)
      PROVE  f \in HistoryOf(m) /\ RaceWith(f, e)
  BY <1>2, <1>5 DEF UnorderedConflict, HistoryOf, RaceWith
<1>6. ASSUME NEW f \in UnorderedConflict(m.plain_accesses, e)
      PROVE  f \in HistoryOf(m) /\ RaceWith(f, e)
  BY <1>1, <1>2, <1>6 DEF UnorderedConflict, HistoryOf, Recorded, RaceWith
<1> QED BY <1>3, <1>4, <1>5, <1>6 DEF ReadPrior, WritePrior, AtomicPrior, FirstNonempty

\* Recording adds the access to the history and reports only races with it.
LEMMA RecordingGrows ==
    ASSUME NEW n, NEW m \in AddressBelow(n), NEW e \in AccessBelow(n), NEW after, NEW prior,
           Recording(m, after, prior, e)
    PROVE  /\ after \in AddressBelow(n) /\ HistoryOf(after) = HistoryOf(m) \cup {e}
           /\ \A f \in prior : f \in HistoryOf(m) /\ RaceWith(f, e)
BY HistoryGrows, PriorsRace DEF Recording

\* The outcomes of record_read, record_write and record_atomic.
LEMMA RecordNotes ==
    ASSUME NEW p, NEW n, NEW r \in CountedState(p, n), NEW x \in Addresses,
           NEW e \in AccessBelow(n), NEW out,
           \/ ~e.is_atomic /\ ~e.is_write /\ out = record_read(r, x, e)
           \/ ~e.is_atomic /\ e.is_write /\ out = record_write(r, x, e)
           \/ e.is_atomic /\ out = record_atomic(r, x, e)
    PROVE  /\ out.state.thread_clock = r.thread_clock
           /\ out.state.atomic_location_clock = r.atomic_location_clock
           /\ Noted(r, out, x, e)
<1> DEFINE m == r.memory[x]
           Outcomes(after, prior) ==
             /\ out = DoneWithRace([r EXCEPT !.memory[x] = after], make_race_report(x, prior, e))
             /\ Recording(m, after, prior, e)
<1>1. PICK after, prior : Outcomes(after, prior)
  <2>1. CASE ~e.is_atomic /\ ~e.is_write /\ out = record_read(r, x, e)
    <3>1. Outcomes(WithRead(m, e), ReadPrior(m, e))
      BY <2>1, Zenon DEF record_read, WithRead, Recording
    <3> QED BY <3>1
  <2>2. CASE ~e.is_atomic /\ e.is_write /\ out = record_write(r, x, e)
    <3>1. Outcomes(WithWrite(m, e), WritePrior(m, e))
      BY <2>2, Zenon DEF record_write, WithWrite, Recording
    <3> QED BY <3>1
  <2>3. CASE e.is_atomic /\ out = record_atomic(r, x, e)
    <3>1. Outcomes(WithAtomic(m, e), AtomicPrior(m, e))
      BY <2>3, Zenon DEF record_atomic, WithAtomic, Recording
    <3> QED BY <3>1
  <2> QED BY <2>1, <2>2, <2>3
<1>2. out.state = [r EXCEPT !.memory[x] = after] /\ out.report.race = make_race_report(x, prior, e)
  BY <1>1 DEF DoneWithRace, NoReport
<1>3. /\ out.state.thread_clock = r.thread_clock
      /\ out.state.atomic_location_clock = r.atomic_location_clock
      /\ out.state.memory[x] = after
      /\ \A y \in Addresses \ {x} : out.state.memory[y] = r.memory[y]
  BY <1>2 DEF CountedState
<1> QED BY <1>1, <1>2, <1>3 DEF Noted

\* r is s when its thread's access is about to be recorded.
Prepared(s, r, t) ==
    /\ r.memory = s.memory
    /\ \A y \in Addresses :
          r.atomic_location_clock[y] \in {s.atomic_location_clock[y], r.thread_clock[t]}

\* The access recorded in a prepared state carries the clock of that state.
LEMMA PreparedRecords ==
    ASSUME NEW p, NEW n, NEW s, NEW r \in CountedState(p, n), NEW step \in ScheduleStep,
           NEW x \in Addresses, Prepared(s, r, step.thread), NEW out,
           \/ out = record_read(r, x, Access(r, step, FALSE, FALSE))
           \/ out = record_write(r, x, Access(r, step, FALSE, TRUE))
           \/ \E w \in BOOLEAN : out = record_atomic(r, x, Access(r, step, TRUE, w))
    PROVE  \E e : Records(n, s, step, out, x, e)
<1>1. PICK b \in BOOLEAN, w \in BOOLEAN :
        LET e == Access(r, step, b, w)
        IN  \/ ~b /\ ~w /\ out = record_read(r, x, e)
            \/ ~b /\ w /\ out = record_write(r, x, e)
            \/ b /\ out = record_atomic(r, x, e)
  OBVIOUS
<1> DEFINE e == Access(r, step, b, w)
<1>2. /\ e \in AccessBelow(n) /\ e.is_atomic = b /\ e.is_write = w
      /\ e.clock = r.thread_clock[step.thread] /\ e.endpoint = step
  BY AccessCounted
<1> HIDE DEF e
<1>3. /\ out.state.thread_clock = r.thread_clock
      /\ out.state.atomic_location_clock = r.atomic_location_clock
      /\ Noted(r, out, x, e)
  BY <1>1, <1>2, RecordNotes DEF e
<1>4. Records(n, s, step, out, x, e)
  BY <1>2, <1>3 DEF Records, Prepared, Noted
<1> QED BY <1>4

\* A write recorded in a prepared state is one.
LEMMA PreparedWrite ==
    ASSUME NEW p, NEW n, NEW s, NEW r \in CountedState(p, n), NEW step \in ScheduleStep,
           NEW x \in Addresses, Prepared(s, r, step.thread), NEW out,
           out = record_write(r, x, Access(r, step, FALSE, TRUE))
    PROVE  \E e : Records(n, s, step, out, x, e) /\ e.is_write
<1> DEFINE e == Access(r, step, FALSE, TRUE)
<1>1. /\ e \in AccessBelow(n) /\ e.is_atomic = FALSE /\ e.is_write = TRUE
      /\ e.clock = r.thread_clock[step.thread] /\ e.endpoint = step
  <2>1. \A b, w \in BOOLEAN :
          LET f == Access(r, step, b, w)
          IN  /\ f \in AccessBelow(n) /\ f.is_atomic = b /\ f.is_write = w
              /\ f.clock = r.thread_clock[step.thread] /\ f.endpoint = step
    BY AccessCounted
  <2> QED BY <2>1
<1>0. out = record_write(r, x, e)
  OBVIOUS
<1> HIDE DEF e
<1>2. /\ out.state.thread_clock = r.thread_clock
      /\ out.state.atomic_location_clock = r.atomic_location_clock
      /\ Noted(r, out, x, e)
  BY <1>0, <1>1, RecordNotes
<1>3. Records(n, s, step, out, x, e)
  BY <1>1, <1>2 DEF Records, Prepared, Noted
<1> QED BY <1>1, <1>3

\* No access is recorded and no location published yet.
Untouched(s, r) ==
    r.memory = s.memory /\ r.atomic_location_clock = s.atomic_location_clock

\* The parts of the memory effects.
LEMMA PreparedParts ==
    ASSUME NEW p, NEW n, NEW r \in CountedState(p, n), NEW t \in ThreadId, NEW s,
           Untouched(s, r)
    PROVE  /\ \A x : Untouched(s, AcquireLocation(r, t, x))
           /\ \A i, v : Untouched(s, write_register(r, t, i, v))
           /\ \A x, v : Untouched(s, [r EXCEPT !.memory_values[x] = v])
           /\ \A x \in Addresses : Prepared(s, ReleaseLocation(r, t, x), t)
           /\ Prepared(s, r, t)
<1>1. r.atomic_location_clock \in [Addresses -> Below(n)]
  BY DEF CountedState
<1> QED BY <1>1 DEF CountedState, AcquireLocation, write_register, ReleaseLocation, Prepared,
       Untouched

\* Plain accesses: a buffered write records nothing.
LEMMA PlainRecords ==
    ASSUME NEW p, NEW n \in Counts, NEW s \in CountedState(p, n), NEW step \in ScheduleStep,
           NEW a \in MemoryActions, a.address \in Addresses, NEW q, Untouched(q, s), NEW out,
           out \in {ReadEffect(s, step, a), WriteEffect(s, step, a)}
    PROVE  \/ RecordsNothing(q, out)
           \/ \E e : Records(n, q, step, out, a.address, e)
<1> DEFINE t == step.thread
           x == a.address
           v == evaluate_operand_or(s, t, a.value, 0)
           r == write_register(s, t, a.destination, read_plain_value(s, t, x))
           w == [s EXCEPT !.memory_values[x] = v]
<1>1. t \in ThreadId /\ a.value \in ValueOperand
  BY DEF ScheduleStep, MemoryActions
<1>2. r \in CountedState(p, n) /\ Prepared(q, r, t)
  <2>1. r \in CountedState(p, n)
    BY <1>1, PlainValueType, WriteRegisterCounted
  <2> QED BY <1>1, <2>1, PreparedParts
<1>3. w \in CountedState(p, n) /\ Prepared(q, w, t)
  <2>1. w \in CountedState(p, n)
    BY <1>1, OperandValue, SmallValues, StoreValueCounted
  <2> QED BY <1>1, <2>1, PreparedParts
<1>4. CASE out = ReadEffect(s, step, a)
  <2>1. out = record_read(r, x, Access(r, step, FALSE, FALSE))
    BY <1>4 DEF ReadEffect
  <2> HIDE DEF r
  <2> QED BY <1>2, <2>1, PreparedRecords
<1>5. CASE out = WriteEffect(s, step, a)
  <2>1. s.memory_model \in MemoryModel
    BY DEF CountedState
  <2>2. CASE s.memory_model = "SC"
    <3>1. out = record_write(w, x, Access(w, step, FALSE, TRUE))
      BY <1>5, <2>2 DEF WriteEffect
    <3> HIDE DEF w
    <3> QED BY <1>3, <3>1, PreparedRecords
  <2>3. CASE s.memory_model \in {"TSO", "PSO"}
    <3>1. out.state.memory = s.memory /\ out.report.race = {}
      BY <1>5, <2>3 DEF WriteEffect, Done, NoReport, CountedState
    <3> QED BY <3>1 DEF RecordsNothing, Untouched
  <2> QED BY <2>1, <2>2, <2>3 DEF MemoryModel
<1> QED BY <1>4, <1>5

\* A flush records the buffered write.
LEMMA FlushRecords ==
    ASSUME NEW p, NEW n \in Counts, NEW s \in CountedState(p, n), NEW step \in ScheduleStep,
           NEW x \in Addresses, PendingAt(s, step.thread, x)
    PROVE  \E e : Records(n, s, step, FlushEffect(s, step, FlushAction(x)), x, e) /\ e.is_write
<1> DEFINE t == step.thread
           buffer == s.store_buffers[t]
           fifo == s.pso_store_buffers[t][x]
<1>1. t \in ThreadId /\ FlushAction(x).address = x
  BY DEF ScheduleStep, FlushAction
<1>2. buffer \in Seq(StoreBufferEntry) /\ fifo \in Seq(Value)
  BY <1>1 DEF CountedState
<1>3. CASE s.memory_model = "TSO" /\ buffer # <<>>
  <2> DEFINE r == [s EXCEPT !.memory_values[x] = Head(s.store_buffers[t]).value,
                            !.store_buffers[t] = Tail(@)]
  <2>1. Head(buffer) \in StoreBufferEntry /\ Tail(buffer) \in Seq(StoreBufferEntry)
    <3> HIDE DEF buffer
    <3> QED BY <1>2, <1>3
  <2>2. Head(buffer).value \in Value
    BY <2>1 DEF StoreBufferEntry
  <2>3. r \in CountedState(p, n)
    BY <1>1, <2>1, <2>2 DEF CountedState
  <2>4. Prepared(s, r, t)
    BY <1>1, <2>3 DEF CountedState, Prepared
  <2>5. FlushEffect(s, step, FlushAction(x)) = record_write(r, x, Access(r, step, FALSE, TRUE))
    BY <1>1, <1>3 DEF FlushEffect
  <2> HIDE DEF r
  <2> QED BY <2>3, <2>4, <2>5, PreparedWrite
<1>4. CASE s.memory_model = "PSO" /\ fifo # <<>>
  <2> DEFINE r == [s EXCEPT !.memory_values[x] = Head(s.pso_store_buffers[t][x]),
                            !.pso_store_buffers[t][x] = Tail(@)]
  <2>1. Head(fifo) \in Value /\ Tail(fifo) \in Seq(Value)
    <3> HIDE DEF fifo
    <3> QED BY <1>2, <1>4
  <2>3. r \in CountedState(p, n)
    BY <1>1, <2>1 DEF CountedState
  <2>4. Prepared(s, r, t)
    BY <1>1, <2>3 DEF CountedState, Prepared
  <2>5. FlushEffect(s, step, FlushAction(x)) = record_write(r, x, Access(r, step, FALSE, TRUE))
    BY <1>1, <1>4 DEF FlushEffect
  <2> HIDE DEF r
  <2> QED BY <2>3, <2>4, <2>5, PreparedWrite
<1> QED BY <1>3, <1>4 DEF PendingAt

\* The atomic accesses.
LEMMA AtomicRecords ==
    ASSUME NEW p, NEW n \in Counts, NEW s \in CountedState(p, n), NEW step \in ScheduleStep,
           NEW a \in MemoryActions, a.address \in Addresses, NEW q, Untouched(q, s)
    PROVE  \A out \in {AtomicLoadEffect(s, step, a), AtomicStoreEffect(s, step, a),
                       AtomicRmwEffect(s, step, a), CompareExchangeEffect(s, step, a)} :
              \E e : Records(n, q, step, out, a.address, e)
<1> TAKE out \in {AtomicLoadEffect(s, step, a), AtomicStoreEffect(s, step, a),
                  AtomicRmwEffect(s, step, a), CompareExchangeEffect(s, step, a)}
<1> DEFINE t == step.thread
           x == a.address
           old == s.memory_values[x]
           stored == evaluate_operand_or(s, t, a.value, 0)
           addend == evaluate_operand_or(s, t, a.value, 1)
           success == old = evaluate_operand_or(s, t, a.expected, 0)
           Acquired(v) == write_register(AcquireLocation(s, t, x), t, a.destination, v)
           Stored(r, v) == [r EXCEPT !.memory_values[x] = v]
           Released(r, v) == ReleaseLocation(Stored(r, v), t, x)
<1>1. t \in ThreadId /\ a.value \in ValueOperand /\ a.expected \in ValueOperand
  BY DEF ScheduleStep, MemoryActions
<1>2. old \in Value /\ stored \in Value /\ addend \in Value
  BY <1>1, OperandValue, SmallValues DEF CountedState
<1>3. AddWrap(old, addend) \in Value
  BY <1>2, AddWrapType
<1>4. ASSUME NEW v \in Value
      PROVE  Acquired(v) \in CountedState(p, n) /\ Untouched(q, Acquired(v))
  <2>1. /\ AcquireLocation(s, t, x) \in CountedState(p, n)
        /\ Untouched(q, AcquireLocation(s, t, x))
    BY <1>1, AcquireLocationCounted, PreparedParts
  <2> QED BY <1>1, <2>1, WriteRegisterCounted, PreparedParts
<1>5. ASSUME NEW r \in CountedState(p, n), Untouched(q, r), NEW v \in Value
      PROVE  Released(r, v) \in CountedState(p, n) /\ Prepared(q, Released(r, v), t)
  <2>1. Stored(r, v) \in CountedState(p, n) /\ Untouched(q, Stored(r, v))
    BY <1>1, <1>5, StoreValueCounted, PreparedParts
  <2> QED BY <1>1, <2>1, ReleaseLocationCounted, PreparedParts
<1>6. ASSUME NEW r \in CountedState(p, n), Prepared(q, r, t), NEW w \in BOOLEAN,
             out = record_atomic(r, x, Access(r, step, TRUE, w))
      PROVE  \E e : Records(n, q, step, out, x, e)
  BY <1>6, PreparedRecords
<1>7. CASE out = AtomicLoadEffect(s, step, a)
  <2> DEFINE r == Acquired(old)
  <2>1. r \in CountedState(p, n) /\ Prepared(q, r, t)
    BY <1>1, <1>2, <1>4, PreparedParts
  <2>2. out = record_atomic(r, x, Access(r, step, TRUE, FALSE))
    BY <1>7 DEF AtomicLoadEffect
  <2> HIDE DEF r
  <2> QED BY <1>6, <2>1, <2>2
<1>8. CASE out = AtomicStoreEffect(s, step, a)
  <2> DEFINE r == Released(s, stored)
  <2>1. r \in CountedState(p, n) /\ Prepared(q, r, t)
    BY <1>2, <1>5
  <2>2. out = record_atomic(r, x, Access(r, step, TRUE, TRUE))
    BY <1>8 DEF AtomicStoreEffect
  <2> HIDE DEF r
  <2> QED BY <1>6, <2>1, <2>2
<1>9. CASE out = AtomicRmwEffect(s, step, a)
  <2> DEFINE r == Released(Acquired(old), AddWrap(old, addend))
  <2>1. r \in CountedState(p, n) /\ Prepared(q, r, t)
    BY <1>2, <1>3, <1>4, <1>5
  <2>2. out = record_atomic(r, x, Access(r, step, TRUE, TRUE))
    BY <1>9 DEF AtomicRmwEffect
  <2> HIDE DEF r
  <2> QED BY <1>6, <2>1, <2>2
<1>10. CASE out = CompareExchangeEffect(s, step, a)
  <2> DEFINE acquired == Acquired(IF success THEN 1 ELSE 0)
             r == IF success THEN Released(acquired, stored) ELSE acquired
  <2>1. acquired \in CountedState(p, n) /\ Untouched(q, acquired)
    BY <1>4, SmallValues
  <2>2. r \in CountedState(p, n) /\ Prepared(q, r, t)
    BY <1>1, <1>2, <1>5, <2>1, PreparedParts
  <2>3. out = record_atomic(r, x, Access(r, step, TRUE, success))
    BY <1>10 DEF CompareExchangeEffect
  <2> HIDE DEF r
  <2> QED BY <1>6, <2>2, <2>3
<1> QED BY <1>7, <1>8, <1>9, <1>10

\* A source memory action.
LEMMA MemoryRecords ==
    ASSUME NEW p \in Programs, NEW n \in Counts, NEW s \in CountedState(p, n),
           NEW step \in ScheduleStep, s.pc[step.thread] < Len(p[step.thread]),
           NEW a \in MemoryActions
    PROVE  LET out == MemoryEffect(p, s, step, a)
           IN  RecordsNothing(s, out) \/ \E x, e : Records(n, s, step, out, x, e)
<1> DEFINE r == advance_pc(p, s, step.thread)
           out == MemoryEffect(p, s, step, a)
<1> SUFFICES RecordsNothing(s, out) \/ \E x, e : Records(n, s, step, out, x, e)
  OBVIOUS
<1>1. r \in CountedState(p, n)
  BY AdvanceCounted DEF ScheduleStep
<1>2. Untouched(s, r)
  BY DEF CountedState, advance_pc, Untouched
<1> HIDE DEF r
<1>3. CASE a.address = NoAddress
  BY <1>2, <1>3 DEF MemoryEffect, Done, NoReport, RecordsNothing, Untouched, r
<1>4. CASE a.address # NoAddress
  <2>1. a.address \in Addresses /\ a.kind \in {"Read", "Write"} \cup AtomicKinds
    BY <1>4 DEF MemoryActions
  <2>2. \/ out \in {ReadEffect(r, step, a), WriteEffect(r, step, a)}
        \/ out \in {AtomicLoadEffect(r, step, a), AtomicStoreEffect(r, step, a),
                    AtomicRmwEffect(r, step, a), CompareExchangeEffect(r, step, a)}
    BY <1>4, <2>1 DEF MemoryEffect, AtomicKinds, r
  <2> HIDE DEF out
  <2>3. CASE out \in {ReadEffect(r, step, a), WriteEffect(r, step, a)}
    BY <1>1, <1>2, <2>1, <2>3, PlainRecords
  <2>4. CASE out \in {AtomicLoadEffect(r, step, a), AtomicStoreEffect(r, step, a),
                       AtomicRmwEffect(r, step, a), CompareExchangeEffect(r, step, a)}
    <3>1. \E e : Records(n, s, step, out, a.address, e)
      BY <1>1, <1>2, <2>1, <2>4, AtomicRecords
    <3> QED BY <3>1
  <2> QED BY <2>2, <2>3, <2>4
<1> QED BY <1>3, <1>4

\* A read is recorded by a source action, whose thread then stands beyond it.
Passing(q, r, e) ==
    LET t == e.endpoint.thread
    IN  ~e.is_write => e.endpoint.action_index = q.pc[t] /\ r.pc[t] > q.pc[t]

\* Any step: what it records, and that a step that records an access publishes through
\* no lock, semaphore or barrier.
LEMMA RunRecords ==
    ASSUME NEW p, NEW m, NEW s, NEW q, NEW step,
           SourceRun(p, m, s, q, step) \/ FlushRun(p, m, s, q, step)
    PROVE  LET out == execute_enabled_step(p, s, step)
           IN  \/ RecordsNothing(q, out)
               \/ /\ \E x, e : Records(m, q, step, out, x, e) /\ Passing(q, out.state, e)
                  /\ LocalStep(q, out.state, step.thread)
                  /\ out.state.semaphores = q.semaphores
<1> DEFINE out == execute_enabled_step(p, s, step)
           t == step.thread
<1> SUFFICES \/ RecordsNothing(q, out)
             \/ /\ \E x, e : Records(m, q, step, out, x, e) /\ Passing(q, out.state, e)
                /\ LocalStep(q, out.state, t) /\ out.state.semaphores = q.semaphores
  OBVIOUS
<1>1. CASE SourceRun(p, m, s, q, step)
  <2> DEFINE a == next_action(p, q, t)
  <2>1. Steps(p, m, q, step, a) /\ out = SourceEffect(p, q, step, a)
    BY <1>1 DEF SourceRun
  <2>2. /\ p \in Programs /\ m \in Counts /\ q \in CountedState(p, m) /\ step \in ScheduleStep
        /\ a \in Action /\ is_program_action_enabled(p, q, t) /\ q.pc[t] < Len(p[t])
    BY <2>1, StepsFacts DEF Steps
  <2> HIDE DEF out
  <2>3. CASE a.kind \notin {"Read", "Write"} \cup AtomicKinds
    BY <2>1, <2>2, <2>3, SourceFrame DEF RecordsNothing, SameMemory
  <2>4. CASE a.kind \in {"Read", "Write"} \cup AtomicKinds
    <3>1. a \in MemoryActions
      BY <2>2, <2>4, KindFields
    <3>2. out = MemoryEffect(p, q, step, a)
      BY <2>1, <2>4 DEF SourceEffect, AtomicKinds, MutexKinds, RwLockKinds, ThreadLocalKinds
    <3> HIDE DEF a
    <3>3. RecordsNothing(q, out) \/ \E x, e : Records(m, q, step, out, x, e)
      BY <2>2, <3>1, <3>2, MemoryRecords
    <3>4. LocalStep(q, out.state, t) /\ out.state.semaphores = q.semaphores
      BY <2>2, <2>4, <3>1, <3>2, MemoryLocal, MemoryFrame
    <3>5. step.action_index = q.pc[t] /\ out.state.pc[t] > q.pc[t]
      <4>1. advance_pc(p, q, t).pc[t] > q.pc[t]
        BY <2>2, AdvanceForward DEF ScheduleStep
      <4> QED BY <1>1, <2>2, <2>4, <3>2, <4>1, MemoryFrame DEF SourceRun
    <3>6. \A x, e : Records(m, q, step, out, x, e) => Passing(q, out.state, e)
      BY <3>5 DEF Records, Passing
    <3> QED BY <3>3, <3>4, <3>6
  <2> QED BY <2>3, <2>4
<1>2. CASE FlushRun(p, m, s, q, step)
  <2>1. PICK x \in Addresses :
          PendingAt(q, t, x) /\ out = FlushEffect(q, step, FlushAction(x))
    BY <1>2 DEF FlushRun
  <2>2. m \in Counts /\ q \in CountedState(p, m) /\ step \in ScheduleStep
    BY <1>2 DEF FlushRun, Good
  <2>3. LocalStep(q, out.state, t) /\ out.state.semaphores = q.semaphores
    BY <1>2, FlushRuns
  <2> HIDE DEF out
  <2>4. \E e : Records(m, q, step, out, x, e) /\ e.is_write
    BY <2>1, <2>2, FlushRecords
  <2> QED BY <2>3, <2>4 DEF Passing
<1> QED BY <1>1, <1>2

-----------------------------------------------------------------------------
(***************************************************************************)
(* Reported races.                                                         *)
(***************************************************************************)
\* From s to r the history of x gains e.
Adds(s, r, x, e) ==
    /\ HistoryOf(r.memory[x]) = HistoryOf(s.memory[x]) \cup {e}
    /\ \A y \in Addresses \ {x} : r.memory[y] = s.memory[y]

\* Each reported race is one of e with an access recorded before.
Reports(s, races, x, e) ==
    \A race \in races :
        /\ race.address = x /\ race.second = e.endpoint
        /\ \E f \in HistoryOf(s.memory[x]) : f.endpoint = race.first /\ RaceWith(f, e)

\* What a step that records an access does to the histories.
LEMMA RecordsMeaning ==
    ASSUME NEW p, NEW n, NEW s \in CountedState(p, n), NEW step, NEW out, NEW x, NEW e,
           Records(n, s, step, out, x, e)
    PROVE  x \in Addresses /\ Adds(s, out.state, x, e) /\ Reports(s, out.report.race, x, e)
<1>1. /\ x \in Addresses /\ e \in AccessBelow(n)
      /\ \A y \in Addresses \ {x} : out.state.memory[y] = s.memory[y]
  BY DEF Records, Noted
<1>2. PICK prior : /\ Recording(s.memory[x], out.state.memory[x], prior, e)
                   /\ out.report.race = make_race_report(x, prior, e)
  BY DEF Records, Noted
<1>3. s.memory[x] \in AddressBelow(n)
  BY <1>1 DEF CountedState
<1>4. /\ HistoryOf(out.state.memory[x]) = HistoryOf(s.memory[x]) \cup {e}
      /\ \A f \in prior : f \in HistoryOf(s.memory[x]) /\ RaceWith(f, e)
  BY <1>1, <1>2, <1>3, RecordingGrows
<1> QED BY <1>1, <1>2, <1>4 DEF Adds, Reports, make_race_report

\* An address's races are the racing pairs of its history.
LEMMA RacesOf ==
    ASSUME NEW m, NEW f \in HistoryOf(m), NEW e \in HistoryOf(m), RaceWith(f, e)
    PROVE  \E ef \in Races(m) : ef[1] = f /\ ef[2] = e
<1>1. <<f, e>> \in Races(m)
  BY DEF Races, RaceWith
<1> QED BY <1>1

\* Histories only grow, and races with them.
LEMMA RacesGrow ==
    ASSUME NEW m, NEW r, HistoryOf(m) \subseteq HistoryOf(r)
    PROVE  Races(m) \subseteq Races(r)
BY DEF Races

\* A step that records keeps the reported races and reports only races.
LEMMA NextRaceSound == IInv /\ RaceSound /\ [Next]_vars => RaceSound'
<1>1. SUFFICES ASSUME IInv, RaceSound, [Next]_vars PROVE RaceSound'
  OBVIOUS
<1>2. CASE UNCHANGED vars
  BY <1>1, <1>2 DEF vars, RaceSound
<1>3. CASE Next
  <2>1. PICK step : step.thread \in ThreadId /\ Execute(step)
    BY <1>1, <1>3, NextExecutes
  <2> DEFINE t == step.thread
             m == CountedBy(Tick(state.thread_steps, t))
             q == BeginStep(state, t)
             out == execute_enabled_step(program, state, step)
  <2>2. /\ state' = out.state /\ result' = record_step_report(result, out.report)
        /\ SourceRun(program, m, state, q, step) \/ FlushRun(program, m, state, q, step)
    BY <1>1, <2>1, ExecuteRuns
  <2>3. RecordsNothing(q, out) \/ \E x, e : Records(m, q, step, out, x, e)
    BY <2>2, RunRecords
  <2>4. q.memory = state.memory
    BY <1>1 DEF IInv, Sound, Good, CountedState, BeginStep
  <2>5. result'.first_race \in {result.first_race, out.report.race}
    BY <2>2 DEF record_step_report, FirstNonempty
  <2>6. result.first_race \subseteq RaceReport
    BY <1>1 DEF IInv, CheckResult
  <2>9. q \in CountedState(program, m)
    BY <1>1, <2>1, ExecuteRuns DEF Good
  <2> HIDE DEF out, q
  <2>7. CASE RecordsNothing(q, out)
    BY <1>1, <2>2, <2>4, <2>5, <2>7 DEF RecordsNothing, RaceSound
  <2>8. CASE \E x, e : Records(m, q, step, out, x, e)
    <3>1. PICK x, e : Records(m, q, step, out, x, e)
      BY <2>8
    <3>2. /\ x \in Addresses /\ Reports(state, out.report.race, x, e)
          /\ HistoryOf(state'.memory[x]) = HistoryOf(state.memory[x]) \cup {e}
          /\ \A y \in Addresses \ {x} : state'.memory[y] = state.memory[y]
      BY <2>2, <2>4, <2>9, <3>1, RecordsMeaning DEF Adds, Reports
    <3>3. ASSUME NEW race \in result.first_race
          PROVE  \E ef \in Races(state'.memory[race.address]) :
                    ef[1].endpoint = race.first /\ ef[2].endpoint = race.second
      <4>1. race.address \in Addresses
        BY <2>6 DEF RaceReport
      <4>2. HistoryOf(state.memory[race.address]) \subseteq HistoryOf(state'.memory[race.address])
        BY <3>2, <4>1
      <4> QED BY <1>1, <4>2, RacesGrow DEF RaceSound
    <3>4. ASSUME NEW race \in out.report.race
          PROVE  \E ef \in Races(state'.memory[race.address]) :
                    ef[1].endpoint = race.first /\ ef[2].endpoint = race.second
      <4>1. PICK f \in HistoryOf(state.memory[x]) : f.endpoint = race.first /\ RaceWith(f, e)
        BY <3>2 DEF Reports
      <4>2. race.address = x /\ race.second = e.endpoint
        BY <3>2 DEF Reports
      <4> QED BY <3>2, <4>1, <4>2, RacesOf
    <3> QED BY <2>5, <3>3, <3>4 DEF RaceSound
  <2> QED BY <2>3, <2>7, <2>8
<1> QED BY <1>1, <1>2, <1>3

(***************************************************************************)
(* A race the interpreter reports is one: record_read, record_write and    *)
(* record_atomic, which keep only the last write and the reads since it,   *)
(* name two accesses in the full history of the address that conflict and  *)
(* that happens-before leaves unordered.                                   *)
(***************************************************************************)
THEOREM RacesAreRaces == Spec => []RaceSound
<1>1. Init => RaceSound
  BY DEF Init, RaceSound
<1> QED BY <1>1, Invariance, NextRaceSound, PTL DEF Spec

-----------------------------------------------------------------------------
(***************************************************************************)
(* Causal closure.                                                         *)
(***************************************************************************)
\* Every clock of a state.
Clocks(s) == ThreadClocks(s) \cup PublishedClocks(s) \cup {f.clock : f \in Accesses(s)}

\* The clocks that know what an access knew as soon as they know of its step.
Known(s) ==
    {c \in Clock :
        \A e \in Accesses(s) :
            c[e.endpoint.thread] >= e.clock[e.endpoint.thread] => HBE(e.clock, c)}

\* No clock is without the step of its own access.
Stamped(s) == \A e \in Accesses(s) : e.clock[e.endpoint.thread] > 0

EpochKnown(k, s) == [steps |-> k, clocks |-> Known(s)]

\* Known is closed under Join, which is all the effects do to clocks they combine.
LEMMA KnownCounts ==
    ASSUME NEW p, NEW n \in Counts, NEW s \in CountedState(p, n), Stamped(s), NEW k \in Clock
    PROVE  EpochKnown(k, s) \in Counts
<1>1. \A e \in Accesses(s) : e.clock \in Clock /\ e.endpoint.thread \in ThreadId
  BY ClocksBelow DEF AccessBelow, Below, ScheduleStep
<1>2. Zero \in Known(s)
  <2>1. ASSUME NEW e \in Accesses(s)
        PROVE  ~(Zero[e.endpoint.thread] >= e.clock[e.endpoint.thread])
    BY <1>1 DEF Stamped, Zero, Clock
  <2> QED BY <2>1, ZeroType DEF Known
<1>3. ASSUME NEW c \in Known(s), NEW d \in Known(s) PROVE Join(c, d) \in Known(s)
  <2>1. c \in Clock /\ d \in Clock
    BY DEF Known
  <2>2. ASSUME NEW e \in Accesses(s), Join(c, d)[e.endpoint.thread] >= e.clock[e.endpoint.thread]
        PROVE  HBE(e.clock, Join(c, d))
    <3> DEFINE u == e.endpoint.thread
    <3>1. c[u] >= e.clock[u] \/ d[u] >= e.clock[u]
      BY <1>1, <2>1, <2>2 DEF Join, Clock
    <3>2. HBE(e.clock, c) \/ HBE(e.clock, d)
      BY <3>1 DEF Known
    <3>3. Join(c, d) \in Clock /\ HBE(c, Join(c, d)) /\ HBE(d, Join(c, d))
      BY <2>1, JoinType
    <3> QED BY <1>1, <2>1, <3>2, <3>3, HBEOrder
  <2> QED BY <2>1, <2>2, JoinType DEF Known
<1> QED BY <1>2, <1>3 DEF Counts, Known, EpochKnown

\* Ticking a thread's own clock tells it nothing new of an access.
LEMMA TickKnown ==
    ASSUME NEW p, NEW n \in Counts, NEW s \in CountedState(p, n), NEW t \in ThreadId,
           s.thread_clock[t] \in Known(s)
    PROVE  Tick(s.thread_clock[t], t) \in Known(s)
<1> DEFINE c == s.thread_clock[t]
<1>1. \A e \in Accesses(s) : /\ e.clock \in Clock /\ e.endpoint.thread \in ThreadId
                            /\ e.clock[t] <= n.steps[t]
  BY ClocksBelow DEF AccessBelow, Below, HBE, ScheduleStep
<1>2. c \in Clock /\ c[t] = n.steps[t]
  BY DEF CountedState, CountedClocks, Below
<1>3. Tick(c, t) \in Clock /\ HBE(c, Tick(c, t))
  BY <1>2, TickType
<1>4. ASSUME NEW e \in Accesses(s), Tick(c, t)[e.endpoint.thread] >= e.clock[e.endpoint.thread]
      PROVE  HBE(e.clock, Tick(c, t))
  <2>1. c[e.endpoint.thread] >= e.clock[e.endpoint.thread]
    BY <1>1, <1>2, <1>4 DEF Tick, Clock
  <2>2. HBE(e.clock, c)
    BY <2>1 DEF Known
  <2> QED BY <1>1, <1>2, <1>3, <2>2, HBEOrder
<1> QED BY <1>3, <1>4 DEF Known

\* A counted state whose clocks lie in K is counted by K.
LEMMA CountedByFewer ==
    ASSUME NEW p, NEW n, NEW s \in CountedState(p, n), NEW m, m.steps = n.steps,
           Clocks(s) \subseteq m.clocks
    PROVE  s \in CountedState(p, m)
<1>1. /\ ThreadClocks(s) \subseteq Below(m) /\ PublishedClocks(s) \subseteq Below(m)
      /\ \A e \in Accesses(s) : e \in AccessBelow(m)
  <2>1. \A c \in Clocks(s) : c \in Below(n)
    BY ClocksBelow DEF Clocks, AccessBelow
  <2>2. \A c \in Clocks(s) : c \in Below(m)
    BY <2>1 DEF Below
  <2>3. \A e \in Accesses(s) : e \in AccessBelow(n) /\ e.clock \in Clocks(s)
    BY ClocksBelow DEF Clocks
  <2> QED BY <2>2, <2>3 DEF Clocks, AccessBelow
<1>2. s.thread_clock \in CountedClocks(m)
  BY <1>1 DEF ThreadClocks, CountedState, CountedClocks
<1>3. s.mutex_clock \in [Mutexes -> Below(m)]
  BY <1>1 DEF PublishedClocks, CountedState
<1>4. s.rwlocks \in [RwLocks -> RwLockBelow(m)]
  BY <1>1 DEF PublishedClocks, CountedState, RwLockBelow
<1>5. s.semaphores \in [Semaphores -> SemaphoreBelow(m)]
  BY <1>1 DEF PublishedClocks, CountedState, SemaphoreBelow
<1>6. s.barriers \in [Barriers -> BarrierBelow(m)]
  BY <1>1 DEF PublishedClocks, CountedState, BarrierBelow
<1>7. s.atomic_location_clock \in [Addresses -> Below(m)]
  BY <1>1 DEF PublishedClocks, CountedState
<1>8. s.memory \in [Addresses -> AddressBelow(m)]
  <2>1. ASSUME NEW x \in Addresses PROVE s.memory[x] \in AddressBelow(m)
    <3> DEFINE r == s.memory[x]
    <3>1. r \in AddressParts(n) /\ Recorded(r)
      BY DEF CountedState, AddressBelow
    <3>2. HistoryOf(r) \subseteq AccessBelow(m)
      BY <1>1 DEF Accesses
    <3> HIDE DEF r
    <3>3. r.last_write \subseteq AccessBelow(m) /\ r.reads_since_last_write \subseteq AccessBelow(m)
      BY <3>1, <3>2 DEF Recorded
    <3>4. r.plain_accesses \in Seq(AccessBelow(m)) /\ r.atomic_accesses \in Seq(AccessBelow(m))
      <4>1. ASSUME NEW h \in Seq(AccessBelow(n)), \A i \in DOMAIN h : h[i] \in AccessBelow(m)
            PROVE  h \in Seq(AccessBelow(m))
        BY <4>1
      <4>2. /\ r.plain_accesses \in Seq(AccessBelow(n))
            /\ r.atomic_accesses \in Seq(AccessBelow(n))
        BY <3>1 DEF AddressParts
      <4>3. /\ \A i \in DOMAIN r.plain_accesses : r.plain_accesses[i] \in AccessBelow(m)
            /\ \A i \in DOMAIN r.atomic_accesses : r.atomic_accesses[i] \in AccessBelow(m)
        BY <3>2 DEF HistoryOf
      <4> QED BY <4>1, <4>2, <4>3
    <3>5. r \in AddressParts(m)
      BY <3>1, <3>3, <3>4 DEF AddressParts
    <3> QED BY <3>1, <3>5 DEF AddressBelow, r
  <2> QED BY <2>1 DEF CountedState
<1> QED BY <1>2, <1>3, <1>4, <1>5, <1>6, <1>7, <1>8 DEF CountedState

\* EpochInv says that every clock is a known one.
LEMMA EpochMeaning ==
    ASSUME NEW p, NEW n, NEW s \in CountedState(p, n), s = state
    PROVE  EpochInv <=> Clocks(s) \subseteq Known(s)
<1>1. \A c \in Clocks(s) : c \in Clock
  BY ClocksBelow DEF Clocks, AccessBelow, Below
<1> QED BY <1>1 DEF EpochInv, Clocks, Known

\* The clocks and accesses after a step from s that records e, where q is the state after
\* the tick: the clock of the stepping thread is that of the access.
LEMMA ClocksAfter ==
    ASSUME NEW p, NEW s, NEW m, NEW q \in CountedState(p, m), NEW step \in ScheduleStep,
           NEW out, NEW x, NEW e, Records(m, q, step, out, x, e), Untouched(s, q),
           LocalStep(s, q, step.thread), LocalStep(q, out.state, step.thread),
           q.semaphores = s.semaphores, out.state.semaphores = q.semaphores
    PROVE  /\ Accesses(out.state) = Accesses(s) \cup {e}
           /\ Clocks(out.state) \subseteq Clocks(s) \cup {e.clock}
<1> DEFINE t == step.thread
           r == out.state
<1>1. /\ x \in Addresses /\ e.clock = r.thread_clock[t]
      /\ HistoryOf(r.memory[x]) = HistoryOf(s.memory[x]) \cup {e}
      /\ \A y \in Addresses \ {x} : r.memory[y] = s.memory[y]
      /\ \A y \in Addresses : r.atomic_location_clock[y] \in {s.atomic_location_clock[y], e.clock}
  BY RecordsMeaning DEF Records, Adds, Untouched
<1>2. /\ r.mutex_clock = s.mutex_clock /\ r.rwlocks = s.rwlocks /\ r.barriers = s.barriers
      /\ r.semaphores = s.semaphores
      /\ \A u \in ThreadId \ {t} : r.thread_clock[u] = s.thread_clock[u]
  BY DEF LocalStep, OwnStep, SameElsewhere
<1> HIDE DEF r
<1>3. Accesses(r) = Accesses(s) \cup {e}
  <2>1. \A y \in Addresses : HistoryOf(r.memory[y]) = IF y = x THEN HistoryOf(s.memory[y]) \cup {e}
                                                     ELSE HistoryOf(s.memory[y])
    BY <1>1
  <2> QED BY <1>1, <2>1 DEF Accesses
<1>4. ThreadClocks(r) \subseteq ThreadClocks(s) \cup {e.clock}
  BY <1>1, <1>2 DEF ThreadClocks
<1>5. PublishedClocks(r) \subseteq PublishedClocks(s) \cup {e.clock}
  BY <1>1, <1>2 DEF PublishedClocks
<1> QED BY <1>3, <1>4, <1>5 DEF Clocks, r

\* Whatever a step does, a clock of the next state knows the accesses recorded before.
LEMMA OldAccessesKnown ==
    ASSUME IInv, EpochInv, Stamped(state), NEW step, step.thread \in ThreadId, Execute(step)
    PROVE  Clocks(execute_enabled_step(program, state, step).state) \subseteq Known(state)
<1> DEFINE t == step.thread
           k == state.thread_steps
           n == CountedBy(k)
           known == EpochKnown(k, state)
           next == EpochKnown(Tick(k, t), state)
           q == BeginStep(state, t)
           out == execute_enabled_step(program, state, step)
<1>1. /\ program \in Programs /\ n \in Counts /\ Good(program, n, state) /\ k \in Clock
      /\ state \in CountedState(program, n) /\ n.steps = k /\ Tick(k, t) \in Clock
  BY AnyClockCounts, TickType DEF IInv, Sound, Good
<1> HIDE DEF n, k
<1>2. known \in Counts /\ next \in Counts
  BY <1>1, KnownCounts
<1>3. /\ known.steps = k /\ next.steps = Tick(k, t)
      /\ known.clocks = Known(state) /\ next.clocks = Known(state)
  BY DEF EpochKnown
<1> HIDE DEF known, next
<1>4. Clocks(state) \subseteq Known(state)
  BY <1>1, EpochMeaning
<1>5. Good(program, known, state)
  <2>1. state \in CountedState(program, known)
    BY <1>1, <1>3, <1>4, CountedByFewer
  <2> QED BY <1>1, <2>1 DEF Good
<1>6. CountsTick(known, next, t)
  BY <1>2, <1>3 DEF CountsTick, Below
<1>7. Tick(state.thread_clock[t], t) \in next.clocks
  <2>1. state.thread_clock[t] \in Known(state)
    BY <1>4 DEF Clocks, ThreadClocks
  <2> QED BY <1>1, <1>3, <2>1, TickKnown
<1>8. GivenStep(program, state, step)
  BY DEF Execute, enabled_steps_for_thread, GivenStep
<1>9. SourceRun(program, next, state, q, step) \/ FlushRun(program, next, state, q, step)
  BY <1>1, <1>2, <1>5, <1>6, <1>7, <1>8, Runs
<1> HIDE DEF q
<1>10. out.state \in CountedState(program, next)
  BY <1>9, RunsGood DEF Good
<1> HIDE DEF out
<1>11. Clocks(out.state) \subseteq Below(next)
  BY <1>10, ClocksBelow DEF Clocks, AccessBelow
<1> QED BY <1>3, <1>11 DEF Below, out

\* Causal closure with what makes it inductive.
ClosedInv == EpochInv /\ Stamped(state)

\* Every step keeps clocks causally closed.
LEMMA NextEpoch == IInv /\ ClosedInv /\ [Next]_vars => ClosedInv'
<1>1. SUFFICES ASSUME IInv, EpochInv, Stamped(state), [Next]_vars
               PROVE  EpochInv' /\ Stamped(state')
  BY DEF ClosedInv
<1>2. CASE UNCHANGED vars
  BY <1>1, <1>2 DEF vars, EpochInv
<1>3. CASE Next
  <2>1. PICK step : step.thread \in ThreadId /\ Execute(step)
    BY <1>1, <1>3, NextExecutes
  <2> DEFINE t == step.thread
             k == state.thread_steps
             m == CountedBy(Tick(k, t))
             q == BeginStep(state, t)
             out == execute_enabled_step(program, state, step)
             r == out.state
  <2>2. /\ r = state' /\ Good(program, m, q)
        /\ LocalStep(state, q, t) /\ q.semaphores = state.semaphores
        /\ SourceRun(program, m, state, q, step) \/ FlushRun(program, m, state, q, step)
    BY <1>1, <2>1, ExecuteRuns
  <2>3. /\ state \in CountedState(program, CountedBy(k)) /\ k \in Clock
        /\ q \in CountedState(program, m) /\ r \in CountedState(program, m)
    BY <1>1, <2>2, RunsGood DEF Good, Sound, IInv
  <2>4. \A c \in Clocks(state) : c \in Clock /\ c[t] <= k[t]
    <3>1. \A c \in Clocks(state) : c \in Below(CountedBy(k))
      BY <2>3, ClocksBelow DEF Clocks, AccessBelow
    <3> QED BY <2>1, <3>1 DEF Below, CountedBy, HBE
  <2>5. Clocks(r) \subseteq Known(state)
    BY <1>1, <2>1, OldAccessesKnown
  <2>6. step \in ScheduleStep
    BY <2>2 DEF SourceRun, FlushRun, Steps
  <2>7. Untouched(state, q)
    BY <2>3 DEF Untouched, BeginStep, CountedState
  <2>8. \/ RecordsNothing(q, out)
        \/ /\ \E x, e : Records(m, q, step, out, x, e)
           /\ LocalStep(q, r, t) /\ r.semaphores = q.semaphores
    BY <2>2, RunRecords
  <2> HIDE DEF out
  <2>9. r.thread_clock[t] \in Clock /\ r.thread_clock[t][t] = k[t] + 1 /\ k[t] \in Nat
    <3>1. r.thread_clock[t] \in Clock /\ r.thread_clock[t][t] = m.steps[t]
      BY <2>1, <2>3 DEF CountedState, CountedClocks, Below
    <3> QED BY <2>1, <2>3, <3>1 DEF CountedBy, Tick, Clock
  <2>10. EpochInv' <=> Clocks(r) \subseteq Known(r)
    <3>1. ASSUME NEW c \in Clocks(r) PROVE c \in Clock
      BY <2>5 DEF Known
    <3> QED BY <2>2, <3>1 DEF EpochInv, Clocks, Known
  <2> HIDE DEF q
  <2>11. CASE RecordsNothing(q, out)
    <3>1. Accesses(r) = Accesses(state)
      BY <2>7, <2>11 DEF RecordsNothing, Accesses, Untouched
    <3> QED BY <1>1, <2>2, <2>5, <2>10, <3>1 DEF Known, Stamped
  <2>12. CASE /\ \E x, e : Records(m, q, step, out, x, e)
              /\ LocalStep(q, r, t) /\ r.semaphores = q.semaphores
    <3>1. PICK x, e : Records(m, q, step, out, x, e)
      BY <2>12
    <3>2. e.endpoint.thread = t /\ e.clock = r.thread_clock[t]
      BY <3>1 DEF Records
    <3>3. Accesses(r) = Accesses(state) \cup {e} /\ Clocks(r) \subseteq Clocks(state) \cup {e.clock}
      <4>1. /\ LocalStep(state, q, t) /\ q.semaphores = state.semaphores
            /\ LocalStep(q, out.state, t) /\ out.state.semaphores = q.semaphores
        BY <2>2, <2>12
      <4> HIDE DEF m
      <4> QED BY <2>3, <2>6, <2>7, <3>1, <4>1, ClocksAfter
    <3>4. ASSUME NEW c \in Clocks(r), c[t] >= e.clock[t] PROVE HBE(e.clock, c)
      <4>1. c = e.clock
        BY <2>4, <2>9, <3>2, <3>3, <3>4, <2>1 DEF Clock
      <4> QED BY <2>9, <3>2, <4>1, HBEOrder
    <3>5. EpochInv'
      BY <2>5, <2>10, <3>2, <3>3, <3>4 DEF Known
    <3>6. Stamped(r)
      BY <1>1, <2>9, <3>2, <3>3 DEF Stamped
    <3> QED BY <2>2, <3>5, <3>6
  <2> QED BY <2>8, <2>11, <2>12
<1> QED BY <1>1, <1>2, <1>3

(***************************************************************************)
(* A clock that knows the step of an access knows all the access knew, so  *)
(* that comparing whole clocks, as ordered_by_happens_before does, and     *)
(* comparing the one component of the access's thread are the same, and    *)
(* two unordered accesses are concurrent.                                  *)
(***************************************************************************)
THEOREM ClocksCausallyClosed == Spec => []EpochInv
<1>1. Init => ClosedInv
  <2>1. SUFFICES ASSUME Init PROVE Accesses(state) = {}
    BY DEF ClosedInv, EpochInv, Stamped
  <2>2. PICK model \in MemoryModels : state = initial_state(program, model)
    BY <2>1 DEF Init
  <2>3. \A x \in Addresses : HistoryOf(state.memory[x]) = {}
    BY <2>2 DEF initial_state, NoAccesses, HistoryOf
  <2> QED BY <2>3 DEF Accesses
<1>2. ClosedInv => EpochInv
  BY DEF ClosedInv
<1> QED BY <1>1, <1>2, Invariance, NextEpoch, PTL DEF Spec

-----------------------------------------------------------------------------
(***************************************************************************)
(* No race is missed, by a program without backward branches.  As long as  *)
(* none is reported, what record_write forgets is covered: a plain access  *)
(* that is neither the last write nor among the reads since it happens     *)
(* before the last write, so that an access ordered after that write is    *)
(* ordered after all of them.  The map of reads is keyed by source action: *)
(* it loses no read when no action runs twice, which the counters say.     *)
(***************************************************************************)
PlainOf(m) == Range(m.plain_accesses)
AtomicOf(m) == Range(m.atomic_accesses)

\* One read per key, as in the map, and atomic accesses in the atomic history.
Keyed(m) ==
    /\ \A r, q \in m.reads_since_last_write : KeyOf(r) = KeyOf(q) => r = q
    /\ \A e \in AtomicOf(m) : e.is_atomic

\* The thread of a recorded read stands beyond it.
Passed(s, m) ==
    \A r \in m.reads_since_last_write : r.endpoint.action_index < s.pc[r.endpoint.thread]

Covered(m) ==
    \A e \in PlainOf(m) :
        \/ \E w \in m.last_write : HBE(e.clock, w.clock)
        \/ ~e.is_write /\ e \in m.reads_since_last_write

\* The scan of the reads in key order finds one if any is unordered...
LEMMA ReadScan ==
    ASSUME NEW n, NEW m \in AddressBelow(n), NEW e, Keyed(m), UnorderedRead(m, e) = {}
    PROVE  \A r \in m.reads_since_last_write : ordered_by_happens_before(r, e)
<1> DEFINE U == {r \in m.reads_since_last_write : ~ordered_by_happens_before(r, e)}
           T == {r.endpoint.thread : r \in U}
           I(t) == {r.endpoint.action_index : r \in {q \in U : q.endpoint.thread = t}}
<1>1. SUFFICES ASSUME U # {} PROVE FALSE
  OBVIOUS
<1>2. \A r \in U : r.endpoint.thread \in Nat /\ r.endpoint.action_index \in Nat
  BY SizesAssumption DEF AddressBelow, AddressParts, AccessBelow, ScheduleStep, ThreadId
<1>3. \A r \in U, q \in U : KeyOf(r) = KeyOf(q) => r = q
  BY DEF Keyed
<1> HIDE DEF U
<1>4. Min(T) \in T /\ \A i \in T : Min(T) <= i
  <2>1. T \in SUBSET Nat /\ T # {}
    BY <1>1, <1>2
  <2> HIDE DEF T
  <2> QED BY <2>1, LeastNatural
<1> DEFINE t == Min(T)
           J == I(t)
<1>5. Min(J) \in J /\ \A i \in J : Min(J) <= i
  <2>1. J \in SUBSET Nat /\ J # {}
    BY <1>2, <1>4
  <2> HIDE DEF J
  <2> QED BY <2>1, LeastNatural
<1>6. PICK r \in U : r.endpoint.thread = t /\ r.endpoint.action_index = Min(J)
  BY <1>5
<1>7. ASSUME NEW q \in U \ {r} PROVE KeyLess(r, q)
  <2>1. q.endpoint.thread \in T /\ (q.endpoint.thread = t => q.endpoint.action_index \in J)
    OBVIOUS
  <2>2. t <= q.endpoint.thread
    BY <1>4, <2>1
  <2>3. q.endpoint.thread = t => Min(J) <= q.endpoint.action_index
    BY <1>5, <2>1
  <2> HIDE DEF J, t
  <2>4. KeyOf(r) # KeyOf(q)
    BY <1>3
  <2> QED BY <1>2, <1>6, <2>2, <2>3, <2>4 DEF KeyLess, KeyOf
<1>8. r \in UnorderedRead(m, e)
  BY <1>6, <1>7 DEF UnorderedRead, U
<1> QED BY <1>8

\* ... as does the scan of a history.
LEMMA HistoryScan ==
    ASSUME NEW S, NEW h \in Seq(S), NEW e, UnorderedConflict(h, e) = {}
    PROVE  \A f \in {h[i] : i \in DOMAIN h} :
              f.is_write \/ e.is_write => ordered_by_happens_before(f, e)
<1> DEFINE C == {i \in DOMAIN h : /\ h[i].is_write \/ e.is_write
                                  /\ ~ordered_by_happens_before(h[i], e)}
<1>1. SUFFICES ASSUME C # {} PROVE FALSE
  OBVIOUS
<1>2. C \in SUBSET Nat
  OBVIOUS
<1>3. Min(C) \in C /\ \A i \in C : Min(C) <= i
  <2> HIDE DEF C
  <2> QED BY <1>1, <1>2, LeastNatural
<1>4. h[Min(C)] \in UnorderedConflict(h, e)
  BY <1>3 DEF UnorderedConflict
<1> QED BY <1>4

\* What recording an access does to the parts of an address state.
LEMMA RecordingParts ==
    ASSUME NEW n, NEW m \in AddressBelow(n), NEW e \in AccessBelow(n), NEW after, NEW prior,
           Recording(m, after, prior, e)
    PROVE  /\ ~e.is_atomic =>
                 PlainOf(after) = PlainOf(m) \cup {e} /\ AtomicOf(after) = AtomicOf(m)
           /\ e.is_atomic =>
                 /\ PlainOf(after) = PlainOf(m) /\ AtomicOf(after) = AtomicOf(m) \cup {e}
                 /\ after.last_write = m.last_write
                 /\ after.reads_since_last_write = m.reads_since_last_write
           /\ ~e.is_atomic /\ ~e.is_write =>
                 /\ after.last_write = m.last_write
                 /\ after.reads_since_last_write = KeepFirst(m.reads_since_last_write, e)
           /\ ~e.is_atomic /\ e.is_write =>
                 after.last_write = {e} /\ after.reads_since_last_write = {}
<1>1. /\ m \in AddressParts(n) /\ m.plain_accesses \in Seq(AccessBelow(n))
      /\ m.atomic_accesses \in Seq(AccessBelow(n))
  BY DEF AddressBelow, AddressParts
<1>2. /\ Range(Append(m.plain_accesses, e)) = PlainOf(m) \cup {e}
      /\ Range(Append(m.atomic_accesses, e)) = AtomicOf(m) \cup {e}
  <2>1. ASSUME NEW h \in Seq(AccessBelow(n)) PROVE Range(Append(h, e)) = Range(h) \cup {e}
    <3>1. {Append(h, e)[i] : i \in DOMAIN Append(h, e)} = {h[i] : i \in DOMAIN h} \cup {e}
      BY AppendHistory
    <3> QED BY <3>1, Zenon DEF Range
  <2> QED BY <1>1, <2>1 DEF PlainOf, AtomicOf
<1>3. CASE ~e.is_atomic /\ ~e.is_write
  <2>1. after = WithRead(m, e)
    BY <1>3 DEF Recording
  <2>2. /\ after.plain_accesses = Append(m.plain_accesses, e)
        /\ after.atomic_accesses = m.atomic_accesses /\ after.last_write = m.last_write
        /\ after.reads_since_last_write = KeepFirst(m.reads_since_last_write, e)
    BY <1>1, <2>1 DEF WithRead, AddressParts
  <2> QED BY <1>2, <1>3, <2>2 DEF PlainOf, AtomicOf
<1>4. CASE ~e.is_atomic /\ e.is_write
  <2>1. after = WithWrite(m, e)
    BY <1>4 DEF Recording
  <2>2. /\ after.plain_accesses = Append(m.plain_accesses, e)
        /\ after.atomic_accesses = m.atomic_accesses /\ after.last_write = {e}
        /\ after.reads_since_last_write = {}
    BY <1>1, <2>1 DEF WithWrite, AddressParts
  <2> QED BY <1>2, <1>4, <2>2 DEF PlainOf, AtomicOf
<1>5. CASE e.is_atomic
  <2>1. after = WithAtomic(m, e)
    BY <1>5 DEF Recording
  <2>2. /\ after.plain_accesses = m.plain_accesses
        /\ after.atomic_accesses = Append(m.atomic_accesses, e)
        /\ after.last_write = m.last_write
        /\ after.reads_since_last_write = m.reads_since_last_write
    BY <1>1, <2>1 DEF WithAtomic, AddressParts
  <2> QED BY <1>2, <1>5, <2>2 DEF PlainOf, AtomicOf
<1> QED BY <1>3, <1>4, <1>5

\* An access reported against nothing is ordered after every access it conflicts with.
LEMMA UnreportedOrdered ==
    ASSUME NEW n, NEW m \in AddressBelow(n), NEW e \in AccessBelow(n), NEW after,
           Recording(m, after, {}, e), Keyed(m), Covered(m),
           \A f \in HistoryOf(m) : ~HBE(e.clock, f.clock)
    PROVE  /\ \A f \in HistoryOf(m) :
                 (f.is_write \/ e.is_write) /\ ~(f.is_atomic /\ e.is_atomic)
                    => HBE(f.clock, e.clock)
           /\ ~e.is_atomic /\ e.is_write => \A f \in PlainOf(m) : HBE(f.clock, e.clock)
<1>1. /\ HistoryOf(m) = PlainOf(m) \cup AtomicOf(m)
      /\ m.last_write \subseteq HistoryOf(m) /\ m.reads_since_last_write \subseteq HistoryOf(m)
      /\ m.plain_accesses \in Seq(AccessBelow(n)) /\ m.atomic_accesses \in Seq(AccessBelow(n))
  BY DEF AddressBelow, AddressParts, Recorded, HistoryOf, PlainOf, AtomicOf, Range
<1>2. \A f \in HistoryOf(m) : ordered_by_happens_before(f, e) => HBE(f.clock, e.clock)
  BY DEF ordered_by_happens_before
<1>3. e.clock \in Clock /\ \A f \in HistoryOf(m) : f.clock \in Clock
  <2>1. /\ PlainOf(m) \subseteq AccessBelow(n) /\ AtomicOf(m) \subseteq AccessBelow(n)
    BY <1>1, SeqElement DEF PlainOf, AtomicOf, Range
  <2> QED BY <1>1, <2>1 DEF AccessBelow, Below
<1>4. ASSUME ~e.is_atomic
      PROVE  /\ \A w \in m.last_write : HBE(w.clock, e.clock)
             /\ \A f \in AtomicOf(m) : f.is_write \/ e.is_write => HBE(f.clock, e.clock)
             /\ e.is_write => \A r \in m.reads_since_last_write : HBE(r.clock, e.clock)
  <2>1. /\ UnorderedWrite(m, e) = {} /\ UnorderedConflict(m.atomic_accesses, e) = {}
        /\ e.is_write => UnorderedRead(m, e) = {}
    BY <1>4 DEF Recording, ReadPrior, WritePrior, FirstNonempty
  <2>2. \A w \in m.last_write : ordered_by_happens_before(w, e)
    BY <2>1 DEF UnorderedWrite
  <2>3. \A f \in AtomicOf(m) : f.is_write \/ e.is_write => ordered_by_happens_before(f, e)
    BY <1>1, <2>1, HistoryScan DEF AtomicOf, Range
  <2>4. e.is_write => \A r \in m.reads_since_last_write : ordered_by_happens_before(r, e)
    BY <2>1, ReadScan
  <2> QED BY <1>1, <1>2, <2>2, <2>3, <2>4
<1>5. ASSUME ~e.is_atomic, NEW f \in PlainOf(m), f.is_write \/ e.is_write
      PROVE  HBE(f.clock, e.clock)
  <2>1. CASE \E w \in m.last_write : HBE(f.clock, w.clock)
    BY <1>1, <1>3, <1>4, <1>5, <2>1, HBEOrder
  <2>2. CASE ~f.is_write /\ f \in m.reads_since_last_write
    BY <1>4, <1>5, <2>2
  <2> QED BY <2>1, <2>2 DEF Covered
<1>6. ASSUME e.is_atomic, NEW f \in PlainOf(m), f.is_write \/ e.is_write
      PROVE  HBE(f.clock, e.clock)
  <2>1. UnorderedConflict(m.plain_accesses, e) = {}
    BY <1>6 DEF Recording, AtomicPrior
  <2>2. ordered_by_happens_before(f, e)
    BY <1>1, <1>6, <2>1, HistoryScan DEF PlainOf, Range
  <2> QED BY <1>1, <1>2, <2>2
<1>7. \A f \in AtomicOf(m) : f.is_atomic
  BY DEF Keyed
<1> QED BY <1>1, <1>4, <1>5, <1>6, <1>7

\* So the address stays without a race, and covered.
LEMMA RecordingCovers ==
    ASSUME NEW n, NEW m \in AddressBelow(n), NEW e \in AccessBelow(n), NEW after,
           Recording(m, after, {}, e), Keyed(m), Covered(m), Races(m) = {},
           \A f \in HistoryOf(m) : ~HBE(e.clock, f.clock),
           ~e.is_write => \A r \in m.reads_since_last_write : KeyOf(r) # KeyOf(e)
    PROVE  Covered(after) /\ Races(after) = {}
<1>1. /\ \A f \in HistoryOf(m) :
            (f.is_write \/ e.is_write) /\ ~(f.is_atomic /\ e.is_atomic) => HBE(f.clock, e.clock)
      /\ ~e.is_atomic /\ e.is_write => \A f \in PlainOf(m) : HBE(f.clock, e.clock)
  BY UnreportedOrdered
<1>2. HBE(e.clock, e.clock)
  BY HBEOrder DEF AccessBelow, Below
<1>3. Races(after) = {}
  <2>1. HistoryOf(after) = HistoryOf(m) \cup {e}
    BY RecordingGrows
  <2>2. SUFFICES ASSUME NEW f \in HistoryOf(after), NEW g \in HistoryOf(after), RaceWith(f, g)
                 PROVE  FALSE
    BY DEF Races, RaceWith
  <2>3. CASE f \in HistoryOf(m) /\ g \in HistoryOf(m)
    BY <2>2, <2>3, RacesOf
  <2>4. CASE f = e \/ g = e
    BY <1>1, <1>2, <2>1, <2>2, <2>4 DEF RaceWith, Concurrent
  <2> QED BY <2>1, <2>3, <2>4
<1>4. Covered(after)
  <2>1. CASE e.is_atomic
    BY <2>1, RecordingParts DEF Covered
  <2>2. CASE ~e.is_atomic /\ e.is_write
    <3>1. PlainOf(after) = PlainOf(m) \cup {e} /\ after.last_write = {e}
      BY <2>2, RecordingParts
    <3> QED BY <1>1, <1>2, <2>2, <3>1 DEF Covered
  <2>3. CASE ~e.is_atomic /\ ~e.is_write
    <3>1. /\ PlainOf(after) = PlainOf(m) \cup {e} /\ after.last_write = m.last_write
          /\ after.reads_since_last_write = m.reads_since_last_write \cup {e}
      <4>1. ~ \E r \in m.reads_since_last_write : KeyOf(r) = KeyOf(e)
        BY <2>3
      <4>2. KeepFirst(m.reads_since_last_write, e) = m.reads_since_last_write \cup {e}
        BY <4>1 DEF KeepFirst
      <4> QED BY <2>3, <4>2, RecordingParts
    <3> QED BY <2>3, <3>1 DEF Covered
  <2> QED BY <2>1, <2>2, <2>3
<1> QED BY <1>3, <1>4

\* Whatever is reported, the map keeps one read per key, and keeps only passed ones.
LEMMA RecordingKeyed ==
    ASSUME NEW n, NEW m \in AddressBelow(n), NEW e \in AccessBelow(n), NEW after, NEW prior,
           Recording(m, after, prior, e), Keyed(m)
    PROVE  /\ Keyed(after)
           /\ \A r \in after.reads_since_last_write :
                 r \in m.reads_since_last_write \/ (r = e /\ ~e.is_write)
<1> DEFINE reads == m.reads_since_last_write
<1>1. CASE e.is_atomic
  <2>1. after.reads_since_last_write = reads /\ AtomicOf(after) = AtomicOf(m) \cup {e}
    BY <1>1, RecordingParts
  <2> QED BY <1>1, <2>1 DEF Keyed
<1>2. CASE ~e.is_atomic /\ e.is_write
  <2>1. after.reads_since_last_write = {} /\ AtomicOf(after) = AtomicOf(m)
    BY <1>2, RecordingParts
  <2> QED BY <1>2, <2>1 DEF Keyed
<1>3. CASE ~e.is_atomic /\ ~e.is_write
  <2>1. after.reads_since_last_write = KeepFirst(reads, e) /\ AtomicOf(after) = AtomicOf(m)
    BY <1>3, RecordingParts
  <2>2. \/ KeepFirst(reads, e) = reads
        \/ KeepFirst(reads, e) = reads \cup {e} /\ \A r \in reads : KeyOf(r) # KeyOf(e)
    BY DEF KeepFirst
  <2> HIDE DEF reads
  <2>3. CASE KeepFirst(reads, e) = reads
    BY <2>1, <2>3 DEF Keyed, reads
  <2>4. CASE KeepFirst(reads, e) = reads \cup {e} /\ \A r \in reads : KeyOf(r) # KeyOf(e)
    BY <1>3, <2>1, <2>4 DEF Keyed, reads
  <2> QED BY <2>2, <2>3, <2>4
<1> QED BY <1>1, <1>2, <1>3

\* No step of a program without backward branches takes a counter back.
LEMMA RunForward ==
    ASSUME NEW p, NEW m, NEW s, NEW q, NEW step, ~requires_cycle_detection(p),
           SourceRun(p, m, s, q, step) \/ FlushRun(p, m, s, q, step)
    PROVE  Forward(q, execute_enabled_step(p, s, step).state)
<1>1. CASE SourceRun(p, m, s, q, step)
  BY <1>1, SourceForward DEF SourceRun
<1>2. CASE FlushRun(p, m, s, q, step)
  <2>1. execute_enabled_step(p, s, step).state.pc = q.pc
    BY <1>2, FlushRuns
  <2>2. q.pc \in [ThreadId -> Nat]
    BY <1>2 DEF FlushRun, Good, CountedState, Counters
  <2> QED BY <2>1, <2>2 DEF Forward
<1> QED BY <1>1, <1>2

\* A read stays passed.
LEMMA PassedForward ==
    ASSUME NEW p, NEW n, NEW s \in CountedState(p, n), NEW r \in CountedState(p, n),
           NEW m \in AddressBelow(n), Passed(s, m), Forward(s, r)
    PROVE  Passed(r, m)
<1>1. s.pc \in [ThreadId -> Nat] /\ r.pc \in [ThreadId -> Nat]
  BY DEF CountedState, Counters
<1>2. \A e \in m.reads_since_last_write :
         e.endpoint.thread \in ThreadId /\ e.endpoint.action_index \in Nat
  BY DEF AddressBelow, AddressParts, AccessBelow, ScheduleStep
<1> QED BY <1>1, <1>2 DEF Passed, Forward

\* What makes completeness inductive: of each address the map of reads, and as long as no
\* race is reported that the address has none and its plain accesses are covered.
FoundAt(s, races, m) ==
    Keyed(m) /\ Passed(s, m) /\ (races = {} => Covered(m) /\ Races(m) = {})

FoundInv ==
    ~requires_cycle_detection(program) =>
        \A x \in Addresses : FoundAt(state, result.first_race, state.memory[x])

\* The address that a step records an access of.
LEMMA RecordFound ==
    ASSUME NEW p, NEW n, NEW q \in CountedState(p, n), NEW step, NEW out,
           out.state \in CountedState(p, n), NEW x, NEW e, Records(n, q, step, out, x, e),
           Passing(q, out.state, e), Forward(q, out.state), NEW races,
           FoundAt(q, races, q.memory[x]),
           \A f \in HistoryOf(q.memory[x]) : ~HBE(e.clock, f.clock)
    PROVE  FoundAt(out.state, FirstNonempty(races, out.report.race), out.state.memory[x])
<1> DEFINE m == q.memory[x]
           after == out.state.memory[x]
<1>1. x \in Addresses /\ e \in AccessBelow(n)
  BY DEF Records
<1>2. PICK prior : Recording(m, after, prior, e) /\ out.report.race = make_race_report(x, prior, e)
  BY DEF Records, Noted
<1>3. m \in AddressBelow(n)
  BY <1>1 DEF CountedState
<1>4. Keyed(m) /\ Passed(q, m) /\ (races = {} => Covered(m) /\ Races(m) = {})
  BY DEF FoundAt
<1>5. q.pc \in [ThreadId -> Nat] /\ out.state.pc \in [ThreadId -> Nat]
  BY DEF CountedState, Counters
<1>6. e.endpoint.thread \in ThreadId /\ e.endpoint.action_index \in Nat
  BY <1>1 DEF AccessBelow, ScheduleStep
<1>7. Passed(out.state, m)
  BY <1>3, <1>4, PassedForward
<1> HIDE DEF m, after
<1>8. Keyed(after) /\ \A r \in after.reads_since_last_write :
                         r \in m.reads_since_last_write \/ (r = e /\ ~e.is_write)
  BY <1>1, <1>2, <1>3, <1>4, RecordingKeyed
<1>9. Passed(out.state, after)
  BY <1>5, <1>6, <1>7, <1>8 DEF Passed, Passing
<1>10. ASSUME FirstNonempty(races, out.report.race) = {}
       PROVE  Covered(after) /\ Races(after) = {}
  <2>1. races = {} /\ prior = {}
    BY <1>2, <1>10 DEF FirstNonempty, make_race_report
  <2>2. ASSUME ~e.is_write, NEW r \in m.reads_since_last_write PROVE KeyOf(r) # KeyOf(e)
    <3>1. e.endpoint.action_index = q.pc[e.endpoint.thread]
      BY <2>2 DEF Passing
    <3>2. r.endpoint.action_index < q.pc[r.endpoint.thread]
      BY <1>4 DEF Passed
    <3>3. KeyOf(r) = KeyOf(e) => /\ r.endpoint.thread = e.endpoint.thread
                                 /\ r.endpoint.action_index = e.endpoint.action_index
      BY DEF KeyOf
    <3> QED BY <1>5, <1>6, <3>1, <3>2, <3>3
  <2> QED BY <1>1, <1>2, <1>3, <1>4, <2>1, <2>2, RecordingCovers DEF m
<1> QED BY <1>8, <1>9, <1>10 DEF FoundAt, after

\* Every step keeps that.
LEMMA NextFound == IInv /\ FoundInv /\ [Next]_vars => FoundInv'
<1>1. SUFFICES ASSUME IInv, FoundInv, [Next]_vars PROVE FoundInv'
  OBVIOUS
<1>2. CASE UNCHANGED vars
  BY <1>1, <1>2 DEF vars, FoundInv
<1>3. CASE Next
  <2>1. PICK step : step.thread \in ThreadId /\ Execute(step)
    BY <1>1, <1>3, NextExecutes
  <2> DEFINE t == step.thread
             k == state.thread_steps
             m == CountedBy(Tick(k, t))
             q == BeginStep(state, t)
             out == execute_enabled_step(program, state, step)
             r == out.state
             races == FirstNonempty(result.first_race, out.report.race)
  <2>2. /\ r = state' /\ result' = record_step_report(result, out.report)
        /\ program' = program /\ Good(program, m, q) /\ q.pc = state.pc
        /\ SourceRun(program, m, state, q, step) \/ FlushRun(program, m, state, q, step)
    BY <1>1, <2>1, ExecuteRuns
  <2>3. /\ state \in CountedState(program, CountedBy(k)) /\ k \in Clock
        /\ q \in CountedState(program, m) /\ r \in CountedState(program, m)
    BY <1>1, <2>2, RunsGood DEF Good, Sound, IInv
  <2>4. q.memory = state.memory
    BY <2>3 DEF BeginStep, CountedState
  <2>5. \/ RecordsNothing(q, out)
        \/ \E x, e : Records(m, q, step, out, x, e) /\ Passing(q, r, e)
    BY <2>2, RunRecords
  <2>6. result'.first_race = races
    BY <2>2 DEF record_step_report
  <2>7. SUFFICES ASSUME ~requires_cycle_detection(program), NEW y \in Addresses
                 PROVE  FoundAt(r, races, r.memory[y])
    BY <2>2, <2>6 DEF FoundInv
  <2>8. Forward(q, r)
    BY <2>2, <2>7, RunForward
  <2>9. \A z \in Addresses : /\ FoundAt(q, result.first_race, q.memory[z])
                             /\ q.memory[z] \in AddressBelow(m)
    BY <1>1, <2>2, <2>3, <2>4, <2>7 DEF FoundInv, FoundAt, Passed, CountedState
  <2> HIDE DEF q, out, m
  <2>10. ASSUME r.memory[y] = q.memory[y] PROVE FoundAt(r, races, r.memory[y])
    <3>1. Passed(r, q.memory[y])
      BY <2>3, <2>8, <2>9, PassedForward DEF FoundAt
    <3>2. races = {} => result.first_race = {}
      BY DEF FirstNonempty
    <3> QED BY <2>9, <2>10, <3>1, <3>2 DEF FoundAt
  <2>11. CASE RecordsNothing(q, out)
    BY <2>10, <2>11 DEF RecordsNothing
  <2>12. CASE \E x, e : Records(m, q, step, out, x, e) /\ Passing(q, r, e)
    <3>1. PICK x, e : Records(m, q, step, out, x, e) /\ Passing(q, r, e)
      BY <2>12
    <3>2. /\ x \in Addresses /\ e.clock = r.thread_clock[t] /\ e.clock \in Clock
          /\ \A z \in Addresses \ {x} : r.memory[z] = q.memory[z]
      BY <3>1 DEF Records, Noted, AccessBelow, Below
    <3>3. ASSUME NEW f \in HistoryOf(q.memory[x]) PROVE ~HBE(e.clock, f.clock)
      <4>1. f.clock \in Clock /\ f.clock[t] <= k[t]
        <5>1. f \in AccessBelow(CountedBy(k))
          BY <2>3, <2>4, <3>2, ClocksBelow
        <5> QED BY <2>1, <5>1 DEF AccessBelow, Below, CountedBy, HBE
      <4>2. e.clock[t] = k[t] + 1
        <5>1. r.thread_clock[t][t] = m.steps[t]
          BY <2>1, <2>3 DEF CountedState, CountedClocks
        <5> QED BY <2>1, <2>3, <3>2, <5>1 DEF CountedBy, Tick, Clock, m
      <4>3. k[t] \in Nat /\ f.clock[t] \in Nat
        BY <2>1, <2>3, <4>1 DEF Clock
      <4> QED BY <2>1, <4>1, <4>2, <4>3 DEF HBE
    <3>4. FoundAt(r, races, r.memory[x])
      BY <2>3, <2>8, <2>9, <3>1, <3>2, <3>3, RecordFound
    <3> QED BY <2>10, <3>2, <3>4
  <2> QED BY <2>5, <2>11, <2>12
<1> QED BY <1>1, <1>2, <1>3

(***************************************************************************)
(* INVARIANTS.md: "Conflicting memory accesses unordered by happens-before *)
(* are races."  In an execution of a program without backward branches, as *)
(* soon as two recorded accesses race, one has been reported, although     *)
(* record_read and record_write keep only the last write and the reads     *)
(* since it, one per source action.  (With a backward branch this is not   *)
(* so: see reread_race.)                                                   *)
(***************************************************************************)
THEOREM RacesFound == Spec => [](~requires_cycle_detection(program) => RaceComplete)
<1>1. Init => FoundInv
  <2>1. SUFFICES ASSUME Init, NEW x \in Addresses
                 PROVE  FoundAt(state, result.first_race, state.memory[x])
    BY DEF FoundInv
  <2>2. PICK model \in MemoryModels : state = initial_state(program, model)
    BY <2>1 DEF Init
  <2>3. state.memory[x] = NoAccesses
    BY <2>2 DEF initial_state
  <2> QED BY <2>3 DEF FoundAt, NoAccesses, Keyed, Passed, Covered, Races, HistoryOf, PlainOf,
         AtomicOf, Range
<1>2. FoundInv => (~requires_cycle_detection(program) => RaceComplete)
  BY DEF FoundInv, FoundAt, RaceComplete
<1> QED BY <1>1, <1>2, Invariance, NextFound, PTL DEF Spec
=============================================================================
