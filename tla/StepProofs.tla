----------------------------- MODULE StepProofs -----------------------------
(***************************************************************************)
(* What one step does to an execution state, whoever executes it: every    *)
(* step that enabled_steps gives keeps the states that are type-correct    *)
(* with clocks that count steps (CountedState), in which parked threads    *)
(* stand where they parked (Parked) and lock holders have acquired what    *)
(* their lock published (HandedOff).  Types need Parked, because the last  *)
(* arrival of a barrier advances the counters of the threads parked there. *)
(***************************************************************************)
EXTENDS InterpreterTypes

-----------------------------------------------------------------------------
(***************************************************************************)
(* What the step of a thread t that is not parked leaves alone.            *)
(***************************************************************************)
SameElsewhere(s, r, t) ==
    \A u \in ThreadId \ {t} :
        /\ r.pc[u] = s.pc[u]
        /\ r.thread_clock[u] = s.thread_clock[u]
        /\ r.store_buffers[u] = s.store_buffers[u]
        /\ r.pso_store_buffers[u] = s.pso_store_buffers[u]

OwnStep(s, r, t) ==
    /\ r.memory_model = s.memory_model
    /\ r.started = s.started
    /\ r.condition_waiters = s.condition_waiters
    /\ r.wait_phase = s.wait_phase
    /\ r.barriers = s.barriers
    /\ \A m \in Mutexes : r.mutex_owner[m] \in {s.mutex_owner[m], t, NoThread}
    /\ SameElsewhere(s, r, t)
    /\ HBE(s.thread_clock[t], r.thread_clock[t])

\* A step that touches no lock either.
LocalStep(s, r, t) ==
    /\ OwnStep(s, r, t)
    /\ r.mutex_owner = s.mutex_owner
    /\ r.mutex_clock = s.mutex_clock
    /\ r.rwlocks = s.rwlocks

Clocked(s) == s.thread_clock \in [ThreadId -> Clock]

\* A counted state has clocks.
LEMMA CountedClocked ==
    ASSUME NEW p, NEW n, NEW s \in CountedState(p, n)
    PROVE  Clocked(s)
BY DEF CountedState, CountedClocks, Below, Clocked

\* Own steps, and local steps, of one thread compose.
LEMMA LocalStepTransitive ==
    ASSUME NEW s, NEW q, NEW r, NEW t \in ThreadId, Clocked(s), Clocked(q), Clocked(r)
    PROVE  /\ OwnStep(s, q, t) /\ OwnStep(q, r, t) => OwnStep(s, r, t)
           /\ LocalStep(s, q, t) /\ LocalStep(q, r, t) => LocalStep(s, r, t)
<1>1. HBE(s.thread_clock[t], q.thread_clock[t]) /\ HBE(q.thread_clock[t], r.thread_clock[t])
        => HBE(s.thread_clock[t], r.thread_clock[t])
  BY HBEOrder DEF Clocked
<1>2. ASSUME OwnStep(s, q, t), OwnStep(q, r, t) PROVE OwnStep(s, r, t)
  <2>1. SameElsewhere(s, r, t)
    BY <1>2 DEF OwnStep, SameElsewhere
  <2>2. \A m \in Mutexes : r.mutex_owner[m] \in {s.mutex_owner[m], t, NoThread}
    BY <1>2 DEF OwnStep
  <2> QED BY <1>1, <1>2, <2>1, <2>2 DEF OwnStep
<1> QED BY <1>2 DEF LocalStep

\* The parts effects are made of, none of which touches a lock.
LEMMA LocalParts ==
    ASSUME NEW p, NEW n \in Counts, NEW s \in CountedState(p, n), NEW t \in ThreadId
    PROVE  /\ LocalStep(s, s, t)
           /\ \A i : LocalStep(s, [s EXCEPT !.pc[t] = i], t)
           /\ \A i, v : LocalStep(s, [s EXCEPT !.registers[t][i] = v], t)
           /\ \A x, v : LocalStep(s, [s EXCEPT !.memory_values[x] = v], t)
           /\ \A x, v : LocalStep(s, [s EXCEPT !.memory[x] = v], t)
           /\ \A x, v : LocalStep(s, [s EXCEPT !.atomic_location_clock[x] = v], t)
           /\ \A x, v : LocalStep(s, [s EXCEPT !.semaphores[x] = v], t)
           /\ \A v : LocalStep(s, [s EXCEPT !.store_buffers[t] = v], t)
           /\ \A x, v : LocalStep(s, [s EXCEPT !.pso_store_buffers[t][x] = v], t)
           /\ \A c \in Below(n) : LocalStep(s, [s EXCEPT !.thread_clock[t] = Join(@, c)], t)
<1> USE DEF LocalStep, OwnStep, SameElsewhere
<1>1. HBE(s.thread_clock[t], s.thread_clock[t])
  BY CountedClocked, HBEOrder DEF Clocked
<1>2. LocalStep(s, s, t)
  BY <1>1
<1>3. \A i : LocalStep(s, [s EXCEPT !.pc[t] = i], t)
  BY <1>1 DEF CountedState, Counters
<1>4. \A i, v : LocalStep(s, [s EXCEPT !.registers[t][i] = v], t)
  BY <1>1 DEF CountedState
<1>5. \A x, v : LocalStep(s, [s EXCEPT !.memory_values[x] = v], t)
  BY <1>1 DEF CountedState
<1>6. \A x, v : LocalStep(s, [s EXCEPT !.memory[x] = v], t)
  BY <1>1 DEF CountedState
<1>7. \A x, v : LocalStep(s, [s EXCEPT !.atomic_location_clock[x] = v], t)
  BY <1>1 DEF CountedState
<1>8. \A x, v : LocalStep(s, [s EXCEPT !.semaphores[x] = v], t)
  BY <1>1 DEF CountedState
<1>9. \A v : LocalStep(s, [s EXCEPT !.store_buffers[t] = v], t)
  BY <1>1 DEF CountedState
<1>10. \A x, v : LocalStep(s, [s EXCEPT !.pso_store_buffers[t][x] = v], t)
  BY <1>1 DEF CountedState
<1>11. ASSUME NEW c \in Below(n) PROVE LocalStep(s, [s EXCEPT !.thread_clock[t] = Join(@, c)], t)
  <2>1. HBE(s.thread_clock[t], Join(s.thread_clock[t], c))
    BY CountedClocked, JoinType DEF Clocked, Below
  <2>2. s.thread_clock \in [ThreadId -> Clock]
    BY CountedClocked DEF Clocked
  <2> QED BY <2>1, <2>2 DEF CountedState
<1> QED BY <1>2, <1>3, <1>4, <1>5, <1>6, <1>7, <1>8, <1>9, <1>10, <1>11

\* ++thread_steps and tick.
LEMMA BeginStepLocal ==
    ASSUME NEW p, NEW n \in Counts, NEW s \in CountedState(p, n), NEW t \in ThreadId
    PROVE  /\ LocalStep(s, BeginStep(s, t), t)
           /\ BeginStep(s, t).pc = s.pc
           /\ BeginStep(s, t).semaphores = s.semaphores
           /\ BeginStep(s, t).store_buffers = s.store_buffers
           /\ BeginStep(s, t).pso_store_buffers = s.pso_store_buffers
<1>1. s.thread_clock \in [ThreadId -> Clock]
  BY CountedClocked DEF Clocked
<1>2. HBE(s.thread_clock[t], Tick(s.thread_clock[t], t))
  BY <1>1, TickType
<1> QED BY <1>1, <1>2 DEF BeginStep, CountedState, LocalStep, OwnStep, SameElsewhere

-----------------------------------------------------------------------------
(***************************************************************************)
(* Effects that are local steps.                                           *)
(***************************************************************************)
\* A chain of two or three counted states.
LEMMA LocalChain ==
    ASSUME NEW p, NEW n \in Counts, NEW t \in ThreadId, NEW s \in CountedState(p, n),
           NEW q \in CountedState(p, n), NEW r \in CountedState(p, n),
           LocalStep(s, q, t), LocalStep(q, r, t)
    PROVE  LocalStep(s, r, t)
BY CountedClocked, LocalStepTransitive

\* advance_pc moves one counter.
LEMMA AdvanceLocal ==
    ASSUME NEW p, NEW n \in Counts, NEW s \in CountedState(p, n), NEW t \in ThreadId
    PROVE  LocalStep(s, advance_pc(p, s, t), t)
BY LocalParts DEF advance_pc

\* write_register changes one register.
LEMMA WriteRegisterLocal ==
    ASSUME NEW p, NEW n \in Counts, NEW s \in CountedState(p, n), NEW t \in ThreadId,
           NEW i, NEW v
    PROVE  LocalStep(s, write_register(s, t, i, v), t)
BY LocalParts DEF write_register

\* Recording an access changes the address history only.
LEMMA RecordLocal ==
    ASSUME NEW p, NEW n \in Counts, NEW s \in CountedState(p, n), NEW t \in ThreadId,
           NEW x, NEW current
    PROVE  /\ LocalStep(s, record_read(s, x, current).state, t)
           /\ LocalStep(s, record_write(s, x, current).state, t)
           /\ LocalStep(s, record_atomic(s, x, current).state, t)
BY LocalParts DEF record_read, record_write, record_atomic, DoneWithRace

\* Plain accesses are local steps.
LEMMA PlainLocal ==
    ASSUME NEW p, NEW n \in Counts, NEW s \in CountedState(p, n), NEW step \in ScheduleStep,
           NEW a \in MemoryActions, a.address \in Addresses
    PROVE  /\ LocalStep(s, ReadEffect(s, step, a).state, step.thread)
           /\ LocalStep(s, WriteEffect(s, step, a).state, step.thread)
<1> DEFINE t == step.thread
           x == a.address
           v == evaluate_operand_or(s, t, a.value, 0)
           r == write_register(s, t, a.destination, read_plain_value(s, t, x))
           w == [s EXCEPT !.memory_values[x] = v]
<1>1. t \in ThreadId /\ a.value \in ValueOperand
  BY DEF ScheduleStep, MemoryActions
<1>2. r \in CountedState(p, n) /\ w \in CountedState(p, n)
  BY <1>1, PlainValueType, WriteRegisterCounted, OperandValue, SmallValues, StoreValueCounted
<1>3. LocalStep(s, r, t) /\ LocalStep(s, w, t)
  BY <1>1, WriteRegisterLocal, LocalParts
<1>4. /\ ReadEffect(s, step, a) \in StepOutcome(p, n)
      /\ WriteEffect(s, step, a) \in StepOutcome(p, n)
  BY PlainEffects
<1> HIDE DEF r, w
<1>5. LocalStep(s, ReadEffect(s, step, a).state, t)
  <2>1. ReadEffect(s, step, a) = record_read(r, x, Access(r, step, FALSE, FALSE))
    BY DEF ReadEffect, r
  <2>2. LocalStep(r, ReadEffect(s, step, a).state, t)
    BY <1>1, <1>2, <2>1, RecordLocal
  <2> QED BY <1>1, <1>2, <1>3, <1>4, <2>2, LocalChain DEF StepOutcome
<1>6. LocalStep(s, WriteEffect(s, step, a).state, t)
  <2>1. s.memory_model \in MemoryModel
    BY DEF CountedState
  <2>2. CASE s.memory_model = "TSO"
    BY <1>1, <2>2, LocalParts DEF WriteEffect, Done
  <2>3. CASE s.memory_model = "PSO"
    BY <1>1, <2>3, LocalParts DEF WriteEffect, Done
  <2>4. CASE s.memory_model = "SC"
    <3>1. WriteEffect(s, step, a) = record_write(w, x, Access(w, step, FALSE, TRUE))
      BY <2>4 DEF WriteEffect, w
    <3>2. LocalStep(w, WriteEffect(s, step, a).state, t)
      BY <1>1, <1>2, <3>1, RecordLocal
    <3> QED BY <1>1, <1>2, <1>3, <1>4, <3>2, LocalChain DEF StepOutcome
  <2> QED BY <2>1, <2>2, <2>3, <2>4 DEF MemoryModel
<1> QED BY <1>5, <1>6

\* Atomic accesses are local steps.
LEMMA AtomicLocal ==
    ASSUME NEW p, NEW n \in Counts, NEW s \in CountedState(p, n), NEW step \in ScheduleStep,
           NEW a \in MemoryActions, a.address \in Addresses
    PROVE  /\ LocalStep(s, AtomicLoadEffect(s, step, a).state, step.thread)
           /\ LocalStep(s, AtomicStoreEffect(s, step, a).state, step.thread)
           /\ LocalStep(s, AtomicRmwEffect(s, step, a).state, step.thread)
           /\ LocalStep(s, CompareExchangeEffect(s, step, a).state, step.thread)
<1> DEFINE t == step.thread
           x == a.address
           old == s.memory_values[x]
           stored == evaluate_operand_or(s, t, a.value, 0)
           addend == evaluate_operand_or(s, t, a.value, 1)
           success == old = evaluate_operand_or(s, t, a.expected, 0)
           Acquired(v) == write_register(AcquireLocation(s, t, x), t, a.destination, v)
           Released(r, v) == ReleaseLocation([r EXCEPT !.memory_values[x] = v], t, x)
           Reaches(r) == r \in CountedState(p, n) /\ LocalStep(s, r, t)
<1>1. t \in ThreadId /\ a.value \in ValueOperand /\ a.expected \in ValueOperand
  BY DEF ScheduleStep, MemoryActions
<1>2. old \in Value /\ stored \in Value /\ AddWrap(old, addend) \in Value
  BY <1>1, OperandValue, SmallValues, AddWrapType DEF CountedState
<1>3. Reaches(s)
  BY <1>1, LocalParts
<1>4. ASSUME NEW v \in Value PROVE Reaches(Acquired(v))
  <2> DEFINE q == AcquireLocation(s, t, x)
  <2>1. q \in CountedState(p, n)
    BY <1>1, AcquireLocationCounted
  <2>2. LocalStep(s, q, t)
    <3>1. s.atomic_location_clock[x] \in Below(n)
      BY DEF CountedState
    <3> QED BY <1>1, <3>1, LocalParts DEF AcquireLocation
  <2> HIDE DEF q
  <2>3. write_register(q, t, a.destination, v) \in CountedState(p, n)
    BY <1>1, <2>1, WriteRegisterCounted
  <2>4. LocalStep(q, write_register(q, t, a.destination, v), t)
    BY <1>1, <2>1, WriteRegisterLocal
  <2>5. LocalStep(s, write_register(q, t, a.destination, v), t)
    BY <1>1, <2>1, <2>2, <2>3, <2>4, LocalChain
  <2> QED BY <2>3, <2>5 DEF q
<1>5. ASSUME NEW r, Reaches(r), NEW v \in Value PROVE Reaches(Released(r, v))
  <2> DEFINE w == [r EXCEPT !.memory_values[x] = v]
  <2>1. w \in CountedState(p, n)
    BY <1>5, StoreValueCounted
  <2>2. LocalStep(r, w, t)
    BY <1>1, <1>5, LocalParts
  <2> HIDE DEF w
  <2>3. LocalStep(s, w, t)
    BY <1>1, <1>5, <2>1, <2>2, LocalChain
  <2>4. ReleaseLocation(w, t, x) \in CountedState(p, n)
    BY <1>1, <2>1, ReleaseLocationCounted
  <2>5. LocalStep(w, ReleaseLocation(w, t, x), t)
    BY <1>1, <2>1, LocalParts DEF ReleaseLocation
  <2>6. LocalStep(s, ReleaseLocation(w, t, x), t)
    BY <1>1, <2>1, <2>3, <2>4, <2>5, LocalChain
  <2> QED BY <2>4, <2>6 DEF w
<1>6. ASSUME NEW r, Reaches(r), NEW w \in BOOLEAN
      PROVE  LocalStep(s, record_atomic(r, x, Access(r, step, TRUE, w)).state, t)
  <2> DEFINE q == record_atomic(r, x, Access(r, step, TRUE, w))
  <2>1. q \in StepOutcome(p, n)
    BY <1>6, AccessCounted, RecordCounted
  <2>2. LocalStep(r, q.state, t)
    BY <1>1, <1>6, RecordLocal
  <2> HIDE DEF q
  <2>3. LocalStep(s, q.state, t)
    BY <1>1, <1>6, <2>1, <2>2, LocalChain DEF StepOutcome
  <2> QED BY <2>3 DEF q
<1> HIDE DEF Reaches, Acquired, Released
<1>7. LocalStep(s, AtomicLoadEffect(s, step, a).state, t)
  <2>1. Reaches(Acquired(old))
    BY <1>2, <1>4
  <2> QED BY <1>6, <2>1 DEF AtomicLoadEffect, Acquired
<1>8. LocalStep(s, AtomicStoreEffect(s, step, a).state, t)
  <2>1. Reaches(Released(s, stored))
    BY <1>2, <1>3, <1>5
  <2> QED BY <1>6, <2>1 DEF AtomicStoreEffect, Released
<1>9. LocalStep(s, AtomicRmwEffect(s, step, a).state, t)
  <2>1. Reaches(Released(Acquired(old), AddWrap(old, addend)))
    BY <1>2, <1>4, <1>5
  <2> QED BY <1>6, <2>1 DEF AtomicRmwEffect, Acquired, Released
<1>10. LocalStep(s, CompareExchangeEffect(s, step, a).state, t)
  <2> DEFINE acquired == Acquired(IF success THEN 1 ELSE 0)
             r == IF success THEN Released(acquired, stored) ELSE acquired
  <2>1. Reaches(acquired)
    BY <1>4, SmallValues
  <2>2. Reaches(r)
    BY <1>2, <1>5, <2>1
  <2>3. LocalStep(s, record_atomic(r, x, Access(r, step, TRUE, success)).state, t)
    BY <1>6, <2>2
  <2> QED BY <2>3 DEF CompareExchangeEffect, Acquired, Released
<1> QED BY <1>7, <1>8, <1>9, <1>10

\* So is every memory action.
LEMMA MemoryLocal ==
    ASSUME NEW p \in Programs, NEW n \in Counts, NEW s \in CountedState(p, n),
           NEW step \in ScheduleStep, s.pc[step.thread] < Len(p[step.thread]),
           NEW a \in MemoryActions
    PROVE  LocalStep(s, MemoryEffect(p, s, step, a).state, step.thread)
<1> DEFINE t == step.thread
           r == advance_pc(p, s, t)
           q == MemoryEffect(p, s, step, a).state
<1>1. t \in ThreadId
  BY DEF ScheduleStep
<1>2. r \in CountedState(p, n) /\ LocalStep(s, r, t)
  BY <1>1, AdvanceCounted, AdvanceLocal
<1> HIDE DEF r
<1>3. CASE a.address = NoAddress
  BY <1>2, <1>3 DEF MemoryEffect, Done, r
<1>4. CASE a.address # NoAddress
  <2>1. a.address \in Addresses /\ a.kind \in {"Read", "Write"} \cup AtomicKinds
    BY <1>4 DEF MemoryActions
  <2>2. /\ LocalStep(r, ReadEffect(r, step, a).state, t)
        /\ LocalStep(r, WriteEffect(r, step, a).state, t)
    BY <1>2, <2>1, PlainLocal
  <2>3. /\ LocalStep(r, AtomicLoadEffect(r, step, a).state, t)
        /\ LocalStep(r, AtomicStoreEffect(r, step, a).state, t)
        /\ LocalStep(r, AtomicRmwEffect(r, step, a).state, t)
        /\ LocalStep(r, CompareExchangeEffect(r, step, a).state, t)
    BY <1>2, <2>1, AtomicLocal
  <2>4. LocalStep(r, q, t)
    BY <1>4, <2>1, <2>2, <2>3 DEF MemoryEffect, AtomicKinds, r
  <2>5. q \in CountedState(p, n)
    BY MemoryCounted DEF StepOutcome
  <2> HIDE DEF q
  <2>6. LocalStep(s, q, t)
    BY <1>1, <1>2, <2>4, <2>5, LocalChain
  <2> QED BY <2>6 DEF q
<1> QED BY <1>3, <1>4

\* A flush moves no counter.
LEMMA FlushLocal ==
    ASSUME NEW p, NEW n \in Counts, NEW s \in CountedState(p, n), NEW step \in ScheduleStep,
           NEW x \in Addresses,
           \/ s.memory_model = "TSO" /\ s.store_buffers[step.thread] # <<>>
           \/ s.memory_model = "PSO" /\ s.pso_store_buffers[step.thread][x] # <<>>
    PROVE  /\ LocalStep(s, FlushEffect(s, step, FlushAction(x)).state, step.thread)
           /\ FlushEffect(s, step, FlushAction(x)).state.pc = s.pc
<1> DEFINE t == step.thread
           popped ==
             IF s.memory_model = "TSO"
             THEN [s EXCEPT !.memory_values[x] = Head(s.store_buffers[t]).value,
                            !.store_buffers[t] = Tail(@)]
             ELSE [s EXCEPT !.memory_values[x] = Head(s.pso_store_buffers[t][x]),
                            !.pso_store_buffers[t][x] = Tail(@)]
           m == [popped.memory EXCEPT ![x] =
                   [popped.memory[x] EXCEPT
                      !.last_write = {Access(popped, step, FALSE, TRUE)},
                      !.reads_since_last_write = {},
                      !.plain_accesses = Append(@, Access(popped, step, FALSE, TRUE))]]
           r == FlushEffect(s, step, FlushAction(x)).state
<1>1. t \in ThreadId /\ FlushAction(x).address = x
  BY DEF ScheduleStep, FlushAction
<1>2. r = [popped EXCEPT !.memory = m]
  BY <1>1 DEF FlushEffect, record_write, DoneWithRace, CountedState
<1>3. HBE(s.thread_clock[t], s.thread_clock[t])
  BY <1>1, CountedClocked, HBEOrder DEF Clocked
<1> HIDE DEF m, r
<1>4. LocalStep(s, r, t) /\ r.pc = s.pc
  BY <1>1, <1>2, <1>3 DEF LocalStep, OwnStep, SameElsewhere, CountedState
<1> QED BY <1>4 DEF r

\* So are the actions that touch nothing but their own thread.
LEMMA LocalEffectLocal ==
    ASSUME NEW p \in Programs, NEW n \in Counts, NEW s \in CountedState(p, n),
           NEW step \in ScheduleStep, s.pc[step.thread] < Len(p[step.thread]),
           NEW a \in Action, a.kind \in {"Set", "BranchNonzero", "Assert", "Fence", "Yield"}
    PROVE  LocalStep(s, LocalEffect(p, s, step, a).state, step.thread)
<1> DEFINE t == step.thread
           r == advance_pc(p, s, t)
<1>1. t \in ThreadId
  BY DEF ScheduleStep
<1>2. LocalStep(s, r, t)
  BY <1>1, AdvanceLocal
<1>3. CASE a.kind = "Set"
  <2> DEFINE w == write_register(s, t, a.destination, evaluate_operand_or(s, t, a.value, 0))
             q == advance_pc(p, w, t)
  <2>1. a.value \in ValueOperand
    BY <1>3, KindFields DEF SetActions
  <2>2. w \in CountedState(p, n) /\ LocalStep(s, w, t)
    BY <1>1, <2>1, OperandValue, SmallValues, WriteRegisterCounted, WriteRegisterLocal
  <2>3. LocalEffect(p, s, step, a) = Done(q)
    BY <1>3 DEF LocalEffect, SetEffect
  <2>4. q \in CountedState(p, n)
    BY <2>3, LocalCounted DEF Done, StepOutcome
  <2>5. LocalStep(w, q, t)
    BY <1>1, <2>2, AdvanceLocal
  <2> HIDE DEF w, q
  <2>6. LocalStep(s, q, t)
    BY <1>1, <2>2, <2>4, <2>5, LocalChain
  <2> QED BY <2>3, <2>6 DEF Done
<1> HIDE DEF r
<1>4. CASE a.kind = "BranchNonzero"
  <2>1. \A i : LocalStep(s, [s EXCEPT !.pc[t] = i], t)
    BY <1>1, LocalParts
  <2>2. LocalStep(s, BranchEffect(p, s, step, a).state, t)
    BY <1>2, <2>1 DEF BranchEffect, Done, ModelError, r
  <2> QED BY <1>4, <2>2 DEF LocalEffect
<1>5. CASE a.kind = "Assert"
  BY <1>2, <1>5 DEF LocalEffect, AssertEffect, Done, r
<1>6. CASE a.kind \in {"Fence", "Yield"}
  BY <1>2, <1>6 DEF LocalEffect, Done, r
<1> QED BY <1>3, <1>4, <1>5, <1>6

\* Semaphores and Join only move clocks of their own.
LEMMA SemaphoreAndJoinLocal ==
    ASSUME NEW p \in Programs, NEW n \in Counts, NEW s \in CountedState(p, n),
           NEW step \in ScheduleStep, s.pc[step.thread] < Len(p[step.thread])
    PROVE  /\ \A a \in SemaphoreActions :
                 /\ LocalStep(s, SemPostEffect(p, s, step, a).state, step.thread)
                 /\ LocalStep(s, SemWaitEffect(p, s, step, a).state, step.thread)
           /\ \A a \in ThreadActions :
                 LocalStep(s, JoinEffect(p, s, step, a).state, step.thread)
<1> DEFINE t == step.thread
           r == advance_pc(p, s, t)
<1>1. t \in ThreadId
  BY DEF ScheduleStep
<1>2. r \in CountedState(p, n) /\ LocalStep(s, r, t)
  BY <1>1, AdvanceCounted, AdvanceLocal
<1>3. r.thread_clock = s.thread_clock /\ s.thread_clock \in [ThreadId -> Clock]
  BY CountedClocked DEF advance_pc, CountedState, Clocked
<1> HIDE DEF r
<1>4. ASSUME NEW a \in SemaphoreActions
      PROVE  /\ LocalStep(s, SemPostEffect(p, s, step, a).state, t)
             /\ LocalStep(s, SemWaitEffect(p, s, step, a).state, t)
  <2> DEFINE q == s.semaphores[a.semaphore]
  <2>1. q.post_releases \in Below(n)
    BY DEF CountedState, SemaphoreBelow, SemaphoreActions
  <2>2. HBE(s.thread_clock[t], Join(s.thread_clock[t], q.post_releases))
    BY <1>1, <1>3, <2>1, JoinType DEF Below
  <2> HIDE DEF q
  <2>3. \A v : LocalStep(s, [r EXCEPT !.semaphores[a.semaphore] = v], t)
    BY <1>2 DEF LocalStep, OwnStep, SameElsewhere, CountedState
  <2>4. \A v : LocalStep(s, [r EXCEPT !.semaphores[a.semaphore] = v,
                                     !.thread_clock[t] = Join(@, q.post_releases)], t)
    BY <1>1, <1>2, <1>3, <2>2 DEF LocalStep, OwnStep, SameElsewhere, CountedState
  <2> QED BY <2>3, <2>4 DEF SemPostEffect, SemWaitEffect, Done, r, q
<1>5. ASSUME NEW a \in ThreadActions
      PROVE  LocalStep(s, JoinEffect(p, s, step, a).state, t)
  <2>1. CASE InvalidTarget(t, a)
    BY <1>2, <2>1 DEF JoinEffect, ModelError, r
  <2>2. CASE ~InvalidTarget(t, a)
    <3>1. a.target \in ThreadId
      BY <2>2 DEF InvalidTarget
    <3>2. s.thread_clock[a.target] \in Below(n)
      BY <3>1 DEF CountedState, CountedClocks
    <3> DEFINE q == [r EXCEPT !.thread_clock[t] = Join(@, s.thread_clock[a.target])]
    <3>3. LocalStep(r, q, t)
      BY <1>1, <1>2, <3>2, LocalParts
    <3>4. q \in CountedState(p, n)
      BY <1>1, <1>2, <3>2, JoinThreadClock
    <3> HIDE DEF q
    <3>5. LocalStep(s, q, t)
      BY <1>1, <1>2, <3>3, <3>4, LocalChain
    <3> QED BY <2>2, <3>5 DEF JoinEffect, Done, r, q
  <2> QED BY <2>1, <2>2
<1> QED BY <1>4, <1>5

-----------------------------------------------------------------------------
(***************************************************************************)
(* Frames.  HandedOff survives a step that leaves the locks alone and only *)
(* adds to clocks; Parked is a conjunction over threads, and the part of a *)
(* thread survives a step that does not change what the part looks at.     *)
(***************************************************************************)
\* HandedOff, lock by lock.
MutexHanded(s, x) ==
    s.mutex_owner[x] # NoThread => HBE(s.mutex_clock[x], s.thread_clock[s.mutex_owner[x]])

RwLockHanded(s, x) ==
    LET k == s.rwlocks[x]
    IN  /\ \A u \in k.reader_holders : HBE(k.writer_release, s.thread_clock[u])
        /\ k.writer_holder # NoThread =>
              /\ k.reader_holders = {}
              /\ k.reader_releases = Zero
              /\ HBE(k.writer_release, s.thread_clock[k.writer_holder])

\* HandedOff, lock by lock.
LEMMA HandedSplit ==
    ASSUME NEW s
    PROVE  HandedOff(s) <=> /\ \A x \in Mutexes : MutexHanded(s, x)
                            /\ \A x \in RwLocks : RwLockHanded(s, x)
BY DEF HandedOff, MutexHanded, RwLockHanded

\* A lock that a step does not touch stays handed off when clocks only grow.
LEMMA HandedFrame ==
    ASSUME NEW p, NEW n, NEW m, NEW s \in CountedState(p, n), NEW r \in CountedState(p, m),
           \A x \in Mutexes :
              \/ r.mutex_owner[x] = s.mutex_owner[x] /\ r.mutex_clock[x] = s.mutex_clock[x]
              \/ MutexHanded(r, x),
           \A x \in RwLocks : r.rwlocks[x] = s.rwlocks[x] \/ RwLockHanded(r, x),
           \A u \in ThreadId : HBE(s.thread_clock[u], r.thread_clock[u]),
           HandedOff(s)
    PROVE  HandedOff(r)
<1>1. \A u \in ThreadId : s.thread_clock[u] \in Clock /\ r.thread_clock[u] \in Clock
  BY CountedClocked DEF Clocked
<1>2. ASSUME NEW x \in Mutexes, r.mutex_owner[x] = s.mutex_owner[x],
             r.mutex_clock[x] = s.mutex_clock[x], r.mutex_owner[x] # NoThread
      PROVE  HBE(r.mutex_clock[x], r.thread_clock[r.mutex_owner[x]])
  <2> DEFINE u == s.mutex_owner[x]
  <2>1. u \in ThreadId /\ s.mutex_clock[x] \in Clock
    BY <1>2 DEF CountedState, OptThread, Below
  <2>2. HBE(s.mutex_clock[x], s.thread_clock[u])
    BY <1>2 DEF HandedOff
  <2> QED BY <1>1, <1>2, <2>1, <2>2, HBEOrder
<1>3. ASSUME NEW l \in RwLocks, r.rwlocks[l] = s.rwlocks[l]
      PROVE  RwLockHanded(r, l)
  <2> DEFINE k == s.rwlocks[l]
  <2>1. k \in RwLockBelow(n)
    BY DEF CountedState
  <2>2. RwLockHanded(s, l)
    BY HandedSplit
  <2>3. /\ \A u \in k.reader_holders : HBE(k.writer_release, s.thread_clock[u])
        /\ k.writer_holder # NoThread =>
              /\ k.reader_holders = {} /\ k.reader_releases = Zero
              /\ HBE(k.writer_release, s.thread_clock[k.writer_holder])
    BY <2>2 DEF RwLockHanded
  <2>4. r.rwlocks[l] = k
    BY <1>3
  <2> HIDE DEF k
  <2>5. k.writer_release \in Clock /\ k.reader_holders \subseteq ThreadId
    BY <2>1 DEF RwLockBelow, Below
  <2>6. k.writer_holder # NoThread => k.writer_holder \in ThreadId
    BY <2>1 DEF RwLockBelow, OptThread
  <2>7. \A u \in k.reader_holders : HBE(k.writer_release, r.thread_clock[u])
    BY <1>1, <2>3, <2>5, HBEOrder
  <2>8. k.writer_holder # NoThread => HBE(k.writer_release, r.thread_clock[k.writer_holder])
    BY <1>1, <2>3, <2>5, <2>6, HBEOrder
  <2> QED BY <2>3, <2>4, <2>7, <2>8 DEF RwLockHanded
<1>4. \A x \in Mutexes : MutexHanded(r, x)
  BY <1>2 DEF MutexHanded
<1> QED BY <1>3, <1>4, HandedSplit

\* A local step leaves the locks alone and only lets clocks grow.
LEMMA HandedLocal ==
    ASSUME NEW p, NEW n, NEW m, NEW s \in CountedState(p, n), NEW r \in CountedState(p, m),
           NEW t \in ThreadId, LocalStep(s, r, t), HandedOff(s)
    PROVE  HandedOff(r)
<1>1. \A u \in ThreadId : HBE(s.thread_clock[u], r.thread_clock[u])
  BY CountedClocked, HBEOrder DEF LocalStep, OwnStep, SameElsewhere, Clocked
<1> QED BY <1>1, HandedFrame DEF LocalStep

\* Parked, thread by thread.
ParkedThread(p, s, u) ==
    /\ \A c \in Conditions :
          u \in s.condition_waiters[c] <=>
              /\ s.wait_phase[u] = "Waiting"
              /\ StandsAt(p, s, u, WaitKinds)
              /\ next_action(p, s, u).condition = c
    /\ s.wait_phase[u] # "None" =>
          /\ StandsAt(p, s, u, WaitKinds)
          /\ s.mutex_owner[next_action(p, s, u).mutex] # u
    /\ \A b \in Barriers :
          u \in s.barriers[b].arrivals =>
              /\ StandsAt(p, s, u, {"BarrierWait"})
              /\ next_action(p, s, u).barrier = b
              /\ next_action(p, s, u).parties = s.barriers[b].parties
              /\ ~has_pending_store(s, u)
              /\ HBE(s.thread_clock[u], s.barriers[b].arrival_releases)

\* A generation with arrivals is not complete.
SomeMissing(s) ==
    \A b \in Barriers :
        s.barriers[b].arrivals # {} =>
            Cardinality(s.barriers[b].arrivals) < s.barriers[b].parties

\* Parked is SomeMissing and a part for each thread.
LEMMA ParkedSplit ==
    ASSUME NEW p, NEW n, NEW s \in CountedState(p, n)
    PROVE  Parked(p, s) <=> SomeMissing(s) /\ \A u \in ThreadId : ParkedThread(p, s, u)
<1>1. \A b \in Barriers : s.barriers[b].arrivals \subseteq ThreadId
  BY DEF CountedState, BarrierBelow
<1>2. WaitersParked(p, s) /\ PhasesParked(p, s) /\ ArrivalsParked(p, s) =>
        SomeMissing(s) /\ \A u \in ThreadId : ParkedThread(p, s, u)
  BY DEF WaitersParked, PhasesParked, ArrivalsParked, SomeMissing, ParkedThread
<1>3. SomeMissing(s) /\ (\A u \in ThreadId : ParkedThread(p, s, u)) => WaitersParked(p, s)
  BY DEF WaitersParked, ParkedThread
<1>4. SomeMissing(s) /\ (\A u \in ThreadId : ParkedThread(p, s, u)) => PhasesParked(p, s)
  BY DEF PhasesParked, ParkedThread
<1>5. SomeMissing(s) /\ (\A u \in ThreadId : ParkedThread(p, s, u)) => ArrivalsParked(p, s)
  BY <1>1 DEF ArrivalsParked, ParkedThread, SomeMissing
<1> QED BY <1>2, <1>3, <1>4, <1>5 DEF Parked

\* Nothing the part of u looks at has changed, except that u may have lost a mutex or
\* a barrier may have accumulated more.
SameFor(s, r, u) ==
    /\ r.pc[u] = s.pc[u] /\ r.started[u] = s.started[u]
    /\ r.wait_phase[u] = s.wait_phase[u] /\ r.thread_clock[u] = s.thread_clock[u]
    /\ \A c \in Conditions : u \in r.condition_waiters[c] <=> u \in s.condition_waiters[c]
    /\ \A m \in Mutexes : r.mutex_owner[m] = u => s.mutex_owner[m] = u
    /\ \A b \in Barriers :
          u \in r.barriers[b].arrivals =>
              /\ u \in s.barriers[b].arrivals
              /\ r.barriers[b].parties = s.barriers[b].parties
              /\ HBE(s.barriers[b].arrival_releases, r.barriers[b].arrival_releases)
    /\ has_pending_store(r, u) => has_pending_store(s, u)

\* A part whose view is the same still holds.
LEMMA ParkedSame ==
    ASSUME NEW p \in Programs, NEW n, NEW m, NEW s \in CountedState(p, n),
           NEW r \in CountedState(p, m), NEW u \in ThreadId,
           SameFor(s, r, u), ParkedThread(p, s, u)
    PROVE  ParkedThread(p, r, u)
<1>1. next_action(p, r, u) = next_action(p, s, u)
  BY DEF next_action, SameFor
<1>2. \A K : StandsAt(p, r, u, K) <=> StandsAt(p, s, u, K)
  BY <1>1 DEF StandsAt, has_next_action, SameFor
<1>3. ASSUME NEW b \in Barriers, u \in r.barriers[b].arrivals
      PROVE  HBE(r.thread_clock[u], r.barriers[b].arrival_releases)
  <2>1. /\ s.barriers[b].arrival_releases \in Clock
        /\ r.barriers[b].arrival_releases \in Clock
    BY DEF CountedState, BarrierBelow, Below
  <2>2. s.thread_clock[u] \in Clock
    BY CountedClocked DEF Clocked
  <2> QED BY <1>3, <2>1, <2>2, HBEOrder DEF SameFor, ParkedThread
<1>4. ASSUME s.wait_phase[u] # "None"
      PROVE  r.mutex_owner[next_action(p, s, u).mutex] # u
  <2>1. StandsAt(p, s, u, WaitKinds) /\ s.mutex_owner[next_action(p, s, u).mutex] # u
    BY <1>4 DEF ParkedThread
  <2>2. next_action(p, s, u) \in WaitActions
    <3>1. s.pc[u] \in Nat
      BY DEF CountedState, Counters
    <3>2. s.pc[u] \in 0 .. Len(p[u]) - 1
      BY <2>1, <3>1, ActionType DEF StandsAt, has_next_action
    <3> QED BY <2>1, <3>2, ActionType, KindFields DEF next_action, StandsAt
  <2>3. next_action(p, s, u).mutex \in Mutexes
    BY <2>2 DEF WaitActions
  <2> QED BY <2>1, <2>3 DEF SameFor
<1> QED BY <1>1, <1>2, <1>3, <1>4 DEF ParkedThread, SameFor

Unparked(s, u) ==
    /\ s.wait_phase[u] = "None"
    /\ \A c \in Conditions : u \notin s.condition_waiters[c]
    /\ \A b \in Barriers : u \notin s.barriers[b].arrivals

\* The part of a thread that is not parked holds.
LEMMA UnparkedHolds ==
    ASSUME NEW p, NEW s, NEW u, Unparked(s, u)
    PROVE  ParkedThread(p, s, u)
BY DEF Unparked, ParkedThread

\* A step of t that no other thread's part can see.
Around(s, r, t) ==
    /\ r.memory_model = s.memory_model
    /\ r.started = s.started
    /\ r.barriers = s.barriers
    /\ SameElsewhere(s, r, t)
    /\ \A m \in Mutexes : r.mutex_owner[m] \in {s.mutex_owner[m], t, NoThread}
    /\ \A u \in ThreadId \ {t} :
          /\ r.wait_phase[u] = s.wait_phase[u]
          /\ \A c \in Conditions : u \in r.condition_waiters[c] <=> u \in s.condition_waiters[c]

\* A step that only its own thread's part can see keeps Parked if it keeps that part.
LEMMA ParkedAround ==
    ASSUME NEW p \in Programs, NEW n, NEW m, NEW s \in CountedState(p, n),
           NEW r \in CountedState(p, m), NEW t \in ThreadId, Around(s, r, t),
           Parked(p, s), ParkedThread(p, r, t)
    PROVE  Parked(p, r)
<1>1. SomeMissing(s) /\ \A u \in ThreadId : ParkedThread(p, s, u)
  BY ParkedSplit
<1>2. SomeMissing(r)
  BY <1>1 DEF SomeMissing, Around
<1>3. ASSUME NEW u \in ThreadId \ {t} PROVE ParkedThread(p, r, u)
  <2>1. \A b \in Barriers : HBE(s.barriers[b].arrival_releases, r.barriers[b].arrival_releases)
    BY HBEOrder DEF Around, CountedState, BarrierBelow, Below
  <2>2. u # NoThread
    BY SizesAssumption DEF ThreadId, NoThread
  <2>3. has_pending_store(r, u) => has_pending_store(s, u)
    BY DEF has_pending_store, Around, SameElsewhere
  <2>4. \A x \in Mutexes : r.mutex_owner[x] = u => s.mutex_owner[x] = u
    BY <2>2 DEF Around
  <2>5. SameFor(s, r, u)
    BY <2>1, <2>3, <2>4 DEF SameFor, Around, SameElsewhere
  <2> QED BY <1>1, <2>5, ParkedSame
<1> QED BY <1>2, <1>3, ParkedSplit

\* An own step is such a step.
LEMMA OwnStepAround ==
    ASSUME NEW s, NEW r, NEW t, OwnStep(s, r, t)
    PROVE  Around(s, r, t)
BY DEF OwnStep, Around

\* A step of a thread that is not parked, and does not park.
LEMMA ParkedOwn ==
    ASSUME NEW p \in Programs, NEW n, NEW m, NEW s \in CountedState(p, n),
           NEW r \in CountedState(p, m), NEW t \in ThreadId, OwnStep(s, r, t),
           Unparked(s, t), Parked(p, s)
    PROVE  Parked(p, r) /\ Unparked(r, t)
<1>1. Unparked(r, t)
  BY DEF Unparked, OwnStep
<1>2. ParkedThread(p, r, t)
  BY <1>1, UnparkedHolds
<1> QED BY <1>1, <1>2, OwnStepAround, ParkedAround

\* A step of a thread that stays where it is and has not arrived at a barrier: the
\* beginning of every step, and a flush.
LEMMA ParkedStill ==
    ASSUME NEW p \in Programs, NEW n, NEW m, NEW s \in CountedState(p, n),
           NEW r \in CountedState(p, m), NEW t \in ThreadId, LocalStep(s, r, t),
           r.pc = s.pc, \A b \in Barriers : t \notin s.barriers[b].arrivals, Parked(p, s)
    PROVE  Parked(p, r)
<1>1. ParkedThread(p, s, t)
  BY ParkedSplit
<1>2. next_action(p, r, t) = next_action(p, s, t)
  BY DEF next_action
<1>3. StandsAt(p, r, t, WaitKinds) <=> StandsAt(p, s, t, WaitKinds)
  BY <1>2 DEF StandsAt, has_next_action, LocalStep, OwnStep
<1>4. ParkedThread(p, r, t)
  BY <1>1, <1>2, <1>3 DEF ParkedThread, LocalStep, OwnStep
<1> QED BY <1>4, OwnStepAround, ParkedAround DEF LocalStep

\* Only a thread that stands at a wait or at a barrier is parked.
LEMMA StandsUnparked ==
    ASSUME NEW p, NEW n, NEW s \in CountedState(p, n), NEW t \in ThreadId, Parked(p, s)
    PROVE  /\ next_action(p, s, t).kind # "BarrierWait" =>
                  \A b \in Barriers : t \notin s.barriers[b].arrivals
           /\ next_action(p, s, t).kind \notin WaitKinds =>
                  /\ s.wait_phase[t] = "None"
                  /\ \A c \in Conditions : t \notin s.condition_waiters[c]
           /\ s.wait_phase[t] = "None" => \A c \in Conditions : t \notin s.condition_waiters[c]
           /\ ~s.started[t] => Unparked(s, t)
<1>1. ParkedThread(p, s, t)
  BY ParkedSplit
<1> QED BY <1>1 DEF ParkedThread, StandsAt, Unparked

-----------------------------------------------------------------------------
(***************************************************************************)
(* Mutexes and reader-writer locks.                                        *)
(***************************************************************************)
\* What a step of an unparked thread on a lock must give back.
Keeps(p, n, s, t, r) == r \in CountedState(p, n) /\ OwnStep(s, r, t) /\ HandedOff(r)

\* A local step keeps the handoff.
LEMMA KeepsLocal ==
    ASSUME NEW p, NEW n \in Counts, NEW s \in CountedState(p, n), NEW r \in CountedState(p, n),
           NEW t \in ThreadId, LocalStep(s, r, t), HandedOff(s)
    PROVE  Keeps(p, n, s, t, r)
BY HandedLocal DEF Keeps, LocalStep

\* Two effects on locks, one after the other.
LEMMA KeepsChain ==
    ASSUME NEW p, NEW n \in Counts, NEW s \in CountedState(p, n), NEW t \in ThreadId,
           NEW q, Keeps(p, n, s, t, q), NEW r, Keeps(p, n, q, t, r)
    PROVE  Keeps(p, n, s, t, r)
BY CountedClocked, LocalStepTransitive DEF Keeps

\* No thread's clock shrinks in an own step.
LEMMA GrowsFromOwn ==
    ASSUME NEW p, NEW n \in Counts, NEW s \in CountedState(p, n), NEW t \in ThreadId,
           NEW r \in CountedState(p, n), OwnStep(s, r, t)
    PROVE  \A u \in ThreadId : HBE(s.thread_clock[u], r.thread_clock[u])
BY CountedClocked, HBEOrder DEF OwnStep, SameElsewhere, Clocked

\* The new owner has joined the mutex's clock.
LEMMA AcquireMutexKeeps ==
    ASSUME NEW p, NEW n \in Counts, NEW s \in CountedState(p, n), NEW t \in ThreadId,
           NEW m \in Mutexes, HandedOff(s)
    PROVE  Keeps(p, n, s, t, AcquireMutex(s, t, m))
<1> DEFINE r == AcquireMutex(s, t, m)
           c == Join(s.thread_clock[t], s.mutex_clock[m])
<1>1. r \in CountedState(p, n)
  BY AcquireMutexCounted
<1>2. s.thread_clock \in [ThreadId -> Clock] /\ s.mutex_clock[m] \in Clock
  BY CountedClocked DEF Clocked, CountedState, Below
<1>3. HBE(s.thread_clock[t], c) /\ HBE(s.mutex_clock[m], c)
  BY <1>2, JoinType
<1>4. /\ r = [s EXCEPT !.mutex_owner[m] = t, !.thread_clock[t] = c]
      /\ r.thread_clock = [s.thread_clock EXCEPT ![t] = c]
  BY DEF AcquireMutex, CountedState
<1> HIDE DEF r, c
<1>5. OwnStep(s, r, t) /\ r.mutex_clock = s.mutex_clock /\ r.rwlocks = s.rwlocks
  BY <1>2, <1>3, <1>4 DEF OwnStep, SameElsewhere, CountedState
<1>6. MutexHanded(r, m)
  <2>1. r.mutex_owner[m] = t /\ r.thread_clock[t] = c
    BY <1>2, <1>4 DEF CountedState
  <2> QED BY <1>3, <1>5, <2>1 DEF MutexHanded
<1>7. \A x \in Mutexes \ {m} : r.mutex_owner[x] = s.mutex_owner[x]
  BY <1>4 DEF CountedState
<1>8. \A u \in ThreadId : HBE(s.thread_clock[u], r.thread_clock[u])
  BY <1>1, <1>5, GrowsFromOwn
<1>9. \A x \in Mutexes :
         \/ r.mutex_owner[x] = s.mutex_owner[x] /\ r.mutex_clock[x] = s.mutex_clock[x]
         \/ MutexHanded(r, x)
  BY <1>5, <1>6, <1>7
<1>10. HandedOff(r)
  BY <1>1, <1>5, <1>8, <1>9, HandedFrame
<1> QED BY <1>1, <1>5, <1>10 DEF Keeps, r

\* A released mutex has no owner to constrain.
LEMMA ReleaseMutexKeeps ==
    ASSUME NEW p, NEW n \in Counts, NEW s \in CountedState(p, n), NEW t \in ThreadId,
           NEW m \in Mutexes, HandedOff(s)
    PROVE  Keeps(p, n, s, t, ReleaseMutex(s, t, m))
<1> DEFINE r == ReleaseMutex(s, t, m)
<1>1. r \in CountedState(p, n)
  BY ReleaseMutexCounted
<1>2. HBE(s.thread_clock[t], s.thread_clock[t])
  BY CountedClocked, HBEOrder DEF Clocked
<1>3. OwnStep(s, r, t) /\ r.rwlocks = s.rwlocks
  BY <1>2 DEF ReleaseMutex, OwnStep, SameElsewhere, CountedState
<1>4. r.mutex_owner[m] = NoThread
  BY DEF ReleaseMutex, CountedState
<1>5. \A x \in Mutexes \ {m} :
        r.mutex_owner[x] = s.mutex_owner[x] /\ r.mutex_clock[x] = s.mutex_clock[x]
  BY DEF ReleaseMutex, CountedState
<1> HIDE DEF r
<1>6. \A x \in Mutexes :
         \/ r.mutex_owner[x] = s.mutex_owner[x] /\ r.mutex_clock[x] = s.mutex_clock[x]
         \/ MutexHanded(r, x)
  BY <1>4, <1>5 DEF MutexHanded
<1>7. \A u \in ThreadId : HBE(s.thread_clock[u], r.thread_clock[u])
  BY <1>1, <1>3, GrowsFromOwn
<1>8. HandedOff(r)
  BY <1>1, <1>3, <1>6, <1>7, HandedFrame
<1> QED BY <1>1, <1>3, <1>8 DEF Keeps, r

\* Lock, TryLock and Unlock keep the handoff.
LEMMA MutexKeeps ==
    ASSUME NEW p \in Programs, NEW n \in Counts, NEW s \in CountedState(p, n),
           NEW step \in ScheduleStep, s.pc[step.thread] < Len(p[step.thread]),
           NEW a \in LockActions, HandedOff(s)
    PROVE  Keeps(p, n, s, step.thread, MutexEffect(p, s, step, a).state)
<1> DEFINE t == step.thread
           r == advance_pc(p, s, t)
           Tried(v) == write_register(r, t, RegisterOr0(a.destination), v)
<1>1. t \in ThreadId /\ a.mutex \in Mutexes /\ a.kind \in MutexKinds
  BY DEF ScheduleStep, LockActions
<1>2. Keeps(p, n, s, t, r)
  BY <1>1, AdvanceCounted, AdvanceLocal, KeepsLocal
<1> HIDE DEF r
<1>3. ASSUME NEW v \in Value PROVE Keeps(p, n, s, t, Tried(v))
  <2>1. Keeps(p, n, r, t, Tried(v))
    BY <1>1, <1>2, WriteRegisterCounted, WriteRegisterLocal, KeepsLocal DEF Keeps
  <2> HIDE DEF Tried
  <2> QED BY <1>1, <1>2, <2>1, KeepsChain
<1>4. ASSUME NEW q, Keeps(p, n, s, t, q)
      PROVE  /\ Keeps(p, n, s, t, AcquireMutex(q, t, a.mutex))
             /\ Keeps(p, n, s, t, ReleaseMutex(q, t, a.mutex))
  <2>1. q \in CountedState(p, n) /\ HandedOff(q)
    BY <1>4 DEF Keeps
  <2>2. /\ Keeps(p, n, q, t, AcquireMutex(q, t, a.mutex))
        /\ Keeps(p, n, q, t, ReleaseMutex(q, t, a.mutex))
    BY <1>1, <2>1, AcquireMutexKeeps, ReleaseMutexKeeps
  <2> QED BY <1>1, <1>4, <2>2, KeepsChain
<1>5. CASE a.kind = "Lock"
  BY <1>2, <1>4, <1>5 DEF MutexEffect, LockEffect, Done, r
<1>6. CASE a.kind = "TryLock"
  <2> DEFINE free == s.mutex_owner[a.mutex] = NoThread
             q == Tried(IF free THEN 1 ELSE 0)
  <2>1. Keeps(p, n, s, t, q)
    BY <1>3, SmallValues
  <2>2. MutexEffect(p, s, step, a).state = IF free THEN AcquireMutex(q, t, a.mutex) ELSE q
    BY <1>6 DEF MutexEffect, TryLockEffect, Done, r
  <2> HIDE DEF q
  <2> QED BY <1>4, <2>1, <2>2
<1>7. CASE a.kind = "Unlock"
  BY <1>2, <1>4, <1>7 DEF MutexEffect, UnlockEffect, Done, ModelError, r
<1> QED BY <1>1, <1>5, <1>6, <1>7 DEF MutexKinds

\* A step that gives thread t the clock c and lock x the state k.
LEMMA RwLockStepKeeps ==
    ASSUME NEW p, NEW n \in Counts, NEW s \in CountedState(p, n), NEW t \in ThreadId,
           NEW x \in RwLocks, NEW k \in RwLockBelow(n), NEW c \in Clock,
           HBE(s.thread_clock[t], c), HandedOff(s),
           \A u \in k.reader_holders :
              HBE(k.writer_release, IF u = t THEN c ELSE s.thread_clock[u]),
           k.writer_holder # NoThread =>
              /\ k.writer_holder = t /\ k.reader_holders = {} /\ k.reader_releases = Zero
              /\ HBE(k.writer_release, c)
    PROVE  \A r \in CountedState(p, n) :
              r = [s EXCEPT !.thread_clock[t] = c, !.rwlocks[x] = k] => Keeps(p, n, s, t, r)
<1> TAKE r \in CountedState(p, n)
<1>0. SUFFICES ASSUME r = [s EXCEPT !.thread_clock[t] = c, !.rwlocks[x] = k]
               PROVE  Keeps(p, n, s, t, r)
  OBVIOUS
<1>1. s.thread_clock \in [ThreadId -> Clock]
  BY CountedClocked DEF Clocked
<1>2. OwnStep(s, r, t) /\ r.mutex_owner = s.mutex_owner /\ r.mutex_clock = s.mutex_clock
  BY <1>0, <1>1 DEF OwnStep, SameElsewhere, CountedState
<1>3. /\ r.rwlocks[x] = k
      /\ \A y \in RwLocks \ {x} : r.rwlocks[y] = s.rwlocks[y]
      /\ r.thread_clock = [s.thread_clock EXCEPT ![t] = c]
  BY <1>0 DEF CountedState
<1>4. RwLockHanded(r, x)
  <2>1. k.reader_holders \subseteq ThreadId
    BY DEF RwLockBelow
  <2>2. \A u \in ThreadId : r.thread_clock[u] = IF u = t THEN c ELSE s.thread_clock[u]
    BY <1>1, <1>3
  <2> QED BY <1>3, <2>1, <2>2 DEF RwLockHanded
<1>5. \A y \in RwLocks : r.rwlocks[y] = s.rwlocks[y] \/ RwLockHanded(r, y)
  BY <1>3, <1>4
<1>6. \A u \in ThreadId : HBE(s.thread_clock[u], r.thread_clock[u])
  BY <1>2, GrowsFromOwn
<1>7. \A y \in Mutexes :
         r.mutex_owner[y] = s.mutex_owner[y] /\ r.mutex_clock[y] = s.mutex_clock[y]
  BY <1>2
<1>8. HandedOff(r)
  BY <1>5, <1>6, <1>7, HandedFrame
<1> QED BY <1>2, <1>8 DEF Keeps

\* So do the operations of a reader-writer lock, where they are enabled.
LEMMA RwLockKeeps ==
    ASSUME NEW p \in Programs, NEW n \in Counts, NEW s \in CountedState(p, n),
           NEW step \in ScheduleStep, s.pc[step.thread] < Len(p[step.thread]),
           NEW a \in RwLockActions, HandedOff(s),
           a.kind = "RLock" => s.rwlocks[a.rwlock].writer_holder \in {NoThread, step.thread},
           a.kind = "WLock" =>
              \/ s.rwlocks[a.rwlock].writer_holder = step.thread
              \/ /\ s.rwlocks[a.rwlock].writer_holder = NoThread
                 /\ s.rwlocks[a.rwlock].reader_holders = {},
           a.kind = "Upgrade" =>
              (step.thread \in s.rwlocks[a.rwlock].reader_holders =>
                 s.rwlocks[a.rwlock].reader_holders = {step.thread})
    PROVE  Keeps(p, n, s, step.thread, RwLockEffect(p, s, step, a).state)
<1> DEFINE t == step.thread
           x == a.rwlock
           q == advance_pc(p, s, t)
           l == s.rwlocks[x]
           r == RwLockEffect(p, s, step, a).state
<1> SUFFICES Keeps(p, n, s, t, r)
  OBVIOUS
<1>1. t \in ThreadId /\ x \in RwLocks /\ a.kind \in RwLockKinds
  BY DEF ScheduleStep, RwLockActions
<1>2. Keeps(p, n, s, t, q)
  BY <1>1, AdvanceCounted, AdvanceLocal, KeepsLocal
<1>3. r \in CountedState(p, n)
  BY RwLockCounted DEF StepOutcome
<1>4. q.rwlocks = s.rwlocks /\ q.thread_clock = s.thread_clock
  BY DEF advance_pc, CountedState
<1>5. l \in RwLockBelow(n) /\ s.thread_clock \in [ThreadId -> Clock]
  BY <1>1, CountedClocked DEF CountedState, Clocked
<1>6. /\ \A u \in l.reader_holders : HBE(l.writer_release, s.thread_clock[u])
      /\ l.writer_holder # NoThread =>
            /\ l.reader_holders = {} /\ l.reader_releases = Zero
            /\ HBE(l.writer_release, s.thread_clock[l.writer_holder])
  <2>1. RwLockHanded(s, x)
    BY <1>1, HandedSplit
  <2> QED BY <2>1 DEF RwLockHanded
<1> HIDE DEF q, l, r
<1>7. l.writer_release \in Clock /\ l.reader_releases \in Clock /\ s.thread_clock[t] \in Clock
  BY <1>1, <1>5 DEF RwLockBelow, Below
<1>8. HBE(s.thread_clock[t], s.thread_clock[t])
  BY <1>7, HBEOrder
<1>9. ASSUME NEW c \in Clock, HBE(s.thread_clock[t], c), NEW k \in RwLockBelow(n),
             r = [q EXCEPT !.thread_clock[t] = c, !.rwlocks[x] = k],
             \A u \in k.reader_holders :
                HBE(k.writer_release, IF u = t THEN c ELSE s.thread_clock[u]),
             k.writer_holder # NoThread =>
                /\ k.writer_holder = t /\ k.reader_holders = {} /\ k.reader_releases = Zero
                /\ HBE(k.writer_release, c)
      PROVE  Keeps(p, n, s, t, r)
  <2>1. q \in CountedState(p, n) /\ HandedOff(q)
    BY <1>2 DEF Keeps
  <2>2. Keeps(p, n, q, t, r)
    BY <1>1, <1>3, <1>4, <1>9, <2>1, RwLockStepKeeps
  <2> QED BY <1>1, <1>2, <2>2, KeepsChain
<1>10. ASSUME NEW k \in RwLockBelow(n), r = [q EXCEPT !.rwlocks[x] = k],
              \A u \in k.reader_holders : HBE(k.writer_release, s.thread_clock[u]),
              k.writer_holder = NoThread
       PROVE  Keeps(p, n, s, t, r)
  <2>1. q \in CountedState(p, n)
    BY <1>2 DEF Keeps
  <2>2. [q EXCEPT !.rwlocks[x] = k] =
          [q EXCEPT !.thread_clock[t] = s.thread_clock[t], !.rwlocks[x] = k]
    BY <1>1, <1>4, <1>5, <2>1 DEF CountedState
  <2>3. \A u \in k.reader_holders :
          HBE(k.writer_release, IF u = t THEN s.thread_clock[t] ELSE s.thread_clock[u])
    BY <1>10
  <2> QED BY <1>7, <1>8, <1>9, <1>10, <2>2, <2>3
<1>11. CASE a.kind = "RLock"
  <2>1. CASE t \in l.reader_holders \/ l.writer_holder = t
    BY <1>2, <1>11, <2>1 DEF RwLockEffect, RLockEffect, ModelError, r, q, l
  <2>2. CASE ~(t \in l.reader_holders \/ l.writer_holder = t)
    <3> DEFINE c == Join(s.thread_clock[t], l.writer_release)
               k == [l EXCEPT !.reader_holders = @ \cup {t}]
    <3>1. c \in Clock /\ HBE(s.thread_clock[t], c) /\ HBE(l.writer_release, c)
      BY <1>7, JoinType
    <3>2. /\ k \in RwLockBelow(n) /\ k.reader_holders = l.reader_holders \cup {t}
          /\ k.writer_release = l.writer_release /\ k.writer_holder = NoThread
      BY <1>1, <1>5, <1>11, <2>2 DEF RwLockBelow, l
    <3>3. r = [q EXCEPT !.thread_clock[t] = Join(@, l.writer_release), !.rwlocks[x] = k]
      BY <1>11, <2>2 DEF RwLockEffect, RLockEffect, Done, r, q, l
    <3>4. r = [q EXCEPT !.thread_clock[t] = c, !.rwlocks[x] = k]
      BY <1>4, <3>3
    <3> HIDE DEF c, k
    <3>5. \A u \in k.reader_holders :
            HBE(k.writer_release, IF u = t THEN c ELSE s.thread_clock[u])
      BY <1>6, <3>1, <3>2
    <3> QED BY <1>9, <3>1, <3>2, <3>4, <3>5
  <2> QED BY <2>1, <2>2
<1>12. ASSUME NEW h \in RwLockBelow(n), h.reader_holders = {},
              h.writer_release = l.writer_release, r = AcquireExclusive(q, t, a, h)
       PROVE  Keeps(p, n, s, t, r)
  <2> DEFINE d == Join(s.thread_clock[t], h.writer_release)
             c == Join(d, h.reader_releases)
             k == [h EXCEPT !.reader_releases = Zero, !.writer_holder = t]
  <2>1. h.reader_releases \in Clock
    BY DEF RwLockBelow, Below
  <2>2. d \in Clock /\ HBE(s.thread_clock[t], d) /\ HBE(l.writer_release, d)
    BY <1>7, <1>12, JoinType
  <2>3. c \in Clock /\ HBE(d, c)
    BY <2>1, <2>2, JoinType
  <2>4. HBE(s.thread_clock[t], c) /\ HBE(l.writer_release, c)
    BY <1>7, <2>2, <2>3, HBEOrder
  <2>5. /\ k \in RwLockBelow(n) /\ k.reader_holders = {} /\ k.writer_holder = t
        /\ k.writer_release = l.writer_release /\ k.reader_releases = Zero
    BY <1>1, <1>12, BelowClosed DEF RwLockBelow, OptThread
  <2>6. r = [q EXCEPT !.thread_clock[t] = c, !.rwlocks[x] = k]
    BY <1>4, <1>12 DEF AcquireExclusive
  <2> HIDE DEF c, d, k
  <2> QED BY <1>9, <2>3, <2>4, <2>5, <2>6
<1>13. CASE a.kind = "WLock"
  <2>1. CASE l.writer_holder = t
    BY <1>2, <1>13, <2>1 DEF RwLockEffect, WLockEffect, ModelError, r, q, l
  <2>2. CASE l.writer_holder # t
    <3>1. l.reader_holders = {}
      BY <1>13, <2>2 DEF l
    <3>2. r = AcquireExclusive(q, t, a, l)
      BY <1>13, <2>2 DEF RwLockEffect, WLockEffect, Done, r, q, l
    <3> QED BY <1>5, <1>12, <3>1, <3>2
  <2> QED BY <2>1, <2>2
<1>14. CASE a.kind = "Upgrade"
  <2>1. CASE t \notin l.reader_holders
    BY <1>2, <1>14, <2>1 DEF RwLockEffect, UpgradeEffect, ModelError, r, q, l
  <2>2. CASE t \in l.reader_holders
    <3> DEFINE h == [l EXCEPT !.reader_holders = @ \ {t}]
    <3>1. l.reader_holders = {t}
      BY <1>14, <2>2 DEF l
    <3>2. /\ h \in RwLockBelow(n) /\ h.reader_holders = {}
          /\ h.writer_release = l.writer_release
      BY <1>5, <3>1 DEF RwLockBelow
    <3>3. r = AcquireExclusive(q, t, a, h)
      BY <1>14, <2>2 DEF RwLockEffect, UpgradeEffect, Done, r, q, l
    <3> HIDE DEF h
    <3> QED BY <1>12, <3>2, <3>3
  <2> QED BY <2>1, <2>2
<1>15. CASE a.kind = "RUnlock"
  <2>1. CASE t \notin l.reader_holders
    BY <1>2, <1>15, <2>1 DEF RwLockEffect, RUnlockEffect, ModelError, r, q, l
  <2>2. CASE t \in l.reader_holders
    <3> DEFINE k == [l EXCEPT !.reader_releases = Join(@, s.thread_clock[t]),
                              !.reader_holders = @ \ {t}]
    <3>1. Join(l.reader_releases, s.thread_clock[t]) \in Below(n)
      BY <1>1, <1>5, BelowClosed DEF RwLockBelow, CountedState, CountedClocks
    <3>2. /\ k \in RwLockBelow(n) /\ k.reader_holders = l.reader_holders \ {t}
          /\ k.writer_release = l.writer_release /\ k.writer_holder = l.writer_holder
      BY <1>5, <3>1 DEF RwLockBelow
    <3>3. l.writer_holder = NoThread
      BY <1>6, <2>2
    <3>4. r = [q EXCEPT !.rwlocks[x] = k]
      BY <1>15, <2>2 DEF RwLockEffect, RUnlockEffect, Done, r, q, l
    <3> HIDE DEF k
    <3> QED BY <1>6, <1>10, <3>2, <3>3, <3>4
  <2> QED BY <2>1, <2>2
<1>16. ASSUME NEW readers \in SUBSET {t}, l.writer_holder = t,
              r = ReleaseExclusive(q, t, a, readers)
       PROVE  Keeps(p, n, s, t, r)
  <2> DEFINE k == [l EXCEPT !.writer_release = s.thread_clock[t], !.writer_holder = NoThread,
                            !.reader_holders = @ \cup readers]
  <2>1. s.thread_clock[t] \in Below(n) /\ t # NoThread
    BY <1>1, SizesAssumption DEF CountedState, CountedClocks, ThreadId, NoThread
  <2>2. l.reader_holders = {}
    BY <1>6, <1>16, <2>1
  <2>3. /\ k \in RwLockBelow(n) /\ k.reader_holders = readers
        /\ k.writer_release = s.thread_clock[t] /\ k.writer_holder = NoThread
    BY <1>1, <1>5, <2>1, <2>2 DEF RwLockBelow, OptThread
  <2>4. r = [q EXCEPT !.rwlocks[x] = k]
    BY <1>4, <1>16 DEF ReleaseExclusive, l
  <2> HIDE DEF k
  <2>5. \A u \in k.reader_holders : HBE(k.writer_release, s.thread_clock[u])
    BY <1>8, <2>3
  <2> QED BY <1>10, <2>3, <2>4, <2>5
<1>17. CASE a.kind \in {"WUnlock", "Downgrade"}
  <2>1. CASE l.writer_holder # t
    BY <1>2, <1>17, <2>1
       DEF RwLockEffect, WUnlockEffect, DowngradeEffect, ModelError, r, q, l
  <2>2. CASE l.writer_holder = t
    <3>1. \E readers \in SUBSET {t} : r = ReleaseExclusive(q, t, a, readers)
      BY <1>17, <2>2 DEF RwLockEffect, WUnlockEffect, DowngradeEffect, Done, r, q, l
    <3> QED BY <1>16, <2>2, <3>1
  <2> QED BY <2>1, <2>2
<1> QED BY <1>1, <1>11, <1>13, <1>14, <1>15, <1>17 DEF RwLockKinds

-----------------------------------------------------------------------------
(***************************************************************************)
(* Waits.                                                                  *)
(***************************************************************************)
Good(p, n, s) == s \in CountedState(p, n) /\ Parked(p, s) /\ HandedOff(s)

\* An effect on locks by a thread that is not parked.
LEMMA KeepsGood ==
    ASSUME NEW p \in Programs, NEW n, NEW s, NEW r, NEW t \in ThreadId, Good(p, n, s),
           Unparked(s, t), Keeps(p, n, s, t, r)
    PROVE  Good(p, n, r)
BY ParkedOwn DEF Good, Keeps

\* Advancing the counter of a thread that is not parked.
LEMMA AdvanceGood ==
    ASSUME NEW p \in Programs, NEW n \in Counts, NEW s, Good(p, n, s), NEW t \in ThreadId,
           s.pc[t] < Len(p[t]), Unparked(s, t)
    PROVE  Good(p, n, advance_pc(p, s, t))
<1>1. s \in CountedState(p, n) /\ HandedOff(s)
  BY DEF Good
<1>2. advance_pc(p, s, t) \in CountedState(p, n)
  BY <1>1, AdvanceCounted
<1>3. LocalStep(s, advance_pc(p, s, t), t)
  BY <1>1, AdvanceLocal
<1>4. Keeps(p, n, s, t, advance_pc(p, s, t))
  BY <1>1, <1>2, <1>3, KeepsLocal
<1> QED BY <1>4, KeepsGood

\* Parking: the thread gives up its mutex and becomes a waiter.
LEMMA ParkGood ==
    ASSUME NEW p \in Programs, NEW n \in Counts, NEW s, Good(p, n, s), NEW step \in ScheduleStep,
           s.started[step.thread], has_next_action(p, s, step.thread),
           NEW a \in WaitActions, a = next_action(p, s, step.thread),
           s.wait_phase[step.thread] = "None"
    PROVE  Good(p, n, ParkEffect(p, s, step, a).state)
<1> DEFINE t == step.thread
           q == ReleaseMutex(s, t, a.mutex)
           r == [q EXCEPT !.condition_waiters[a.condition] = @ \cup {t},
                          !.wait_phase[t] = "Waiting"]
<1>1. t \in ThreadId /\ a.mutex \in Mutexes /\ a.condition \in Conditions /\ a.kind \in WaitKinds
  BY DEF ScheduleStep, WaitActions
<1>2. s \in CountedState(p, n) /\ Parked(p, s) /\ HandedOff(s)
  BY DEF Good
<1>3. Unparked(s, t)
  BY <1>1, <1>2, StandsUnparked DEF Unparked, WaitKinds
<1>4. s.pc[t] < Len(p[t])
  BY DEF has_next_action
<1>5. CASE s.mutex_owner[a.mutex] # t
  <2>1. Keeps(p, n, s, t, advance_pc(p, s, t))
    BY <1>1, <1>2, <1>4, AdvanceCounted, AdvanceLocal, KeepsLocal
  <2> QED BY <1>1, <1>3, <1>5, <2>1, KeepsGood DEF ParkEffect, ModelError
<1>6. CASE s.mutex_owner[a.mutex] = t
  <2>1. ParkEffect(p, s, step, a).state = r
    BY <1>6 DEF ParkEffect, Done
  <2>2. Keeps(p, n, s, t, q)
    BY <1>1, <1>2, ReleaseMutexKeeps
  <2>3. q.pc = s.pc /\ q.mutex_owner[a.mutex] = NoThread
    BY <1>1, <1>2 DEF ReleaseMutex, CountedState
  <2> HIDE DEF q
  <2>4. q \in CountedState(p, n) /\ HandedOff(q) /\ OwnStep(s, q, t)
    BY <2>2 DEF Keeps
  <2>5. r \in CountedState(p, n)
    <3>1. q \in CountedState(p, n)
      BY <2>4
    <3>2. /\ q.condition_waiters[a.condition] \cup {t} \in SUBSET ThreadId
          /\ "Waiting" \in WaitPhase
      BY <1>1, <3>1 DEF CountedState, WaitPhase
    <3> QED BY <3>1, <3>2 DEF CountedState
  <2>6. /\ r.pc = q.pc /\ r.started = q.started /\ r.mutex_owner = q.mutex_owner
        /\ r.mutex_clock = q.mutex_clock /\ r.rwlocks = q.rwlocks
        /\ r.thread_clock = q.thread_clock /\ r.barriers = q.barriers
        /\ r.memory_model = q.memory_model /\ r.store_buffers = q.store_buffers
        /\ r.pso_store_buffers = q.pso_store_buffers
        /\ r.wait_phase = [q.wait_phase EXCEPT ![t] = "Waiting"]
        /\ r.condition_waiters = [q.condition_waiters EXCEPT ![a.condition] = @ \cup {t}]
    BY <2>4 DEF CountedState
  <2> HIDE DEF r
  <2>7. /\ q.wait_phase \in [ThreadId -> WaitPhase]
        /\ q.condition_waiters \in [Conditions -> SUBSET ThreadId]
    BY <2>4 DEF CountedState
  <2>8. HandedOff(r)
    <3>1. \A u \in ThreadId : HBE(q.thread_clock[u], r.thread_clock[u])
      BY <2>4, <2>6, CountedClocked, HBEOrder DEF Clocked
    <3> QED BY <2>4, <2>5, <2>6, <3>1, HandedFrame
  <2>9. Around(s, r, t)
    BY <2>4, <2>6, <2>7 DEF Around, OwnStep, SameElsewhere
  <2>10. ParkedThread(p, r, t)
    <3>1. next_action(p, r, t) = a
      BY <2>3, <2>6 DEF next_action
    <3>2. StandsAt(p, r, t, WaitKinds)
      BY <1>1, <2>3, <2>4, <2>6, <3>1 DEF StandsAt, has_next_action, OwnStep
    <3>3. r.wait_phase[t] = "Waiting"
      BY <1>1, <2>6, <2>7
    <3>4. \A c \in Conditions : t \in r.condition_waiters[c] <=> c = a.condition
      BY <1>1, <1>3, <2>4, <2>6, <2>7 DEF Unparked, OwnStep
    <3>5. r.mutex_owner[a.mutex] # t
      BY <1>1, <2>3, <2>6, SizesAssumption DEF ThreadId, NoThread
    <3>6. \A b \in Barriers : t \notin r.barriers[b].arrivals
      BY <1>3, <2>4, <2>6 DEF Unparked, OwnStep
    <3> QED BY <3>1, <3>2, <3>3, <3>4, <3>5, <3>6 DEF ParkedThread
  <2>11. Parked(p, r)
    BY <1>1, <1>2, <2>5, <2>9, <2>10, ParkedAround
  <2> QED BY <2>1, <2>5, <2>8, <2>11 DEF Good
<1> QED BY <1>5, <1>6

\* A timeout: the waiter leaves the condition and wants its mutex back.
LEMMA TimeoutGood ==
    ASSUME NEW p \in Programs, NEW n \in Counts, NEW s, Good(p, n, s), NEW step \in ScheduleStep,
           NEW a \in WaitActions, a = next_action(p, s, step.thread),
           s.wait_phase[step.thread] = "Waiting"
    PROVE  Good(p, n, TimeoutEffect(s, step, a).state)
<1> DEFINE t == step.thread
           q == write_register(s, t, RegisterOr0(a.destination), 0)
           r == [q EXCEPT !.condition_waiters[a.condition] = @ \ {t},
                          !.wait_phase[t] = "Woken"]
<1>1. t \in ThreadId /\ a.condition \in Conditions /\ a.kind \in WaitKinds
  BY DEF ScheduleStep, WaitActions
<1>2. s \in CountedState(p, n) /\ Parked(p, s) /\ HandedOff(s)
  BY DEF Good
<1>3. TimeoutEffect(s, step, a).state = r
  BY DEF TimeoutEffect, Done
<1>4. q \in CountedState(p, n) /\ LocalStep(s, q, t)
  BY <1>1, <1>2, WriteRegisterCounted, WriteRegisterLocal, SmallValues
<1>5. q.pc = s.pc
  BY <1>2 DEF write_register, CountedState
<1> HIDE DEF q
<1>6. r \in CountedState(p, n)
  BY <1>1, <1>4 DEF CountedState, WaitPhase
<1>7. /\ r.pc = q.pc /\ r.started = q.started /\ r.mutex_owner = q.mutex_owner
      /\ r.mutex_clock = q.mutex_clock /\ r.rwlocks = q.rwlocks
      /\ r.thread_clock = q.thread_clock /\ r.barriers = q.barriers
      /\ r.memory_model = q.memory_model /\ r.store_buffers = q.store_buffers
      /\ r.pso_store_buffers = q.pso_store_buffers
      /\ r.wait_phase = [q.wait_phase EXCEPT ![t] = "Woken"]
      /\ r.condition_waiters = [q.condition_waiters EXCEPT ![a.condition] = @ \ {t}]
  BY <1>4 DEF CountedState
<1> HIDE DEF r
<1>8. /\ q.wait_phase \in [ThreadId -> WaitPhase]
      /\ q.condition_waiters \in [Conditions -> SUBSET ThreadId]
  BY <1>4 DEF CountedState
<1>9. HandedOff(r)
  <2>1. HandedOff(q)
    BY <1>1, <1>2, <1>4, HandedLocal
  <2>2. \A u \in ThreadId : HBE(q.thread_clock[u], r.thread_clock[u])
    BY <1>4, <1>7, CountedClocked, HBEOrder DEF Clocked
  <2> QED BY <1>4, <1>6, <1>7, <2>1, <2>2, HandedFrame
<1>10. Around(s, r, t)
  BY <1>4, <1>7, <1>8 DEF Around, LocalStep, OwnStep, SameElsewhere
<1>11. ParkedThread(p, r, t)
  <2>1. ParkedThread(p, s, t)
    BY <1>1, <1>2, ParkedSplit
  <2>2. StandsAt(p, s, t, WaitKinds) /\ s.mutex_owner[a.mutex] # t
    BY <2>1 DEF ParkedThread
  <2>3. next_action(p, r, t) = a
    BY <1>5, <1>7 DEF next_action
  <2>4. StandsAt(p, r, t, WaitKinds)
    BY <1>1, <1>4, <1>5, <1>7, <2>2, <2>3 DEF StandsAt, has_next_action, LocalStep, OwnStep
  <2>5. r.wait_phase[t] = "Woken"
    BY <1>1, <1>7, <1>8
  <2>6. \A c \in Conditions : t \notin r.condition_waiters[c]
    <3>1. \A c \in Conditions \ {a.condition} : t \notin s.condition_waiters[c]
      BY <2>1 DEF ParkedThread
    <3>2. q.condition_waiters = s.condition_waiters
      BY <1>4 DEF LocalStep, OwnStep
    <3> QED BY <1>1, <1>7, <1>8, <3>1, <3>2
  <2>7. r.mutex_owner[a.mutex] # t
    BY <1>4, <1>7, <2>2 DEF LocalStep
  <2>8. \A b \in Barriers : t \notin r.barriers[b].arrivals
    BY <1>1, <1>2, <1>4, <1>7, StandsUnparked DEF LocalStep, OwnStep, WaitKinds
  <2> QED BY <2>3, <2>4, <2>5, <2>6, <2>7, <2>8 DEF ParkedThread
<1>12. Parked(p, r)
  BY <1>1, <1>2, <1>6, <1>10, <1>11, ParkedAround
<1> QED BY <1>3, <1>6, <1>9, <1>12 DEF Good

\* A woken thread takes its mutex again and moves on.
LEMMA ReacquireGood ==
    ASSUME NEW p \in Programs, NEW n \in Counts, NEW s, Good(p, n, s), NEW step \in ScheduleStep,
           has_next_action(p, s, step.thread),
           NEW a \in WaitActions, a = next_action(p, s, step.thread),
           s.wait_phase[step.thread] = "Woken"
    PROVE  Good(p, n, ReacquireEffect(p, s, step, a).state)
<1> DEFINE t == step.thread
           q == AcquireMutex(s, t, a.mutex)
           w == [q EXCEPT !.wait_phase[t] = "None"]
           r == advance_pc(p, w, t)
<1>1. t \in ThreadId /\ a.mutex \in Mutexes /\ a.kind \in WaitKinds
  BY DEF ScheduleStep, WaitActions
<1>2. s \in CountedState(p, n) /\ Parked(p, s) /\ HandedOff(s)
  BY DEF Good
<1>3. ReacquireEffect(p, s, step, a).state = r
  BY DEF ReacquireEffect, Done
<1>4. Keeps(p, n, s, t, q)
  BY <1>1, <1>2, AcquireMutexKeeps
<1>5. q.pc = s.pc
  BY <1>2 DEF AcquireMutex, CountedState
<1> HIDE DEF q
<1>6. q \in CountedState(p, n) /\ HandedOff(q) /\ OwnStep(s, q, t)
  BY <1>4 DEF Keeps
<1>7. w \in CountedState(p, n)
  <2>1. q \in CountedState(p, n) /\ "None" \in WaitPhase
    BY <1>6 DEF WaitPhase
  <2> QED BY <2>1 DEF CountedState
<1>8. /\ w.pc = q.pc /\ w.started = q.started /\ w.mutex_owner = q.mutex_owner
      /\ w.mutex_clock = q.mutex_clock /\ w.rwlocks = q.rwlocks
      /\ w.thread_clock = q.thread_clock /\ w.barriers = q.barriers
      /\ w.memory_model = q.memory_model /\ w.store_buffers = q.store_buffers
      /\ w.pso_store_buffers = q.pso_store_buffers
      /\ w.wait_phase = [q.wait_phase EXCEPT ![t] = "None"]
      /\ w.condition_waiters = q.condition_waiters
  BY <1>6 DEF CountedState
<1> HIDE DEF w
<1>9. q.wait_phase \in [ThreadId -> WaitPhase]
  BY <1>6 DEF CountedState
<1>10. HandedOff(w)
  <2>1. \A u \in ThreadId : HBE(q.thread_clock[u], w.thread_clock[u])
    BY <1>6, <1>8, CountedClocked, HBEOrder DEF Clocked
  <2> QED BY <1>6, <1>7, <1>8, <2>1, HandedFrame
<1>11. Around(s, w, t)
  BY <1>6, <1>8, <1>9 DEF Around, OwnStep, SameElsewhere
<1>12. Unparked(w, t)
  <2>1. w.wait_phase[t] = "None"
    BY <1>1, <1>8, <1>9
  <2>2. \A c \in Conditions : t \notin s.condition_waiters[c]
    BY <1>1, <1>2, ParkedSplit DEF ParkedThread
  <2>3. \A b \in Barriers : t \notin s.barriers[b].arrivals
    BY <1>1, <1>2, StandsUnparked DEF WaitKinds
  <2> QED BY <1>6, <1>8, <2>1, <2>2, <2>3 DEF Unparked, OwnStep
<1>13. Good(p, n, w)
  BY <1>1, <1>2, <1>7, <1>10, <1>11, <1>12, UnparkedHolds, ParkedAround DEF Good
<1>14. w.pc[t] < Len(p[t])
  BY <1>5, <1>8 DEF has_next_action
<1>15. Keeps(p, n, w, t, r)
  BY <1>1, <1>7, <1>10, <1>14, AdvanceCounted, AdvanceLocal, KeepsLocal
<1>16. Good(p, n, r)
  BY <1>1, <1>12, <1>13, <1>15, KeepsGood
<1> QED BY <1>3, <1>16

-----------------------------------------------------------------------------
(***************************************************************************)
(* Steps that move other threads: wakes, barriers and spawns.              *)
(***************************************************************************)
\* Waking some waiters of c: they leave the waiter set, and nobody else moves.
LEMMA WakeGood ==
    ASSUME NEW p \in Programs, NEW n \in Counts, NEW s, Good(p, n, s), NEW t \in ThreadId,
           NEW c \in Conditions, NEW woken \in SUBSET s.condition_waiters[c]
    PROVE  Good(p, n, Wake(p, s, t, c, woken))
<1> DEFINE r == Wake(p, s, t, c, woken)
<1>1. s \in CountedState(p, n) /\ Parked(p, s) /\ HandedOff(s)
  BY DEF Good
<1>2. s.condition_waiters[c] \in SUBSET ThreadId
  BY <1>1 DEF CountedState
<1>3. r \in CountedState(p, n)
  BY <1>1, <1>2, WakeCounted
<1>4. /\ r.pc = s.pc /\ r.started = s.started /\ r.mutex_owner = s.mutex_owner
      /\ r.mutex_clock = s.mutex_clock /\ r.rwlocks = s.rwlocks /\ r.barriers = s.barriers
      /\ r.memory_model = s.memory_model /\ r.store_buffers = s.store_buffers
      /\ r.pso_store_buffers = s.pso_store_buffers
      /\ r.wait_phase = [u \in ThreadId |-> IF u \in woken THEN "Woken" ELSE s.wait_phase[u]]
      /\ r.condition_waiters = [s.condition_waiters EXCEPT ![c] = @ \ woken]
      /\ r.thread_clock = [u \in ThreadId |-> IF u \in woken
                                              THEN Join(s.thread_clock[u], s.thread_clock[t])
                                              ELSE s.thread_clock[u]]
  BY <1>1 DEF Wake, CountedState
<1> HIDE DEF r
<1>5. HandedOff(r)
  <2>1. \A u \in ThreadId : s.thread_clock[u] \in Clock
    BY <1>1, CountedClocked DEF Clocked
  <2>2. \A u \in ThreadId : HBE(s.thread_clock[u], r.thread_clock[u])
    BY <1>4, <2>1, JoinType, HBEOrder
  <2> QED BY <1>1, <1>3, <1>4, <2>2, HandedFrame
<1>6. SomeMissing(s) /\ \A u \in ThreadId : ParkedThread(p, s, u)
  BY <1>1, ParkedSplit
<1>7. SomeMissing(r)
  BY <1>4, <1>6 DEF SomeMissing
<1>8. s.condition_waiters \in [Conditions -> SUBSET ThreadId]
  BY <1>1 DEF CountedState
<1>9. ASSUME NEW u \in woken PROVE ParkedThread(p, r, u)
  <2>1. u \in ThreadId /\ u \in s.condition_waiters[c]
    BY <1>2
  <2>2. /\ StandsAt(p, s, u, WaitKinds) /\ s.wait_phase[u] = "Waiting"
        /\ next_action(p, s, u).condition = c
        /\ s.mutex_owner[next_action(p, s, u).mutex] # u
    BY <1>6, <2>1 DEF ParkedThread
  <2>3. next_action(p, r, u) = next_action(p, s, u)
    BY <1>4 DEF next_action
  <2>4. StandsAt(p, r, u, WaitKinds)
    BY <1>4, <2>2, <2>3 DEF StandsAt, has_next_action
  <2>5. r.wait_phase[u] = "Woken"
    BY <1>4, <2>1
  <2>6. \A d \in Conditions : u \notin r.condition_waiters[d]
    <3>1. \A d \in Conditions \ {c} : u \notin s.condition_waiters[d]
      BY <1>6, <2>1, <2>2 DEF ParkedThread
    <3> QED BY <1>4, <1>8, <3>1
  <2>7. \A b \in Barriers : u \notin r.barriers[b].arrivals
    BY <1>1, <1>4, <2>1, <2>2, StandsUnparked DEF StandsAt, WaitKinds
  <2> QED BY <1>4, <2>2, <2>3, <2>4, <2>5, <2>6, <2>7 DEF ParkedThread
<1>10. ASSUME NEW u \in ThreadId \ woken PROVE ParkedThread(p, r, u)
  <2>1. \A b \in Barriers : HBE(s.barriers[b].arrival_releases, r.barriers[b].arrival_releases)
    BY <1>1, <1>4, HBEOrder DEF CountedState, BarrierBelow, Below
  <2>2. has_pending_store(r, u) => has_pending_store(s, u)
    BY <1>4 DEF has_pending_store
  <2>3. SameFor(s, r, u)
    BY <1>4, <1>8, <2>1, <2>2 DEF SameFor
  <2> QED BY <1>1, <1>3, <1>6, <2>3, ParkedSame
<1>11. Parked(p, r)
  BY <1>3, <1>7, <1>9, <1>10, ParkedSplit
<1> QED BY <1>3, <1>5, <1>11 DEF Good, r

\* Signal wakes one waiter and Broadcast all of them.
LEMMA NotifyGood ==
    ASSUME NEW p \in Programs, NEW n \in Counts, NEW s, Good(p, n, s), NEW step \in ScheduleStep,
           has_next_action(p, s, step.thread), Unparked(s, step.thread), NEW a \in NotifyActions
    PROVE  /\ Good(p, n, SignalEffect(p, s, step, a).state)
           /\ Good(p, n, BroadcastEffect(p, s, step, a).state)
<1> DEFINE t == step.thread
           q == advance_pc(p, s, t)
           waiters == s.condition_waiters[a.condition]
           first == {u \in waiters : \A v \in waiters : u <= v}
<1>1. t \in ThreadId /\ a.condition \in Conditions
  BY DEF ScheduleStep, NotifyActions
<1>2. s \in CountedState(p, n) /\ HandedOff(s) /\ s.pc[t] < Len(p[t])
  BY DEF Good, has_next_action
<1>3. Good(p, n, q)
  BY <1>1, <1>2, AdvanceGood
<1>4. q.condition_waiters = s.condition_waiters
  BY <1>2 DEF advance_pc, CountedState
<1> HIDE DEF q
<1>5. \A woken \in SUBSET waiters : Good(p, n, Wake(p, q, t, a.condition, woken))
  BY <1>1, <1>3, <1>4, WakeGood
<1>6. first \in SUBSET waiters
  OBVIOUS
<1>7. Good(p, n, Wake(p, q, t, a.condition, first)) /\ Good(p, n, Wake(p, q, t, a.condition, waiters))
  BY <1>5, <1>6
<1> QED BY <1>7 DEF SignalEffect, BroadcastEffect, Done, q

\* An arrival that does not complete the generation parks its thread.
LEMMA ArriveGood ==
    ASSUME NEW p \in Programs, NEW n \in Counts, NEW s, Good(p, n, s), NEW t \in ThreadId,
           s.started[t], has_next_action(p, s, t), Unparked(s, t), ~has_pending_store(s, t),
           NEW a \in BarrierActions, a = next_action(p, s, t),
           a.parties = s.barriers[a.barrier].parties,
           Cardinality(s.barriers[a.barrier].arrivals \cup {t}) < a.parties
    PROVE  LET b == s.barriers[a.barrier]
           IN  Good(p, n, [s EXCEPT !.barriers[a.barrier] =
                  [b EXCEPT !.arrivals = b.arrivals \cup {t},
                            !.arrival_releases = Join(b.arrival_releases, s.thread_clock[t])]])
<1> DEFINE x == a.barrier
           b == s.barriers[x]
           k == [b EXCEPT !.arrivals = b.arrivals \cup {t},
                          !.arrival_releases = Join(b.arrival_releases, s.thread_clock[t])]
           r == [s EXCEPT !.barriers[x] = k]
<1>1. x \in Barriers /\ a.kind = "BarrierWait"
  BY DEF BarrierActions
<1>2. s \in CountedState(p, n) /\ Parked(p, s) /\ HandedOff(s)
  BY DEF Good
<1>3. b \in BarrierBelow(n) /\ s.thread_clock[t] \in Below(n)
  BY <1>1, <1>2 DEF CountedState, CountedClocks
<1> HIDE DEF b
<1>4. Join(b.arrival_releases, s.thread_clock[t]) \in Below(n)
  BY <1>3, BelowClosed DEF BarrierBelow
<1>5. /\ k \in BarrierBelow(n) /\ k.arrivals = b.arrivals \cup {t} /\ k.parties = b.parties
      /\ k.arrival_releases = Join(b.arrival_releases, s.thread_clock[t])
  BY <1>3, <1>4 DEF BarrierBelow
<1> HIDE DEF k
<1>6. r \in CountedState(p, n)
  BY <1>2, <1>5 DEF CountedState
<1>7. /\ r.pc = s.pc /\ r.started = s.started /\ r.mutex_owner = s.mutex_owner
      /\ r.mutex_clock = s.mutex_clock /\ r.rwlocks = s.rwlocks
      /\ r.memory_model = s.memory_model /\ r.store_buffers = s.store_buffers
      /\ r.pso_store_buffers = s.pso_store_buffers /\ r.wait_phase = s.wait_phase
      /\ r.condition_waiters = s.condition_waiters /\ r.thread_clock = s.thread_clock
      /\ r.barriers = [s.barriers EXCEPT ![x] = k]
  BY <1>2 DEF CountedState
<1> HIDE DEF r
<1>8. r.barriers[x] = k /\ \A y \in Barriers \ {x} : r.barriers[y] = s.barriers[y]
  BY <1>1, <1>2, <1>7 DEF CountedState
<1>9. HandedOff(r)
  <2>1. \A u \in ThreadId : HBE(s.thread_clock[u], r.thread_clock[u])
    BY <1>2, <1>7, CountedClocked, HBEOrder DEF Clocked
  <2> QED BY <1>2, <1>6, <1>7, <2>1, HandedFrame
<1>10. SomeMissing(s) /\ \A u \in ThreadId : ParkedThread(p, s, u)
  BY <1>2, ParkedSplit
<1>11. SomeMissing(r)
  <2>1. Cardinality(k.arrivals) < k.parties
    BY <1>5 DEF b
  <2> QED BY <1>8, <1>10, <2>1 DEF SomeMissing
<1>12. /\ s.thread_clock[t] \in Clock /\ b.arrival_releases \in Clock
       /\ HBE(s.thread_clock[t], k.arrival_releases)
       /\ HBE(b.arrival_releases, k.arrival_releases)
  BY <1>3, <1>5, JoinType DEF Below, BarrierBelow
<1>13. next_action(p, r, t) = a
  BY <1>7 DEF next_action
<1>14. ~has_pending_store(r, t)
  BY <1>7 DEF has_pending_store
<1>15. StandsAt(p, r, t, {"BarrierWait"})
  BY <1>1, <1>7, <1>13 DEF StandsAt, has_next_action
<1>16. ParkedThread(p, r, t)
  <2>1. r.wait_phase[t] = "None" /\ \A c \in Conditions : t \notin r.condition_waiters[c]
    BY <1>7 DEF Unparked
  <2>2. \A y \in Barriers : t \in r.barriers[y].arrivals => y = x
    BY <1>8 DEF Unparked
  <2>3. a.parties = k.parties
    BY <1>5 DEF b
  <2> QED BY <1>7, <1>8, <1>12, <1>13, <1>14, <1>15, <2>1, <2>2, <2>3 DEF ParkedThread
<1>17. ASSUME NEW u \in ThreadId \ {t} PROVE ParkedThread(p, r, u)
  <2>1. \A y \in Barriers : HBE(s.barriers[y].arrival_releases, r.barriers[y].arrival_releases)
    <3>1. \A y \in Barriers : s.barriers[y].arrival_releases \in Clock
      BY <1>2 DEF CountedState, BarrierBelow, Below
    <3> QED BY <1>8, <1>12, <3>1, HBEOrder DEF b
  <2>2. has_pending_store(r, u) => has_pending_store(s, u)
    BY <1>7 DEF has_pending_store
  <2>3. \A y \in Barriers : u \in r.barriers[y].arrivals =>
          u \in s.barriers[y].arrivals /\ r.barriers[y].parties = s.barriers[y].parties
    BY <1>5, <1>8 DEF b
  <2>4. SameFor(s, r, u)
    BY <1>7, <2>1, <2>2, <2>3 DEF SameFor
  <2> QED BY <1>2, <1>6, <1>10, <2>4, ParkedSame
<1>18. Parked(p, r)
  BY <1>6, <1>11, <1>16, <1>17, ParkedSplit
<1>19. Good(p, n, r)
  BY <1>6, <1>9, <1>18 DEF Good
<1> QED BY <1>19 DEF r, k, b

\* The last arrival frees every participant and leaves the barrier empty.
LEMMA GenerationGood ==
    ASSUME NEW p \in Programs, NEW n \in Counts, NEW s, Good(p, n, s), NEW t \in ThreadId,
           has_next_action(p, s, t), Unparked(s, t), NEW x \in Barriers, NEW c \in Below(n)
    PROVE  Good(p, n, ReleaseGeneration(p, s, x, s.barriers[x].arrivals \cup {t}, c))
<1> DEFINE team == s.barriers[x].arrivals \cup {t}
           r == ReleaseGeneration(p, s, x, team, c)
<1>1. s \in CountedState(p, n) /\ Parked(p, s) /\ HandedOff(s)
  BY DEF Good
<1>2. team \in SUBSET ThreadId
  BY <1>1 DEF CountedState, BarrierBelow
<1>3. SomeMissing(s) /\ \A u \in ThreadId : ParkedThread(p, s, u)
  BY <1>1, ParkedSplit
<1>4. \A u \in team : s.pc[u] < Len(p[u])
  BY <1>2, <1>3 DEF ParkedThread, StandsAt, has_next_action
<1>5. r \in CountedState(p, n)
  BY <1>1, <1>2, <1>4, ReleaseGenerationCounted
<1>6. /\ r.started = s.started /\ r.mutex_owner = s.mutex_owner
      /\ r.mutex_clock = s.mutex_clock /\ r.rwlocks = s.rwlocks
      /\ r.memory_model = s.memory_model /\ r.store_buffers = s.store_buffers
      /\ r.pso_store_buffers = s.pso_store_buffers /\ r.wait_phase = s.wait_phase
      /\ r.condition_waiters = s.condition_waiters
  BY <1>1 DEF ReleaseGeneration, CountedState
<1>7. \A u \in ThreadId : r.thread_clock[u] = IF u \in team THEN Join(s.thread_clock[u], c)
                                              ELSE s.thread_clock[u]
  BY <1>1 DEF ReleaseGeneration, CountedState
<1>8. \A u \in ThreadId \ team : r.pc[u] = s.pc[u]
  BY <1>1 DEF ReleaseGeneration, CountedState
<1>9. /\ r.barriers[x].arrivals = {}
      /\ \A y \in Barriers \ {x} : r.barriers[y] = s.barriers[y]
  <2>1. s.barriers \in [Barriers -> BarrierBelow(n)]
    BY <1>1 DEF CountedState
  <2>2. r.barriers = [s.barriers EXCEPT ![x] =
            [s.barriers[x] EXCEPT !.arrivals = {}, !.arrival_releases = Zero,
                                  !.generation = @ + 1]]
    BY <1>1 DEF ReleaseGeneration, CountedState
  <2> QED BY <2>1, <2>2 DEF BarrierBelow
<1> HIDE DEF r, team
<1>10. HandedOff(r)
  <2>1. \A u \in ThreadId : s.thread_clock[u] \in Clock
    BY <1>1, CountedClocked DEF Clocked
  <2>2. \A u \in ThreadId : HBE(s.thread_clock[u], r.thread_clock[u])
    BY <1>7, <2>1, JoinType, HBEOrder DEF Below
  <2> QED BY <1>1, <1>5, <1>6, <2>2, HandedFrame
<1>11. SomeMissing(r)
  BY <1>3, <1>9 DEF SomeMissing
<1>12. ASSUME NEW u \in team PROVE ParkedThread(p, r, u)
  <2>1. u \in ThreadId
    BY <1>2
  <2>2. CASE u = t
    <3>1. Unparked(r, u)
      BY <1>6, <1>9, <2>2 DEF Unparked
    <3> QED BY <3>1, UnparkedHolds
  <2>3. CASE u \in s.barriers[x].arrivals
    <3>1. /\ next_action(p, s, u).kind = "BarrierWait"
          /\ next_action(p, s, u).barrier = x
      BY <1>3, <2>1, <2>3 DEF ParkedThread, StandsAt
    <3>2. s.wait_phase[u] = "None" /\ \A d \in Conditions : u \notin s.condition_waiters[d]
      BY <1>1, <2>1, <3>1, StandsUnparked DEF WaitKinds
    <3>3. \A y \in Barriers \ {x} : u \notin s.barriers[y].arrivals
      BY <1>3, <2>1, <3>1 DEF ParkedThread
    <3>4. Unparked(r, u)
      BY <1>6, <1>9, <3>2, <3>3 DEF Unparked
    <3> QED BY <3>4, UnparkedHolds
  <2> QED BY <2>2, <2>3 DEF team
<1>13. ASSUME NEW u \in ThreadId \ team PROVE ParkedThread(p, r, u)
  <2>1. \A y \in Barriers \ {x} :
          HBE(s.barriers[y].arrival_releases, r.barriers[y].arrival_releases)
    BY <1>1, <1>9, HBEOrder DEF CountedState, BarrierBelow, Below
  <2>2. has_pending_store(r, u) => has_pending_store(s, u)
    BY <1>6 DEF has_pending_store
  <2>3. SameFor(s, r, u)
    BY <1>6, <1>7, <1>8, <1>9, <2>1, <2>2 DEF SameFor
  <2> QED BY <1>1, <1>3, <1>5, <2>3, ParkedSame
<1>14. Parked(p, r)
  BY <1>5, <1>11, <1>12, <1>13, ParkedSplit
<1> QED BY <1>5, <1>10, <1>14 DEF Good, r, team

\* BarrierWait in each of its three outcomes.
LEMMA BarrierGood ==
    ASSUME NEW p \in Programs, NEW n \in Counts, NEW s, Good(p, n, s), NEW step \in ScheduleStep,
           s.started[step.thread], has_next_action(p, s, step.thread),
           Unparked(s, step.thread), ~has_pending_store(s, step.thread),
           NEW a \in BarrierActions, a = next_action(p, s, step.thread)
    PROVE  Good(p, n, BarrierWaitEffect(p, s, step, a).state)
<1> DEFINE t == step.thread
           b == s.barriers[a.barrier]
           team == b.arrivals \cup {t}
           c == Join(b.arrival_releases, s.thread_clock[t])
<1>1. t \in ThreadId /\ a.barrier \in Barriers
  BY DEF ScheduleStep, BarrierActions
<1>2. s \in CountedState(p, n) /\ HandedOff(s) /\ s.pc[t] < Len(p[t])
  BY DEF Good, has_next_action
<1>3. CASE a.parties = 0 \/ a.parties # b.parties
  <2>1. Keeps(p, n, s, t, advance_pc(p, s, t))
    BY <1>1, <1>2, AdvanceCounted, AdvanceLocal, KeepsLocal
  <2>2. Good(p, n, advance_pc(p, s, t))
    BY <1>1, <2>1, KeepsGood
  <2> QED BY <1>3, <2>2 DEF BarrierWaitEffect, ModelError
<1>4. CASE a.parties # 0 /\ a.parties = b.parties
  <2>1. b \in BarrierBelow(n) /\ s.thread_clock[t] \in Below(n)
    BY <1>1, <1>2 DEF CountedState, CountedClocks
  <2>2. c \in Below(n) /\ team \in SUBSET ThreadId /\ b.parties \in Nat
    BY <1>1, <2>1, BelowClosed DEF BarrierBelow
  <2>3. Cardinality(team) \in Nat
    <3>1. IsFiniteSet(ThreadId)
      BY SizesAssumption, FS_Interval DEF ThreadId
    <3>2. IsFiniteSet(team)
      BY <2>2, <3>1, FS_Subset
    <3> QED BY <3>2, FS_CardinalityType
  <2>4. CASE Cardinality(team) < b.parties
    <3> DEFINE r == [s EXCEPT !.barriers[a.barrier] =
                       [b EXCEPT !.arrivals = team, !.arrival_releases = c]]
    <3>1. BarrierWaitEffect(p, s, step, a).state = r
      <4>1. ~(Cardinality(team) >= b.parties)
        BY <2>2, <2>3, <2>4
      <4> QED BY <1>4, <2>4, <4>1 DEF BarrierWaitEffect, Done
    <3>2. Good(p, n, r)
      BY <1>1, <1>4, <2>4, ArriveGood
    <3> QED BY <3>1, <3>2
  <2>5. CASE ~(Cardinality(team) < b.parties)
    <3>1. Cardinality(team) >= b.parties
      BY <2>2, <2>3, <2>5
    <3>2. BarrierWaitEffect(p, s, step, a).state = ReleaseGeneration(p, s, a.barrier, team, c)
      BY <1>4, <2>5, <3>1 DEF BarrierWaitEffect, Done
    <3> QED BY <1>1, <2>2, <3>2, GenerationGood
  <2> QED BY <2>4, <2>5
<1> QED BY <1>3, <1>4

\* A spawned thread was not started, hence not parked.
LEMMA SpawnGood ==
    ASSUME NEW p \in Programs, NEW n \in Counts, NEW s, Good(p, n, s), NEW step \in ScheduleStep,
           has_next_action(p, s, step.thread), Unparked(s, step.thread), NEW a \in ThreadActions
    PROVE  Good(p, n, SpawnEffect(p, s, step, a).state)
<1> DEFINE t == step.thread
           v == a.target
           q == advance_pc(p, s, t)
           r == [q EXCEPT !.started[v] = TRUE, !.pc[v] = normalize_pc(p, v, @),
                          !.thread_clock[v] = Join(@, s.thread_clock[t])]
<1>1. t \in ThreadId
  BY DEF ScheduleStep
<1>2. s \in CountedState(p, n) /\ HandedOff(s) /\ s.pc[t] < Len(p[t])
  BY DEF Good, has_next_action
<1>3. Good(p, n, q)
  BY <1>1, <1>2, AdvanceGood
<1>4. q.started = s.started
  BY <1>2 DEF advance_pc, CountedState
<1> HIDE DEF q
<1>5. q \in CountedState(p, n) /\ Parked(p, q) /\ HandedOff(q)
  BY <1>3 DEF Good
<1>6. CASE InvalidTarget(t, a) \/ s.started[v]
  BY <1>3, <1>6 DEF SpawnEffect, ModelError, q
<1>7. CASE ~(InvalidTarget(t, a) \/ s.started[v])
  <2>1. v \in ThreadId
    BY <1>7 DEF InvalidTarget
  <2>2. SpawnEffect(p, s, step, a).state = r
    BY <1>7 DEF SpawnEffect, q
  <2>3. r \in CountedState(p, n)
    BY <1>2, <2>2, ThreadCounted DEF StepOutcome
  <2>4. /\ r.mutex_owner = q.mutex_owner /\ r.mutex_clock = q.mutex_clock
        /\ r.rwlocks = q.rwlocks /\ r.memory_model = q.memory_model
        /\ r.store_buffers = q.store_buffers /\ r.pso_store_buffers = q.pso_store_buffers
        /\ r.wait_phase = q.wait_phase /\ r.condition_waiters = q.condition_waiters
        /\ r.barriers = q.barriers
    BY <1>5 DEF CountedState
  <2>5. /\ r.thread_clock[v] = Join(q.thread_clock[v], s.thread_clock[t])
        /\ \A u \in ThreadId \ {v} : r.thread_clock[u] = q.thread_clock[u]
    BY <1>5, <2>1 DEF CountedState, CountedClocks
  <2>6. \A u \in ThreadId \ {v} : r.pc[u] = q.pc[u] /\ r.started[u] = q.started[u]
    BY <1>5 DEF CountedState, Counters
  <2> HIDE DEF r
  <2>7. HandedOff(r)
    <3>1. /\ \A u \in ThreadId : q.thread_clock[u] \in Clock
          /\ s.thread_clock[t] \in Clock
      BY <1>1, <1>2, <1>5, CountedClocked DEF Clocked
    <3>2. \A u \in ThreadId : HBE(q.thread_clock[u], r.thread_clock[u])
      BY <2>5, <3>1, JoinType, HBEOrder
    <3> QED BY <1>5, <2>3, <2>4, <3>2, HandedFrame
  <2>8. SomeMissing(q) /\ \A u \in ThreadId : ParkedThread(p, q, u)
    BY <1>5, ParkedSplit
  <2>9. SomeMissing(r)
    BY <2>4, <2>8 DEF SomeMissing
  <2>10. ParkedThread(p, r, v)
    <3>1. Unparked(q, v)
      BY <1>4, <1>5, <1>7, <2>1, StandsUnparked
    <3>2. Unparked(r, v)
      BY <2>4, <3>1 DEF Unparked
    <3> QED BY <3>2, UnparkedHolds
  <2>11. ASSUME NEW u \in ThreadId \ {v} PROVE ParkedThread(p, r, u)
    <3>1. \A b \in Barriers : HBE(q.barriers[b].arrival_releases, r.barriers[b].arrival_releases)
      BY <1>5, <2>4, HBEOrder DEF CountedState, BarrierBelow, Below
    <3>2. has_pending_store(r, u) => has_pending_store(q, u)
      BY <2>4 DEF has_pending_store
    <3>3. SameFor(q, r, u)
      BY <2>4, <2>5, <2>6, <3>1, <3>2 DEF SameFor
    <3> QED BY <1>5, <2>3, <2>8, <3>3, ParkedSame
  <2>12. Parked(p, r)
    BY <2>3, <2>9, <2>10, <2>11, ParkedSplit
  <2> QED BY <2>2, <2>3, <2>7, <2>12 DEF Good
<1> QED BY <1>6, <1>7

-----------------------------------------------------------------------------
(***************************************************************************)
(* Any enabled source step, after its thread has been ticked.              *)
(***************************************************************************)
\* A thread parked at a barrier is not enabled: the barrier is its own, and open.
LEMMA EnabledNotArrived ==
    ASSUME NEW p \in Programs, NEW n \in Counts, NEW s, Good(p, n, s), NEW t \in ThreadId,
           is_program_action_enabled(p, s, t)
    PROVE  \A b \in Barriers : t \notin s.barriers[b].arrivals
<1> DEFINE a == next_action(p, s, t)
<1>1. s \in CountedState(p, n) /\ ParkedThread(p, s, t) /\ SomeMissing(s)
  BY ParkedSplit DEF Good
<1>2. SUFFICES ASSUME NEW b \in Barriers, t \in s.barriers[b].arrivals PROVE FALSE
  OBVIOUS
<1>3. /\ a.kind = "BarrierWait" /\ a.barrier = b /\ a.parties = s.barriers[b].parties
  BY <1>1, <1>2 DEF ParkedThread, StandsAt
<1>4. a.parties # 0
  <2>1. IsFiniteSet(ThreadId)
    BY SizesAssumption, FS_Interval DEF ThreadId
  <2>2. IsFiniteSet(s.barriers[b].arrivals)
    BY <1>1, <2>1, FS_Subset DEF CountedState, BarrierBelow
  <2>3. Cardinality(s.barriers[b].arrivals) \in Nat
    BY <2>2, FS_CardinalityType
  <2>4. Cardinality(s.barriers[b].arrivals) < s.barriers[b].parties
    BY <1>1, <1>2 DEF SomeMissing
  <2>5. s.barriers[b].parties \in Nat
    BY <1>1 DEF CountedState, BarrierBelow
  <2> QED BY <1>3, <2>3, <2>4, <2>5
<1> QED BY <1>2, <1>3, <1>4 DEF is_program_action_enabled

\* Every effect of execute_enabled_step on a source action.
LEMMA SourceGood ==
    ASSUME NEW p \in Programs, NEW n \in Counts, NEW s, Good(p, n, s), NEW step \in ScheduleStep,
           is_program_action_enabled(p, s, step.thread),
           NEW a \in Action, a = next_action(p, s, step.thread)
    PROVE  SourceEffect(p, s, step, a) \in StepOutcome(p, n)
           /\ Good(p, n, SourceEffect(p, s, step, a).state)
<1> DEFINE t == step.thread
<1>1. t \in ThreadId
  BY DEF ScheduleStep
<1>2. s \in CountedState(p, n) /\ Parked(p, s) /\ HandedOff(s)
  BY DEF Good
<1>3. /\ s.started[t] /\ has_next_action(p, s, t) /\ s.pc[t] < Len(p[t])
      /\ ~(is_buffered_ordered_point(a) /\ has_pending_store(s, t))
      /\ a.kind # "Label"
      /\ a.kind = "SemWait" => s.semaphores[a.semaphore].permits > 0
      /\ a.kind = "Wait" => s.wait_phase[t] # "Waiting"
  BY DEF is_program_action_enabled, has_next_action
<1>4. /\ a.kind = "RLock" => s.rwlocks[a.rwlock].writer_holder \in {NoThread, t}
      /\ a.kind = "WLock" =>
            \/ s.rwlocks[a.rwlock].writer_holder = t
            \/ /\ s.rwlocks[a.rwlock].writer_holder = NoThread
               /\ s.rwlocks[a.rwlock].reader_holders = {}
      /\ a.kind = "Upgrade" => (t \in s.rwlocks[a.rwlock].reader_holders =>
                                  s.rwlocks[a.rwlock].reader_holders = {t})
  BY DEF is_program_action_enabled
<1>5. ParkedThread(p, s, t) /\ SomeMissing(s)
  BY <1>1, <1>2, ParkedSplit
<1>6. \A b \in Barriers : t \notin s.barriers[b].arrivals
  BY <1>1, EnabledNotArrived
<1>7. ASSUME a.kind \notin WaitKinds PROVE Unparked(s, t)
  BY <1>1, <1>2, <1>6, <1>7, StandsUnparked DEF Unparked
<1>8. SourceEffect(p, s, step, a) \in StepOutcome(p, n)
  <2>1. ASSUME a.kind = "BarrierWait"
        PROVE  \A u \in s.barriers[a.barrier].arrivals : s.pc[u] < Len(p[u])
    <3>1. a.barrier \in Barriers
      BY <2>1, KindFields DEF BarrierActions
    <3> QED BY <1>2, <3>1 DEF Parked, ArrivalsParked, StandsAt, has_next_action
  <2> QED BY <1>2, <1>3, <2>1, SourceCounted
<1>9. ASSUME Keeps(p, n, s, t, SourceEffect(p, s, step, a).state), a.kind \notin WaitKinds
      PROVE  Good(p, n, SourceEffect(p, s, step, a).state)
  BY <1>1, <1>7, <1>9, KeepsGood
<1>10. ASSUME LocalStep(s, SourceEffect(p, s, step, a).state, t), a.kind \notin WaitKinds
       PROVE  Good(p, n, SourceEffect(p, s, step, a).state)
  <2>1. SourceEffect(p, s, step, a).state \in CountedState(p, n)
    BY <1>8 DEF StepOutcome
  <2> QED BY <1>1, <1>2, <1>9, <1>10, <2>1, KeepsLocal
<1>11. CASE a.kind \in {"Read", "Write"} \cup AtomicKinds
  <2>1. SourceEffect(p, s, step, a) = MemoryEffect(p, s, step, a)
    BY <1>11 DEF SourceEffect, AtomicKinds, MutexKinds, RwLockKinds, ThreadLocalKinds
  <2>2. LocalStep(s, SourceEffect(p, s, step, a).state, t)
    BY <1>2, <1>3, <1>11, <2>1, KindFields, MemoryLocal
  <2> QED BY <1>8, <1>10, <1>11, <2>2 DEF AtomicKinds, WaitKinds
<1>12. CASE a.kind \in MutexKinds
  <2>1. SourceEffect(p, s, step, a) = MutexEffect(p, s, step, a)
    BY <1>12 DEF SourceEffect, AtomicKinds, MutexKinds, RwLockKinds, ThreadLocalKinds
  <2>2. Keeps(p, n, s, t, SourceEffect(p, s, step, a).state)
    BY <1>2, <1>3, <1>12, <2>1, KindFields, MutexKeeps
  <2> QED BY <1>8, <1>9, <1>12, <2>2 DEF MutexKinds, WaitKinds
<1>13. CASE a.kind \in RwLockKinds
  <2>1. SourceEffect(p, s, step, a) = RwLockEffect(p, s, step, a)
    BY <1>13 DEF SourceEffect, AtomicKinds, MutexKinds, RwLockKinds, ThreadLocalKinds
  <2>2. a \in RwLockActions
    BY <1>13, KindFields
  <2>3. Keeps(p, n, s, t, SourceEffect(p, s, step, a).state)
    BY <1>2, <1>3, <1>4, <2>1, <2>2, RwLockKeeps
  <2> QED BY <1>8, <1>9, <1>13, <2>3 DEF RwLockKinds, WaitKinds
<1>14. CASE a.kind \in {"Set", "BranchNonzero", "Assert", "Fence", "Yield"}
  <2>1. SourceEffect(p, s, step, a) = LocalEffect(p, s, step, a)
    BY <1>14 DEF SourceEffect, AtomicKinds, MutexKinds, RwLockKinds, ThreadLocalKinds
  <2>2. LocalStep(s, SourceEffect(p, s, step, a).state, t)
    BY <1>2, <1>3, <1>14, <2>1, LocalEffectLocal
  <2> QED BY <1>8, <1>10, <1>14, <2>2 DEF WaitKinds
<1>15. CASE a.kind \in WaitKinds \cup NotifyKinds \cup SemaphoreKinds \cup ThreadKinds
                         \cup {"BarrierWait"}
  <2>1. SourceEffect(p, s, step, a) = OtherSyncEffect(p, s, step, a)
    BY <1>15 DEF SourceEffect, AtomicKinds, MutexKinds, RwLockKinds, ThreadLocalKinds,
       WaitKinds, NotifyKinds, SemaphoreKinds, ThreadKinds
  <2>2. CASE a.kind \in WaitKinds
    <3>1. a \in WaitActions /\ s.wait_phase[t] \in WaitPhase
      BY <1>1, <1>2, <2>2, KindFields DEF CountedState
    <3>2. SourceEffect(p, s, step, a) = WaitEffect(p, s, step, a)
      BY <2>1, <2>2 DEF OtherSyncEffect, WaitKinds
    <3>3. CASE s.wait_phase[t] = "None"
      BY <1>8, <1>3, <3>1, <3>2, <3>3, ParkGood DEF WaitEffect
    <3>4. CASE s.wait_phase[t] = "Waiting"
      <4>1. a.kind = "TimedWait"
        BY <1>3, <2>2, <3>4 DEF WaitKinds
      <4> QED BY <1>8, <3>1, <3>2, <3>4, <4>1, TimeoutGood DEF WaitEffect
    <3>5. CASE s.wait_phase[t] = "Woken"
      BY <1>8, <1>3, <3>1, <3>2, <3>5, ReacquireGood DEF WaitEffect
    <3> QED BY <1>8, <3>1, <3>3, <3>4, <3>5 DEF WaitPhase
  <2>3. CASE a.kind \in NotifyKinds
    <3>1. a \in NotifyActions /\ Unparked(s, t)
      BY <1>7, <2>3, KindFields DEF NotifyKinds, WaitKinds
    <3>2. /\ Good(p, n, SignalEffect(p, s, step, a).state)
          /\ Good(p, n, BroadcastEffect(p, s, step, a).state)
      BY <1>3, <3>1, NotifyGood
    <3> QED BY <1>8, <2>1, <2>3, <3>2 DEF OtherSyncEffect, WaitKinds, NotifyKinds
  <2>4. CASE a.kind \in SemaphoreKinds \cup {"Join"}
    <3>1. /\ a.kind \in SemaphoreKinds => a \in SemaphoreActions
          /\ a.kind = "Join" => a \in ThreadActions
      BY KindFields DEF ThreadKinds
    <3>2. /\ \A d \in SemaphoreActions :
                 /\ LocalStep(s, SemPostEffect(p, s, step, d).state, t)
                 /\ LocalStep(s, SemWaitEffect(p, s, step, d).state, t)
          /\ \A d \in ThreadActions : LocalStep(s, JoinEffect(p, s, step, d).state, t)
      BY <1>2, <1>3, SemaphoreAndJoinLocal
    <3>3. LocalStep(s, SourceEffect(p, s, step, a).state, t)
      BY <2>1, <2>4, <3>1, <3>2 DEF OtherSyncEffect, WaitKinds, SemaphoreKinds
    <3> QED BY <1>8, <1>10, <2>4, <3>3 DEF WaitKinds, SemaphoreKinds
  <2>5. CASE a.kind = "BarrierWait"
    <3>1. a \in BarrierActions /\ Unparked(s, t)
      BY <1>7, <2>5, KindFields DEF WaitKinds
    <3>2. ~has_pending_store(s, t)
      BY <1>3, <2>5 DEF is_buffered_ordered_point
    <3>3. Good(p, n, BarrierWaitEffect(p, s, step, a).state)
      BY <1>3, <3>1, <3>2, BarrierGood
    <3> QED BY <1>8, <2>1, <2>5, <3>3 DEF OtherSyncEffect, WaitKinds
  <2>6. CASE a.kind = "Spawn"
    <3>1. a \in ThreadActions /\ Unparked(s, t)
      BY <1>7, <2>6, KindFields DEF WaitKinds, ThreadKinds
    <3>2. Good(p, n, SpawnEffect(p, s, step, a).state)
      BY <1>3, <3>1, SpawnGood
    <3> QED BY <1>8, <2>1, <2>6, <3>2 DEF OtherSyncEffect, WaitKinds
  <2> QED BY <1>15, <2>2, <2>3, <2>4, <2>5, <2>6 DEF ThreadKinds
<1>16. \/ a.kind \in {"Read", "Write"} \cup AtomicKinds \/ a.kind \in MutexKinds
       \/ a.kind \in RwLockKinds
       \/ a.kind \in {"Set", "BranchNonzero", "Assert", "Fence", "Yield"}
       \/ a.kind \in WaitKinds \cup NotifyKinds \cup SemaphoreKinds \cup ThreadKinds
                         \cup {"BarrierWait"}
  BY <1>3 DEF Action, MemoryActions, LockActions, WaitActions, NotifyActions, RwLockActions,
         SemaphoreActions, BarrierActions, ThreadActions, SetActions, BranchActions,
         AssertActions, LabelActions, PlainSteps
<1> QED BY <1>8, <1>11, <1>12, <1>13, <1>14, <1>15, <1>16

-----------------------------------------------------------------------------
(***************************************************************************)
(* What no synchronisation effect touches: the recorded accesses, the      *)
(* store buffers, and except for the semaphore's own the semaphores.       *)
(***************************************************************************)
\* r has the recorded accesses and the store buffers of s.
SameMemory(s, r) ==
    /\ r.memory = s.memory /\ r.memory_model = s.memory_model
    /\ r.store_buffers = s.store_buffers /\ r.pso_store_buffers = s.pso_store_buffers

\* The threads that have started remain so.
Started(s, r) ==
    r.started \in [ThreadId -> BOOLEAN] /\ \A u \in ThreadId : s.started[u] => r.started[u]

Still(s, r) ==
    /\ DOMAIN r = DOMAIN s
    /\ {"semaphores", "memory", "memory_model", "store_buffers", "pso_store_buffers", "started"}
          \subseteq DOMAIN s
    /\ r.semaphores = s.semaphores /\ SameMemory(s, r) /\ Started(s, r)

Quiet(s, out) == Still(s, out.state) /\ out.report.race = {}

\* Nothing has happened yet.
LEMMA StillCounted ==
    ASSUME NEW p, NEW n, NEW s \in CountedState(p, n)
    PROVE  Still(s, s)
BY DEF CountedState, Still, SameMemory, Started

\* The parts of the synchronisation effects.
LEMMA StillParts ==
    ASSUME NEW q, NEW s, Still(q, s), NEW t
    PROVE  /\ \A p : Still(q, advance_pc(p, s, t))
           /\ \A i, v : Still(q, write_register(s, t, i, v))
           /\ \A i : Still(q, [s EXCEPT !.pc[t] = i])
           /\ \A m : Still(q, AcquireMutex(s, t, m)) /\ Still(q, ReleaseMutex(s, t, m))
           /\ \A i, v, x, w : Still(q, [s EXCEPT !.thread_clock[i] = v, !.rwlocks[x] = w])
           /\ \A x, w : Still(q, [s EXCEPT !.rwlocks[x] = w])
           /\ \A i, v : Still(q, [s EXCEPT !.thread_clock[i] = v])
           /\ \A x, w : Still(q, [s EXCEPT !.barriers[x] = w])
           /\ \A p, c, woken : Still(q, Wake(p, s, t, c, woken))
           /\ \A p, x, who, c : Still(q, ReleaseGeneration(p, s, x, who, c))
BY DEF Still, SameMemory, Started, advance_pc, write_register, AcquireMutex, ReleaseMutex, Wake,
       ReleaseGeneration

\* The ways an effect ends without a race.
LEMMA QuietReports ==
    ASSUME NEW q, NEW s, Still(q, s)
    PROVE  /\ Quiet(q, Done(s))
           /\ \A step, message : Quiet(q, ModelError(s, step, message))
           /\ \A x : Quiet(q, [state |-> s, report |-> [NoReport EXCEPT !.assertion = x]])
           /\ \A x : Quiet(q, [state |-> s, report |-> [NoReport EXCEPT !.spawned_thread = x]])
BY DEF Quiet, Done, ModelError, NoReport

\* The effects, group by group.
LEMMA LocalQuiet ==
    ASSUME NEW p, NEW s, Still(s, s), NEW step, NEW a,
           a.kind \in {"Set", "BranchNonzero", "Assert", "Fence", "Yield"}
    PROVE  Quiet(s, LocalEffect(p, s, step, a))
<1>1. \A r : Still(s, r) => Quiet(s, Done(r))
  BY QuietReports
<1>2. CASE a.kind = "Set"
  BY <1>1, <1>2, StillParts DEF LocalEffect, SetEffect
<1>3. CASE a.kind = "BranchNonzero"
  BY <1>3, StillParts, QuietReports DEF LocalEffect, BranchEffect
<1>4. CASE a.kind = "Assert"
  BY <1>4, StillParts, QuietReports DEF LocalEffect, AssertEffect
<1>5. CASE a.kind \in {"Fence", "Yield"}
  BY <1>5, StillParts, QuietReports DEF LocalEffect
<1> QED BY <1>2, <1>3, <1>4, <1>5

\* Mutexes.
LEMMA MutexQuiet ==
    ASSUME NEW p, NEW s, Still(s, s), NEW step, NEW a, a.kind \in MutexKinds
    PROVE  Quiet(s, MutexEffect(p, s, step, a))
<1>1. CASE a.kind = "Lock"
  BY <1>1, StillParts, QuietReports DEF MutexEffect, LockEffect
<1>2. CASE a.kind = "TryLock"
  BY <1>2, StillParts, QuietReports DEF MutexEffect, TryLockEffect
<1>3. CASE a.kind = "Unlock"
  BY <1>3, StillParts, QuietReports DEF MutexEffect, UnlockEffect
<1> QED BY <1>1, <1>2, <1>3 DEF MutexKinds

\* Reader-writer locks.
LEMMA RwLockQuiet ==
    ASSUME NEW p, NEW s, Still(s, s), NEW step, NEW a, a.kind \in RwLockKinds
    PROVE  Quiet(s, RwLockEffect(p, s, step, a))
<1>1. CASE a.kind = "RLock"
  BY <1>1, StillParts, QuietReports DEF RwLockEffect, RLockEffect
<1>2. CASE a.kind = "WLock"
  BY <1>2, StillParts, QuietReports DEF RwLockEffect, WLockEffect, AcquireExclusive
<1>3. CASE a.kind = "RUnlock"
  BY <1>3, StillParts, QuietReports DEF RwLockEffect, RUnlockEffect
<1>4. CASE a.kind = "WUnlock"
  BY <1>4, StillParts, QuietReports DEF RwLockEffect, WUnlockEffect, ReleaseExclusive
<1>5. CASE a.kind = "Upgrade"
  BY <1>5, StillParts, QuietReports DEF RwLockEffect, UpgradeEffect, AcquireExclusive
<1>6. CASE a.kind = "Downgrade"
  BY <1>6, StillParts, QuietReports DEF RwLockEffect, DowngradeEffect, ReleaseExclusive
<1> QED BY <1>1, <1>2, <1>3, <1>4, <1>5, <1>6 DEF RwLockKinds

\* Condition variables.
LEMMA WaitQuiet ==
    ASSUME NEW p, NEW s, Still(s, s), NEW step, NEW a, a.kind \in WaitKinds \cup NotifyKinds,
           s.wait_phase[step.thread] \in WaitPhase,
           a.kind = "Wait" => s.wait_phase[step.thread] # "Waiting"
    PROVE  Quiet(s, OtherSyncEffect(p, s, step, a))
<1> DEFINE t == step.thread
<1>1. \A r, c, W, v : Still(s, r) =>
          /\ Still(s, [r EXCEPT !.condition_waiters[c] = W, !.wait_phase[t] = v])
          /\ Still(s, [r EXCEPT !.wait_phase[t] = v])
  BY DEF Still, SameMemory, Started
<1>2. Quiet(s, ParkEffect(p, s, step, a))
  BY <1>1, StillParts, QuietReports DEF ParkEffect
<1>3. Quiet(s, TimeoutEffect(s, step, a))
  BY <1>1, StillParts, QuietReports DEF TimeoutEffect
<1>4. Quiet(s, ReacquireEffect(p, s, step, a))
  BY <1>1, StillParts, QuietReports DEF ReacquireEffect
<1>5. CASE a.kind \in WaitKinds
  <2>1. Quiet(s, WaitEffect(p, s, step, a))
    BY <1>2, <1>3, <1>4, <1>5 DEF WaitEffect, WaitPhase, WaitKinds
  <2> QED BY <1>5, <2>1 DEF OtherSyncEffect, WaitKinds
<1>6. CASE a.kind = "Signal"
  BY <1>6, StillParts, QuietReports DEF OtherSyncEffect, SignalEffect, WaitKinds
<1>7. CASE a.kind = "Broadcast"
  BY <1>7, StillParts, QuietReports DEF OtherSyncEffect, BroadcastEffect, WaitKinds
<1> QED BY <1>5, <1>6, <1>7 DEF NotifyKinds

\* Threads and barriers.
LEMMA ThreadAndBarrierQuiet ==
    ASSUME NEW p, NEW s, Still(s, s), NEW step, NEW a, a.kind \in ThreadKinds \cup {"BarrierWait"},
           a.kind = "BarrierWait" => s.barriers[a.barrier].parties \in Nat
             /\ Cardinality(s.barriers[a.barrier].arrivals \cup {step.thread}) \in Nat
    PROVE  Quiet(s, OtherSyncEffect(p, s, step, a))
<1> DEFINE t == step.thread
<1>1. ASSUME NEW r, NEW i, NEW w, Still(s, r)
      PROVE  Still(s, [r EXCEPT !.started[i] = TRUE, !.pc[i] = normalize_pc(p, i, @),
                                !.thread_clock[i] = w])
  <2> DEFINE started == [r.started EXCEPT ![i] = TRUE]
             q == [r EXCEPT !.started[i] = TRUE, !.pc[i] = normalize_pc(p, i, @),
                            !.thread_clock[i] = w]
  <2>1. /\ started \in [ThreadId -> BOOLEAN]
        /\ \A u \in ThreadId : r.started[u] => started[u]
    BY <1>1 DEF Still, Started
  <2>2. /\ DOMAIN q = DOMAIN r /\ q.semaphores = r.semaphores /\ SameMemory(r, q)
        /\ q.started = started
    BY <1>1 DEF Still, SameMemory
  <2> HIDE DEF started, q
  <2>3. Started(s, q)
    BY <1>1, <2>1, <2>2 DEF Started, Still
  <2>4. Still(s, q)
    BY <1>1, <2>2, <2>3 DEF Still, SameMemory
  <2> QED BY <2>4 DEF q
<1>2. CASE a.kind = "Spawn"
  BY <1>1, <1>2, StillParts, QuietReports DEF OtherSyncEffect, SpawnEffect, WaitKinds
<1>3. CASE a.kind = "Join"
  BY <1>3, StillParts, QuietReports DEF OtherSyncEffect, JoinEffect, WaitKinds
<1>4. CASE a.kind = "BarrierWait"
  <2> DEFINE b == s.barriers[a.barrier]
             arrivals == b.arrivals \cup {t}
             c == Join(b.arrival_releases, s.thread_clock[t])
  <2>1. /\ Quiet(s, ModelError(advance_pc(p, s, t), step, "barrier"))
        /\ \A v : Quiet(s, Done([s EXCEPT !.barriers[a.barrier] = v]))
        /\ Quiet(s, Done(ReleaseGeneration(p, s, a.barrier, arrivals, c)))
    BY StillParts, QuietReports
  <2>2. Cardinality(arrivals) < b.parties \/ Cardinality(arrivals) >= b.parties
    BY <1>4
  <2>3. Quiet(s, BarrierWaitEffect(p, s, step, a))
    BY <2>1, <2>2 DEF BarrierWaitEffect
  <2> QED BY <1>4, <2>3 DEF OtherSyncEffect, WaitKinds
<1> QED BY <1>2, <1>3, <1>4 DEF ThreadKinds

\* Semaphores record no access.
LEMMA SemaphoreFrame ==
    ASSUME NEW p, NEW s, Still(s, s), NEW step, NEW a, a.kind \in SemaphoreKinds
    PROVE  LET out == OtherSyncEffect(p, s, step, a)
           IN  SameMemory(s, out.state) /\ Started(s, out.state) /\ out.report.race = {}
<1>1. CASE a.kind = "SemPost"
  BY <1>1 DEF OtherSyncEffect, SemPostEffect, Done, NoReport, WaitKinds, Still, SameMemory, Started,
               advance_pc
<1>2. CASE a.kind = "SemWait"
  BY <1>2 DEF OtherSyncEffect, SemWaitEffect, Done, NoReport, WaitKinds, Still, SameMemory, Started,
               advance_pc
<1> QED BY <1>1, <1>2 DEF SemaphoreKinds

\* Memory actions and flushes leave the semaphores alone.
LEMMA MemoryFrame ==
    ASSUME NEW p, NEW n, NEW s \in CountedState(p, n), NEW step, NEW a
    PROVE  /\ a.kind \in {"Read", "Write"} \cup AtomicKinds =>
                LET r == MemoryEffect(p, s, step, a).state
                IN  r.semaphores = s.semaphores /\ r.pc = advance_pc(p, s, step.thread).pc
           /\ FlushEffect(s, step, a).state.semaphores = s.semaphores
<1> DEFINE Kept(r, k) == /\ DOMAIN r = DOMAIN s /\ r.semaphores = s.semaphores
                         /\ r.memory_model = s.memory_model /\ r.pc = k
           t == step.thread
           x == a.address
<1>0. /\ {"semaphores", "memory_model", "pc"} \subseteq DOMAIN s
      /\ s.memory_model \in MemoryModel
  BY DEF CountedState
<1>1. \A r, k, c : Kept(r, k) => /\ Kept(record_read(r, x, c).state, k)
                                 /\ Kept(record_write(r, x, c).state, k)
                                 /\ Kept(record_atomic(r, x, c).state, k)
  BY <1>0 DEF record_read, record_write, record_atomic, DoneWithRace
<1>2. \A r, k, v : Kept(r, k) =>
        /\ Kept(AcquireLocation(r, t, x), k) /\ Kept(ReleaseLocation(r, t, x), k)
        /\ Kept([r EXCEPT !.memory_values[x] = v], k)
        /\ Kept([r EXCEPT !.store_buffers[t] = v], k)
        /\ Kept([r EXCEPT !.pso_store_buffers[t][x] = v], k)
  BY <1>0 DEF AcquireLocation, ReleaseLocation
<1>3. \A r, k, i, v : Kept(r, k) => Kept(write_register(r, t, i, v), k)
  BY <1>0 DEF write_register
<1>4. Kept(advance_pc(p, s, t), advance_pc(p, s, t).pc)
  BY <1>0 DEF advance_pc
<1> HIDE DEF Kept
<1>5. \A r, k : Kept(r, k) => Kept(ReadEffect(r, step, a).state, k)
  BY <1>1, <1>3 DEF ReadEffect
<1>6. \A r, k : Kept(r, k) => Kept(WriteEffect(r, step, a).state, k)
  <2> TAKE r, k
  <2>1. HAVE Kept(r, k)
  <2>2. r.memory_model \in {"SC", "TSO", "PSO"}
    BY <1>0, <2>1 DEF Kept, MemoryModel
  <2>3. CASE r.memory_model = "SC"
    BY <1>1, <1>2, <2>1, <2>3 DEF WriteEffect
  <2>4. CASE r.memory_model = "TSO"
    BY <1>2, <2>1, <2>4 DEF WriteEffect, Done
  <2>5. CASE r.memory_model = "PSO"
    BY <1>2, <2>1, <2>5 DEF WriteEffect, Done
  <2> QED BY <2>2, <2>3, <2>4, <2>5
<1>7. \A r, k : Kept(r, k) => /\ Kept(AtomicLoadEffect(r, step, a).state, k)
                              /\ Kept(AtomicStoreEffect(r, step, a).state, k)
                              /\ Kept(AtomicRmwEffect(r, step, a).state, k)
                              /\ Kept(CompareExchangeEffect(r, step, a).state, k)
  <2>1. \A r, k : Kept(r, k) => Kept(AtomicLoadEffect(r, step, a).state, k)
    BY <1>1, <1>2, <1>3 DEF AtomicLoadEffect
  <2>2. \A r, k : Kept(r, k) => Kept(AtomicStoreEffect(r, step, a).state, k)
    BY <1>1, <1>2 DEF AtomicStoreEffect
  <2>3. \A r, k : Kept(r, k) => Kept(AtomicRmwEffect(r, step, a).state, k)
    BY <1>1, <1>2, <1>3 DEF AtomicRmwEffect
  <2>4. \A r, k : Kept(r, k) => Kept(CompareExchangeEffect(r, step, a).state, k)
    BY <1>1, <1>2, <1>3 DEF CompareExchangeEffect
  <2> QED BY <2>1, <2>2, <2>3, <2>4
<1>8. ASSUME a.kind \in {"Read", "Write"} \cup AtomicKinds
      PROVE  Kept(MemoryEffect(p, s, step, a).state, advance_pc(p, s, t).pc)
  <2>1. CASE x = NoAddress
    BY <1>4, <2>1 DEF MemoryEffect, Done
  <2>2. CASE x # NoAddress
    BY <1>4, <1>5, <1>6, <1>7, <1>8, <2>2 DEF MemoryEffect, AtomicKinds
  <2> QED BY <2>1, <2>2
<1>9. Kept(FlushEffect(s, step, a).state, s.pc)
  <2>1. \A v, w : /\ Kept([s EXCEPT !.memory_values[x] = v, !.store_buffers[t] = w], s.pc)
                  /\ Kept([s EXCEPT !.memory_values[x] = v, !.pso_store_buffers[t][x] = w], s.pc)
    BY <1>0 DEF Kept
  <2> QED BY <1>1, <2>1 DEF FlushEffect
<1> QED BY <1>8, <1>9 DEF Kept

\* Which group of effects SourceEffect takes an action's effect from.
LEMMA Dispatch ==
    ASSUME NEW p, NEW s, NEW step, NEW a \in Action, a.kind # "Label"
    PROVE  LET out == SourceEffect(p, s, step, a)
           IN  \/ /\ a.kind \in {"Read", "Write"} \cup AtomicKinds
                  /\ out = MemoryEffect(p, s, step, a)
               \/ a.kind \in MutexKinds /\ out = MutexEffect(p, s, step, a)
               \/ a.kind \in RwLockKinds /\ out = RwLockEffect(p, s, step, a)
               \/ /\ a.kind \in {"Set", "BranchNonzero", "Assert", "Fence", "Yield"}
                  /\ out = LocalEffect(p, s, step, a)
               \/ /\ a.kind \in WaitKinds \cup NotifyKinds \cup SemaphoreKinds \cup ThreadKinds
                                  \cup {"BarrierWait"}
                  /\ out = OtherSyncEffect(p, s, step, a)
<1> USE DEF AtomicKinds, MutexKinds, RwLockKinds, WaitKinds, NotifyKinds, SemaphoreKinds,
            ThreadKinds
<1>1. \/ a.kind \in {"Read", "Write"} \cup AtomicKinds \/ a.kind \in MutexKinds
      \/ a.kind \in RwLockKinds
      \/ a.kind \in {"Set", "BranchNonzero", "Assert", "Fence", "Yield"}
      \/ a.kind \in WaitKinds \cup NotifyKinds \cup SemaphoreKinds \cup ThreadKinds
                        \cup {"BarrierWait"}
  BY DEF Action, MemoryActions, LockActions, WaitActions, NotifyActions, RwLockActions,
         SemaphoreActions, BarrierActions, ThreadActions, SetActions, BranchActions,
         AssertActions, LabelActions, PlainSteps
<1>2. CASE a.kind \in {"Read", "Write"} \cup AtomicKinds
  BY <1>2 DEF SourceEffect, ThreadLocalKinds
<1>3. CASE a.kind \in MutexKinds
  BY <1>3 DEF SourceEffect, ThreadLocalKinds
<1>4. CASE a.kind \in RwLockKinds
  BY <1>4 DEF SourceEffect, ThreadLocalKinds
<1>5. CASE a.kind \in {"Set", "BranchNonzero", "Assert", "Fence", "Yield"}
  BY <1>5 DEF SourceEffect, ThreadLocalKinds
<1>6. CASE a.kind \in WaitKinds \cup NotifyKinds \cup SemaphoreKinds \cup ThreadKinds
                        \cup {"BarrierWait"}
  BY <1>6 DEF SourceEffect, ThreadLocalKinds
<1> QED BY <1>1, <1>2, <1>3, <1>4, <1>5, <1>6

\* Only a semaphore action changes semaphores; only a memory action records an access,
\* buffers a store or reports a race; and no thread that has started is stopped.
LEMMA SourceFrame ==
    ASSUME NEW p \in Programs, NEW n \in Counts, NEW s \in CountedState(p, n),
           NEW step \in ScheduleStep, is_program_action_enabled(p, s, step.thread),
           NEW a \in Action, a = next_action(p, s, step.thread)
    PROVE  LET out == SourceEffect(p, s, step, a)
           IN  /\ a.kind \notin SemaphoreKinds => out.state.semaphores = s.semaphores
               /\ a.kind \notin {"Read", "Write"} \cup AtomicKinds =>
                     /\ SameMemory(s, out.state) /\ Started(s, out.state)
                     /\ out.report.race = {}
<1> DEFINE t == step.thread
           out == SourceEffect(p, s, step, a)
           Framed == /\ a.kind \notin SemaphoreKinds => out.state.semaphores = s.semaphores
                     /\ a.kind \notin {"Read", "Write"} \cup AtomicKinds =>
                           /\ SameMemory(s, out.state) /\ Started(s, out.state)
                           /\ out.report.race = {}
<1> SUFFICES Framed
  OBVIOUS
<1>1. Still(s, s)
  BY StillCounted
<1>2. a.kind # "Label" /\ (a.kind = "Wait" => s.wait_phase[t] # "Waiting")
  BY DEF is_program_action_enabled
<1>3. Quiet(s, out) => Framed
  BY DEF Quiet, Still
<1>4. t \in ThreadId /\ s.wait_phase[t] \in WaitPhase
  BY DEF ScheduleStep, CountedState
<1>5. CASE a.kind \in {"Read", "Write"} \cup AtomicKinds /\ out = MemoryEffect(p, s, step, a)
  BY <1>5, MemoryFrame
<1> HIDE DEF out, Framed
<1>6. CASE \/ a.kind \in MutexKinds /\ out = MutexEffect(p, s, step, a)
           \/ a.kind \in RwLockKinds /\ out = RwLockEffect(p, s, step, a)
           \/ /\ a.kind \in {"Set", "BranchNonzero", "Assert", "Fence", "Yield"}
              /\ out = LocalEffect(p, s, step, a)
  BY <1>1, <1>3, <1>6, MutexQuiet, RwLockQuiet, LocalQuiet
<1>7. CASE out = OtherSyncEffect(p, s, step, a) /\ a.kind \in WaitKinds \cup NotifyKinds
  BY <1>1, <1>2, <1>3, <1>4, <1>7, WaitQuiet
<1>8. CASE out = OtherSyncEffect(p, s, step, a) /\ a.kind \in SemaphoreKinds
  BY <1>1, <1>8, SemaphoreFrame DEF Framed
<1>9. CASE out = OtherSyncEffect(p, s, step, a) /\ a.kind \in ThreadKinds \cup {"BarrierWait"}
  <2>1. ASSUME a.kind = "BarrierWait"
        PROVE  /\ s.barriers[a.barrier].parties \in Nat
               /\ Cardinality(s.barriers[a.barrier].arrivals \cup {t}) \in Nat
    <3>1. s.barriers[a.barrier] \in BarrierBelow(n)
      BY <2>1, KindFields DEF CountedState, BarrierActions
    <3>2. IsFiniteSet(ThreadId)
      BY SizesAssumption, FS_Interval DEF ThreadId
    <3>3. s.barriers[a.barrier].arrivals \cup {t} \in SUBSET ThreadId
      BY <1>4, <3>1 DEF BarrierBelow
    <3>4. IsFiniteSet(s.barriers[a.barrier].arrivals \cup {t})
      BY <3>2, <3>3, FS_Subset
    <3> QED BY <3>1, <3>4, FS_CardinalityType DEF BarrierBelow
  <2> QED BY <1>1, <1>3, <1>9, <2>1, ThreadAndBarrierQuiet
<1> QED BY <1>2, <1>5, <1>6, <1>7, <1>8, <1>9, Dispatch DEF out

-----------------------------------------------------------------------------
(***************************************************************************)
(* One step from enabled_steps_for_thread.                                 *)
(***************************************************************************)
\* The state a step starts from, its counter and clock ticked, is good again and leaves
\* the same source action enabled.
LEMMA BegunGood ==
    ASSUME NEW p \in Programs, NEW n \in Counts, NEW s, Good(p, n, s), NEW t \in ThreadId,
           \A b \in Barriers : t \notin s.barriers[b].arrivals,
           NEW m, CountsTick(n, m, t), Tick(s.thread_clock[t], t) \in m.clocks
    PROVE  /\ Good(p, m, BeginStep(s, t))
           /\ next_action(p, BeginStep(s, t), t) = next_action(p, s, t)
           /\ is_program_action_enabled(p, s, t) =>
                 is_program_action_enabled(p, BeginStep(s, t), t)
<1> DEFINE r == BeginStep(s, t)
<1> HIDE DEF r
<1>1. s \in CountedState(p, n) /\ Parked(p, s) /\ HandedOff(s)
  BY DEF Good
<1>2. r \in CountedState(p, m)
  BY <1>1, BeginStepCounted DEF r
<1>3. /\ LocalStep(s, r, t) /\ r.pc = s.pc /\ r.semaphores = s.semaphores
      /\ r.store_buffers = s.store_buffers /\ r.pso_store_buffers = s.pso_store_buffers
  BY <1>1, BeginStepLocal DEF r
<1>4. Parked(p, r) /\ HandedOff(r)
  BY <1>1, <1>2, <1>3, ParkedStill, HandedLocal
<1>5. next_action(p, r, t) = next_action(p, s, t)
  BY <1>3 DEF next_action
<1>6. ASSUME is_program_action_enabled(p, s, t) PROVE is_program_action_enabled(p, r, t)
  <2>1. /\ r.memory_model = s.memory_model /\ r.started = s.started
        /\ r.wait_phase = s.wait_phase /\ r.barriers = s.barriers
        /\ r.mutex_owner = s.mutex_owner /\ r.rwlocks = s.rwlocks
    BY <1>3 DEF LocalStep, OwnStep
  <2>2. \A u : is_finished(p, s, u) => is_finished(p, r, u)
    BY <1>3, <2>1 DEF is_finished, has_next_action
  <2>3. has_next_action(p, r, t) <=> has_next_action(p, s, t)
    BY <1>3 DEF has_next_action
  <2>4. has_pending_store(r, t) <=> has_pending_store(s, t)
    BY <1>3, <2>1 DEF has_pending_store
  <2> QED BY <1>3, <1>5, <1>6, <2>1, <2>2, <2>3, <2>4 DEF is_program_action_enabled
<1> QED BY <1>2, <1>4, <1>5, <1>6 DEF Good, r

\* The numbers given to the addresses of a program.
LEMMA AddressNumberType ==
    ASSUME NEW p \in Programs, NEW x \in Addresses
    PROVE  AddressNumber(p, x) \in Nat
<1>1. IsFiniteSet(DOMAIN AddressOrder)
  BY NamesAssumption, FS_Interval
<1>2. IsFiniteSet(Addresses)
  <2>1. AddressOrder \in Surjection(DOMAIN AddressOrder, Addresses)
    BY NamesAssumption DEF Addresses, Surjection
  <2> QED BY <1>1, <2>1, FS_Surjection
<1>3. {y \in program_addresses(p) : AddressBefore(y, x)} \subseteq Addresses
  BY DEF AddressBefore, Addresses
<1> QED BY <1>2, <1>3, FS_Subset, FS_CardinalityType DEF AddressNumber


\* The addresses a program names are addresses.
LEMMA ProgramAddressesType ==
    ASSUME NEW p \in Programs
    PROVE  program_addresses(p) \subseteq Addresses
<1>1. SUFFICES ASSUME NEW t \in ThreadId, NEW a \in ActionsOf(p, t), is_memory_action(a),
                      a.address # NoAddress
               PROVE  a.address \in Addresses
  BY DEF program_addresses
<1>2. a \in Action
  BY <1>1, ProgramsAssumption DEF ActionsOf, Program
<1>3. a \in MemoryActions
  BY <1>1, <1>2 DEF is_memory_action, PlainKinds, AtomicKinds, Action, MemoryActions,
     LockActions, WaitActions, NotifyActions, RwLockActions, SemaphoreActions,
     BarrierActions, ThreadActions, SetActions, BranchActions, AssertActions,
     LabelActions, PlainSteps, MutexKinds, WaitKinds, NotifyKinds, RwLockKinds,
     SemaphoreKinds, ThreadKinds
<1> QED BY <1>1, <1>3 DEF MemoryActions

\* A flush step flushes an address whose buffer is not empty.
LEMMA FlushTarget ==
    ASSUME NEW p \in Programs, NEW n \in Counts, NEW s, Good(p, n, s), NEW t \in ThreadId,
           NEW step \in FlushSteps(p, s, t)
    PROVE  /\ step \in ScheduleStep /\ step.thread = t /\ is_flush_step(step)
           /\ has_pending_store(s, t)
           /\ \E x \in Addresses :
                 /\ effective_action_for_step(p, s, step) = FlushAction(x)
                 /\ \/ s.memory_model = "TSO" /\ s.store_buffers[t] # <<>>
                    \/ s.memory_model = "PSO" /\ s.pso_store_buffers[t][x] # <<>>
<1>1. s \in CountedState(p, n)
  BY DEF Good
<1>2. CASE s.memory_model = "TSO" /\ s.store_buffers[t] # <<>>
  <2>1. step = FlushStep(t, NoFlushAddress)
    BY <1>2 DEF FlushSteps
  <2>2. /\ step \in ScheduleStep /\ step.thread = t /\ is_flush_step(step)
    BY <2>1, SizesAssumption DEF FlushStep, ScheduleStep, is_flush_step
  <2>3. s.store_buffers[t] \in Seq(StoreBufferEntry)
    BY <1>1 DEF CountedState
  <2>4. Head(s.store_buffers[t]) \in StoreBufferEntry
    BY <1>2, <2>3
  <2>5. Head(s.store_buffers[t]).address \in Addresses
    BY <2>4 DEF StoreBufferEntry
  <2>6. effective_action_for_step(p, s, step) = FlushAction(Head(s.store_buffers[t]).address)
    BY <1>2, <2>2 DEF effective_action_for_step
  <2> QED BY <1>2, <2>2, <2>5, <2>6 DEF has_pending_store
<1>3. CASE s.memory_model = "PSO"
  <2> DEFINE Hit(x) == /\ AddressNumber(p, x) = step.flush_address
                       /\ s.pso_store_buffers[t][x] # <<>>
  <2>1. PICK y \in program_addresses(p) :
              s.pso_store_buffers[t][y] # <<>> /\ step = FlushStep(t, AddressNumber(p, y))
    BY <1>3 DEF FlushSteps
  <2>2. y \in Addresses /\ AddressNumber(p, y) \in Nat
    BY <2>1, ProgramAddressesType, AddressNumberType
  <2>3. /\ step \in ScheduleStep /\ step.thread = t /\ is_flush_step(step)
        /\ step.flush_address = AddressNumber(p, y)
    BY <2>1, <2>2, SizesAssumption DEF FlushStep, ScheduleStep, is_flush_step
  <2>4. \E x \in program_addresses(p) : Hit(x)
    BY <2>1, <2>3
  <2> DEFINE z == CHOOSE x \in program_addresses(p) : Hit(x)
  <2>5. z \in program_addresses(p) /\ Hit(z)
    BY <2>4
  <2>6. effective_action_for_step(p, s, step) = FlushAction(z)
    BY <1>3, <2>3 DEF effective_action_for_step
  <2> HIDE DEF z
  <2>7. z \in Addresses
    BY <2>5, ProgramAddressesType
  <2> QED BY <1>3, <2>1, <2>2, <2>3, <2>5, <2>6, <2>7 DEF has_pending_store
<1> QED BY <1>2, <1>3 DEF FlushSteps

\* An enabled source action, in a state that satisfies the invariant.
Steps(p, n, s, step, a) ==
    /\ p \in Programs /\ n \in Counts /\ Good(p, n, s) /\ step \in ScheduleStep
    /\ is_program_action_enabled(p, s, step.thread)
    /\ a \in Action /\ a = next_action(p, s, step.thread)

\* What the invariant says of the stepping thread.
LEMMA StepsFacts ==
    ASSUME NEW p, NEW n, NEW s, NEW step, NEW a, Steps(p, n, s, step, a)
    PROVE  LET t == step.thread
           IN  /\ t \in ThreadId /\ t # NoThread /\ s \in CountedState(p, n)
               /\ ParkedThread(p, s, t) /\ SomeMissing(s) /\ HandedOff(s)
               /\ \A b \in Barriers : t \notin s.barriers[b].arrivals
               /\ a.kind \notin WaitKinds => s.wait_phase[t] = "None"
               /\ s.pc[t] < Len(p[t])
<1>1. step.thread \in ThreadId /\ s \in CountedState(p, n) /\ Parked(p, s)
  BY DEF Steps, Good, ScheduleStep
<1>2. ParkedThread(p, s, step.thread) /\ SomeMissing(s)
  BY <1>1, ParkedSplit
<1>3. \A b \in Barriers : step.thread \notin s.barriers[b].arrivals
  BY <1>1, EnabledNotArrived DEF Steps
<1>4. a.kind \notin WaitKinds => s.wait_phase[step.thread] = "None"
  BY <1>1, StandsUnparked DEF Steps
<1>5. step.thread # NoThread
  BY <1>1, SizesAssumption DEF ThreadId, NoThread
<1> QED BY <1>1, <1>2, <1>3, <1>4, <1>5 DEF Steps, Good, is_program_action_enabled, has_next_action

\* A step of execute_enabled_step(p, s, step), after BeginStep has made q of s, is an enabled
\* source action...
SourceRun(p, m, s, q, step) ==
    LET a == next_action(p, q, step.thread)
    IN  /\ Steps(p, m, q, step, a) /\ step.action_index = q.pc[step.thread]
        /\ execute_enabled_step(p, s, step) = SourceEffect(p, q, step, a)

\* ... or the flush of a pending store.
PendingAt(q, t, x) ==
    \/ q.memory_model = "TSO" /\ q.store_buffers[t] # <<>>
    \/ q.memory_model = "PSO" /\ q.pso_store_buffers[t][x] # <<>>

FlushRun(p, m, s, q, step) ==
    /\ p \in Programs /\ m \in Counts /\ Good(p, m, q) /\ step \in ScheduleStep
    /\ \E x \in Addresses :
          /\ PendingAt(q, step.thread, x)
          /\ execute_enabled_step(p, s, step) = FlushEffect(q, step, FlushAction(x))

\* The steps enabled_steps_for_thread gives.
GivenStep(p, s, step) ==
    \/ step \in FlushSteps(p, s, step.thread)
    \/ /\ step = SourceStep(step.thread, s.pc[step.thread])
       /\ is_program_action_enabled(p, s, step.thread)

\* They run in one of these two ways.
LEMMA Runs ==
    ASSUME NEW p \in Programs, NEW n \in Counts, NEW s, Good(p, n, s),
           NEW step, step.thread \in ThreadId, GivenStep(p, s, step),
           NEW m, CountsTick(n, m, step.thread),
           Tick(s.thread_clock[step.thread], step.thread) \in m.clocks
    PROVE  LET q == BeginStep(s, step.thread)
           IN  /\ Good(p, m, q)
               /\ LocalStep(s, q, step.thread) /\ q.pc = s.pc /\ q.semaphores = s.semaphores
               /\ SourceRun(p, m, s, q, step) \/ FlushRun(p, m, s, q, step)
<1> DEFINE t == step.thread
           q == BeginStep(s, t)
<1>1. s \in CountedState(p, n) /\ ParkedThread(p, s, t) /\ m \in Counts
  BY ParkedSplit DEF Good, CountsTick
<1>2. /\ LocalStep(s, q, t) /\ q.pc = s.pc /\ q.semaphores = s.semaphores
      /\ q.store_buffers = s.store_buffers /\ q.pso_store_buffers = s.pso_store_buffers
  BY <1>1, BeginStepLocal
<1>3. CASE step = SourceStep(t, s.pc[t]) /\ is_program_action_enabled(p, s, t)
  <2> DEFINE a == next_action(p, s, t)
  <2>1. s.pc[t] \in 0 .. Len(p[t]) - 1 /\ s.pc[t] \in Nat
    BY <1>1, <1>3, ActionType DEF CountedState, Counters, is_program_action_enabled,
                                  has_next_action
  <2>2. a \in Action
    BY <2>1, ActionType DEF next_action
  <2>3. step \in ScheduleStep /\ ~is_flush_step(step) /\ step.action_index = s.pc[t]
    BY <1>3, <2>1, ProgramsAssumption, SizesAssumption, ActionType
       DEF ScheduleStep, SourceStep, is_flush_step
  <2>4. /\ Good(p, m, q) /\ next_action(p, q, t) = a
        /\ is_program_action_enabled(p, q, t)
    BY <1>3, EnabledNotArrived, BegunGood
  <2>5. execute_enabled_step(p, s, step) = SourceEffect(p, q, step, a)
    BY <2>3 DEF execute_enabled_step
  <2> HIDE DEF q, a
  <2>6. SourceRun(p, m, s, q, step)
    BY <1>1, <1>2, <2>2, <2>3, <2>4, <2>5 DEF SourceRun, Steps
  <2> QED BY <1>2, <2>4, <2>6 DEF q
<1>4. CASE step \in FlushSteps(p, s, t)
  <2>1. step \in ScheduleStep /\ is_flush_step(step) /\ has_pending_store(s, t)
    BY <1>4, FlushTarget
  <2>2. PICK x \in Addresses :
          /\ effective_action_for_step(p, s, step) = FlushAction(x)
          /\ \/ s.memory_model = "TSO" /\ s.store_buffers[t] # <<>>
             \/ s.memory_model = "PSO" /\ s.pso_store_buffers[t][x] # <<>>
    BY <1>4, FlushTarget
  <2>3. \A b \in Barriers : t \notin s.barriers[b].arrivals
    BY <1>1, <2>1 DEF ParkedThread
  <2>4. Good(p, m, q)
    BY <2>3, BegunGood
  <2>5. execute_enabled_step(p, s, step) = FlushEffect(q, step, FlushAction(x))
    BY <2>1, <2>2 DEF execute_enabled_step
  <2> HIDE DEF q
  <2>6. PendingAt(q, t, x)
    BY <1>2, <2>2 DEF PendingAt, LocalStep, OwnStep
  <2>7. FlushRun(p, m, s, q, step)
    BY <1>1, <2>1, <2>4, <2>5, <2>6 DEF FlushRun
  <2> QED BY <1>2, <2>4, <2>7 DEF q
<1> QED BY <1>3, <1>4 DEF GivenStep

\* A flush is a local step that leaves the counters and the semaphores alone.
LEMMA FlushRuns ==
    ASSUME NEW p, NEW m, NEW s, NEW q, NEW step, FlushRun(p, m, s, q, step)
    PROVE  LET out == execute_enabled_step(p, s, step)
           IN  /\ out \in StepOutcome(p, m) /\ Good(p, m, out.state)
               /\ LocalStep(q, out.state, step.thread)
               /\ out.state.pc = q.pc /\ out.state.semaphores = q.semaphores
<1> DEFINE t == step.thread
<1>1. PICK x \in Addresses :
        /\ PendingAt(q, t, x)
        /\ execute_enabled_step(p, s, step) = FlushEffect(q, step, FlushAction(x))
  BY DEF FlushRun
<1>2. /\ p \in Programs /\ m \in Counts /\ q \in CountedState(p, m) /\ Parked(p, q)
      /\ HandedOff(q) /\ step \in ScheduleStep /\ t \in ThreadId
  BY DEF FlushRun, Good, ScheduleStep
<1> DEFINE out == FlushEffect(q, step, FlushAction(x))
<1>3. out \in StepOutcome(p, m)
  BY <1>1, <1>2, FlushCounted DEF PendingAt
<1>4. LocalStep(q, out.state, t) /\ out.state.pc = q.pc
  BY <1>1, <1>2, FlushLocal DEF PendingAt
<1>5. out.state.semaphores = q.semaphores
  BY <1>2, MemoryFrame
<1>6. \A b \in Barriers : t \notin q.barriers[b].arrivals
  <2>1. has_pending_store(q, t)
    BY <1>1 DEF PendingAt, has_pending_store
  <2>2. ParkedThread(p, q, t)
    BY <1>2, ParkedSplit
  <2> QED BY <2>1, <2>2 DEF ParkedThread
<1> HIDE DEF out
<1>7. Good(p, m, out.state)
  <2>1. out.state \in CountedState(p, m)
    BY <1>3 DEF StepOutcome
  <2> QED BY <1>2, <1>4, <1>6, <2>1, ParkedStill, HandedLocal DEF Good
<1> QED BY <1>1, <1>3, <1>4, <1>5, <1>7 DEF out

\* Either way the invariant is kept.
LEMMA RunsGood ==
    ASSUME NEW p, NEW m, NEW s, NEW q, NEW step,
           SourceRun(p, m, s, q, step) \/ FlushRun(p, m, s, q, step)
    PROVE  LET out == execute_enabled_step(p, s, step)
           IN  out \in StepOutcome(p, m) /\ Good(p, m, out.state)
<1>1. CASE SourceRun(p, m, s, q, step)
  BY <1>1, SourceGood DEF SourceRun, Steps
<1> QED BY <1>1, FlushRuns

\* record_step_report keeps the first report of each kind.
LEMMA ReportType ==
    ASSUME NEW res \in CheckResult, NEW report \in StepReport
    PROVE  record_step_report(res, report) \in CheckResult
BY DEF record_step_report, CheckResult, StepReport, FirstNonempty

-----------------------------------------------------------------------------
(***************************************************************************)
(* What the invariant says of the properties.                              *)
(***************************************************************************)
\* Every clock of a counted state is bounded.
LEMMA ClocksBelow ==
    ASSUME NEW p, NEW n, NEW s \in CountedState(p, n)
    PROVE  /\ ThreadClocks(s) \cup PublishedClocks(s) \subseteq Below(n)
           /\ \A x \in Addresses : HistoryOf(s.memory[x]) \subseteq AccessBelow(n)
           /\ Accesses(s) \subseteq AccessBelow(n)
<1>1. ThreadClocks(s) \subseteq Below(n)
  BY DEF ThreadClocks, CountedState, CountedClocks
<1>2. PublishedClocks(s) \subseteq Below(n)
  BY DEF PublishedClocks, CountedState, RwLockBelow, SemaphoreBelow, BarrierBelow
<1>3. ASSUME NEW x \in Addresses, NEW e \in HistoryOf(s.memory[x]) PROVE e \in AccessBelow(n)
  <2>1. /\ s.memory[x].plain_accesses \in Seq(AccessBelow(n))
        /\ s.memory[x].atomic_accesses \in Seq(AccessBelow(n))
    BY DEF CountedState, AddressBelow, AddressParts
  <2> QED BY <1>3, <2>1, SeqElement DEF HistoryOf
<1> QED BY <1>1, <1>2, <1>3 DEF Accesses

\* A counted state is an ExecutionState whose clocks count steps.
LEMMA CountedMeaning ==
    ASSUME NEW p, NEW n \in Counts, NEW s \in CountedState(p, n)
    PROVE  s \in ExecutionState /\ PcOK(p, s) /\ ClocksCount(s)
<1>1. s.thread_steps = n.steps /\ n.steps \in [ThreadId -> Nat]
  BY DEF CountedState, Clock, Counts
<1>2. Below(n) \subseteq Clock
  BY DEF Below
<1>3. /\ RwLockBelow(n) \subseteq RwLockState /\ SemaphoreBelow(n) \subseteq SemaphoreState
      /\ BarrierBelow(n) \subseteq BarrierState
  BY <1>2 DEF RwLockBelow, RwLockState, SemaphoreBelow, SemaphoreState, BarrierBelow, BarrierState
<1>4. AddressBelow(n) \subseteq AddressState
  <2>1. AccessBelow(n) \subseteq MemoryAccess
    BY <1>2 DEF AccessBelow, MemoryAccess
  <2>2. Seq(AccessBelow(n)) \subseteq Seq(MemoryAccess)
    BY <2>1
  <2> QED BY <2>1, <2>2 DEF AddressBelow, AddressParts, AddressState
<1>5. Counters(p) \subseteq [ThreadId -> Nat] /\ CountedClocks(n) \subseteq [ThreadId -> Clock]
  BY <1>2 DEF Counters, CountedClocks
<1>6. s \in ExecutionState
  BY <1>1, <1>2, <1>3, <1>4, <1>5 DEF CountedState, ExecutionState
<1>7. PcOK(p, s)
  BY DEF CountedState, Counters, PcOK
<1>8. \A t \in ThreadId : s.thread_clock[t][t] = n.steps[t]
  BY DEF CountedState, CountedClocks
<1>9. ClocksCount(s)
  <2>1. ThreadClocks(s) \cup PublishedClocks(s) \cup {e.clock : e \in Accesses(s)}
          \subseteq Below(n)
    BY ClocksBelow DEF AccessBelow
  <2>2. \A c \in Below(n) : HBE(c, s.thread_steps)
    BY <1>1 DEF Below
  <2> QED BY <1>1, <1>8, <2>1, <2>2 DEF ClocksCount
<1> QED BY <1>6, <1>7, <1>9

\* Nobody is parked and nothing is held at the start.
LEMMA InitialGood ==
    ASSUME NEW p \in Programs, NEW model \in MemoryModel, NEW n \in Counts, n.steps = Zero
    PROVE  /\ Good(p, n, initial_state(p, model))
           /\ initial_state(p, model).thread_steps = Zero
<1> DEFINE s == initial_state(p, model)
<1>1. s \in CountedState(p, n)
  BY InitialCounted
<1>2. \A t \in ThreadId : Unparked(s, t)
  BY DEF initial_state, initial_barriers, Unparked
<1>3. SomeMissing(s)
  BY DEF initial_state, initial_barriers, SomeMissing
<1>4. HandedOff(s)
  BY DEF initial_state, FreeRwLock, HandedOff
<1>5. s.thread_steps = Zero
  BY <1>1 DEF CountedState
<1> HIDE DEF s
<1>6. Parked(p, s)
  BY <1>1, <1>2, <1>3, UnparkedHolds, ParkedSplit
<1> QED BY <1>1, <1>4, <1>5, <1>6 DEF Good, s

-----------------------------------------------------------------------------
(***************************************************************************)
(* Stores wait in the buffers of their memory model only, under addresses  *)
(* of the program, in the buffers of threads that have started.  So a      *)
(* pending store can be flushed, and a thread with nothing to flush and no *)
(* next action has finished.                                               *)
(***************************************************************************)
Buffered(p, s) ==
    /\ s.memory_model # "TSO" => \A t \in ThreadId : s.store_buffers[t] = <<>>
    /\ s.memory_model # "PSO" =>
          \A t \in ThreadId, x \in Addresses : s.pso_store_buffers[t][x] = <<>>
    /\ \A t \in ThreadId : s.store_buffers[t] # <<>> => s.started[t]
    /\ \A t \in ThreadId, x \in Addresses :
          s.pso_store_buffers[t][x] # <<>> => s.started[t] /\ x \in program_addresses(p)

\* Memory actions keep it.
LEMMA MemoryBuffered ==
    ASSUME NEW p, NEW n, NEW s \in CountedState(p, n), Buffered(p, s), NEW step,
           step.thread \in ThreadId, NEW a, a.kind \in {"Read", "Write"} \cup AtomicKinds,
           a.address \in Addresses \cup {NoAddress},
           s.started[step.thread], a.address # NoAddress => a.address \in program_addresses(p)
    PROVE  LET r == MemoryEffect(p, s, step, a).state
           IN  Buffered(p, r) /\ r.memory_model = s.memory_model
<1> DEFINE Kept(r) == /\ DOMAIN r = DOMAIN s /\ r.memory_model = s.memory_model
                      /\ r.store_buffers = s.store_buffers /\ r.started = s.started
                      /\ r.pso_store_buffers = s.pso_store_buffers
           t == step.thread
           x == a.address
           q == advance_pc(p, s, t)
           Good1(r) == Buffered(p, r) /\ r.memory_model = s.memory_model
<1>0. /\ {"store_buffers", "pso_store_buffers", "memory_model", "started"} \subseteq DOMAIN s
      /\ s.memory_model \in MemoryModel
      /\ s.store_buffers \in [ThreadId -> Seq(StoreBufferEntry)]
      /\ s.pso_store_buffers \in [ThreadId -> [Addresses -> Seq(Value)]]
  BY DEF CountedState
<1>1. \A r, c : Kept(r) => /\ Kept(record_read(r, x, c).state)
                           /\ Kept(record_write(r, x, c).state)
                           /\ Kept(record_atomic(r, x, c).state)
  BY <1>0 DEF record_read, record_write, record_atomic, DoneWithRace
<1>2. \A r, v : Kept(r) =>
        /\ Kept(AcquireLocation(r, t, x)) /\ Kept(ReleaseLocation(r, t, x))
        /\ Kept([r EXCEPT !.memory_values[x] = v])
  BY <1>0 DEF AcquireLocation, ReleaseLocation
<1>3. \A r, i, v : Kept(r) => Kept(write_register(r, t, i, v))
  BY <1>0 DEF write_register
<1>4. Kept(s) /\ Kept(q)
  BY <1>0 DEF advance_pc
<1>5. \A r : Kept(r) => Good1(r)
  BY DEF Buffered
<1> HIDE DEF Kept, q
<1>6. Kept(ReadEffect(q, step, a).state)
  BY <1>1, <1>3, <1>4 DEF ReadEffect
<1>7. Kept(AtomicLoadEffect(q, step, a).state)
  BY <1>1, <1>2, <1>3, <1>4 DEF AtomicLoadEffect
<1>8. Kept(AtomicStoreEffect(q, step, a).state)
  BY <1>1, <1>2, <1>4 DEF AtomicStoreEffect
<1>9. Kept(AtomicRmwEffect(q, step, a).state)
  BY <1>1, <1>2, <1>3, <1>4 DEF AtomicRmwEffect
<1>10. Kept(CompareExchangeEffect(q, step, a).state)
  BY <1>1, <1>2, <1>3, <1>4 DEF CompareExchangeEffect
<1>11. ASSUME x \in Addresses, x # NoAddress PROVE Good1(WriteEffect(q, step, a).state)
  <2> DEFINE r == WriteEffect(q, step, a).state
  <2>1. q.memory_model \in {"SC", "TSO", "PSO"}
    BY <1>0, <1>4 DEF Kept, MemoryModel
  <2>2. CASE q.memory_model = "SC"
    <3>1. Kept(r)
      BY <1>1, <1>2, <1>4, <2>2 DEF WriteEffect
    <3> QED BY <1>5, <3>1
  <2>3. CASE q.memory_model = "TSO"
    <3>1. /\ r.pso_store_buffers = s.pso_store_buffers /\ r.memory_model = "TSO"
          /\ s.memory_model = "TSO" /\ r.started = s.started
          /\ \A u \in ThreadId : u # t => r.store_buffers[u] = s.store_buffers[u]
      BY <1>0, <1>4, <2>3 DEF WriteEffect, Done, Kept
    <3> QED BY <3>1 DEF Buffered
  <2>4. CASE q.memory_model = "PSO"
    <3>1. /\ r.store_buffers = s.store_buffers /\ r.memory_model = "PSO"
          /\ s.memory_model = "PSO" /\ r.started = s.started
          /\ \A u \in ThreadId, y \in Addresses :
                u # t \/ y # x => r.pso_store_buffers[u][y] = s.pso_store_buffers[u][y]
      BY <1>0, <1>4, <2>4 DEF WriteEffect, Done, Kept
    <3> QED BY <1>11, <3>1 DEF Buffered
  <2> QED BY <2>1, <2>2, <2>3, <2>4
<1>12. CASE x = NoAddress
  BY <1>4, <1>5, <1>12 DEF MemoryEffect, Done, q
<1>13. CASE x # NoAddress
  <2> DEFINE r == MemoryEffect(p, s, step, a).state
  <2>1. a.kind = "Write" => r = WriteEffect(q, step, a).state
    BY <1>13 DEF MemoryEffect, q
  <2>2. a.kind # "Write" => Kept(r)
    BY <1>6, <1>7, <1>8, <1>9, <1>10, <1>13 DEF MemoryEffect, AtomicKinds, q
  <2> QED BY <1>5, <1>11, <1>13, <2>1, <2>2
<1> QED BY <1>12, <1>13

\* So do flushes.
LEMMA FlushBuffered ==
    ASSUME NEW p, NEW n, NEW s \in CountedState(p, n), Buffered(p, s), NEW step,
           step.thread \in ThreadId, NEW x \in Addresses, PendingAt(s, step.thread, x)
    PROVE  LET r == FlushEffect(s, step, FlushAction(x)).state
           IN  Buffered(p, r) /\ r.memory_model = s.memory_model
<1> DEFINE t == step.thread
           r == FlushEffect(s, step, FlushAction(x)).state
<1>0. FlushAction(x).address = x
  BY DEF FlushAction
<1>1. CASE s.memory_model = "TSO"
  <2>1. /\ r.pso_store_buffers = s.pso_store_buffers /\ r.memory_model = s.memory_model
        /\ r.started = s.started
        /\ \A u \in ThreadId : u # t => r.store_buffers[u] = s.store_buffers[u]
    BY <1>0, <1>1 DEF FlushEffect, record_write, DoneWithRace, CountedState
  <2> QED BY <1>1, <2>1 DEF Buffered, PendingAt
<1>2. CASE s.memory_model = "PSO"
  <2>1. /\ r.store_buffers = s.store_buffers /\ r.memory_model = s.memory_model
        /\ r.started = s.started
        /\ \A u \in ThreadId, y \in Addresses :
              u # t \/ y # x => r.pso_store_buffers[u][y] = s.pso_store_buffers[u][y]
    BY <1>0, <1>2 DEF FlushEffect, record_write, DoneWithRace, CountedState
  <2> QED BY <1>2, <2>1 DEF Buffered, PendingAt
<1> QED BY <1>1, <1>2 DEF PendingAt

\* So does every step; no step changes the memory model.
LEMMA RunsBuffered ==
    ASSUME NEW p, NEW m, NEW s, NEW q, NEW step, Good(p, m, q), Buffered(p, q),
           SourceRun(p, m, s, q, step) \/ FlushRun(p, m, s, q, step)
    PROVE  LET r == execute_enabled_step(p, s, step).state
           IN  Buffered(p, r) /\ r.memory_model = q.memory_model
<1> DEFINE t == step.thread
           r == execute_enabled_step(p, s, step).state
<1>1. q \in CountedState(p, m)
  BY DEF Good
<1>2. CASE SourceRun(p, m, s, q, step)
  <2> DEFINE a == next_action(p, q, t)
  <2>1. /\ p \in Programs /\ m \in Counts /\ step \in ScheduleStep /\ t \in ThreadId
        /\ is_program_action_enabled(p, q, t) /\ a \in Action
        /\ r = SourceEffect(p, q, step, a).state
    BY <1>2 DEF SourceRun, Steps, ScheduleStep
  <2>2. q.started[t] /\ q.pc[t] \in 0 .. Len(p[t]) - 1
    BY <1>1, <2>1, ActionType DEF is_program_action_enabled, has_next_action, CountedState,
                                  Counters
  <2>3. a \in ActionsOf(p, t)
    <3>1. q.pc[t] + 1 \in DOMAIN p[t]
      BY <2>1, <2>2, ActionType
    <3> QED BY <3>1 DEF ActionsOf, next_action, ActionAt
  <2> HIDE DEF a, r
  <2>4. CASE a.kind \in {"Read", "Write"} \cup AtomicKinds
    <3>1. a \in MemoryActions
      BY <2>1, <2>4, KindFields
    <3>2. SourceEffect(p, q, step, a) = MemoryEffect(p, q, step, a)
      BY <2>4 DEF SourceEffect, AtomicKinds, MutexKinds, RwLockKinds, ThreadLocalKinds
    <3>3. a.address \in Addresses \cup {NoAddress}
      BY <3>1 DEF MemoryActions
    <3>4. a.address # NoAddress => a.address \in program_addresses(p)
      BY <2>1, <2>3, <2>4 DEF program_addresses, is_memory_action, PlainKinds
    <3> QED BY <1>1, <2>1, <2>2, <2>4, <3>2, <3>3, <3>4, MemoryBuffered DEF r
  <2>5. CASE a.kind \notin {"Read", "Write"} \cup AtomicKinds
    <3>1. SameMemory(q, r) /\ Started(q, r)
      BY <1>1, <2>1, <2>5, SourceFrame DEF a
    <3>2. Buffered(p, r) /\ r.memory_model = q.memory_model
      BY <3>1 DEF SameMemory, Started, Buffered
    <3> QED BY <3>2 DEF r
  <2> QED BY <2>4, <2>5
<1>3. CASE FlushRun(p, m, s, q, step)
  <2>1. PICK x \in Addresses :
          PendingAt(q, t, x) /\ r = FlushEffect(q, step, FlushAction(x)).state
    BY <1>3 DEF FlushRun
  <2>2. t \in ThreadId
    BY <1>3 DEF FlushRun, ScheduleStep
  <2> QED BY <1>1, <2>1, <2>2, FlushBuffered
<1> QED BY <1>2, <1>3

-----------------------------------------------------------------------------
(***************************************************************************)
(* The states of an execution.                                             *)
(***************************************************************************)
\* Any clock, counted by the threads' steps.
CountedBy(steps) == [steps |-> steps, clocks |-> Clock]

\* Clock holds Zero and every Join, and a step of a thread is one more step.
LEMMA AnyClockCounts ==
    ASSUME NEW k \in Clock
    PROVE  /\ CountedBy(k) \in Counts /\ CountedBy(k).steps = k
           /\ CountedBy(k).clocks = Clock
           /\ \A t \in ThreadId : CountsTick(CountedBy(k), CountedBy(Tick(k, t)), t)
<1>1. \A c \in Clock : CountedBy(c) \in Counts
  BY ZeroType, JoinType DEF CountedBy, Counts
<1>2. \A t \in ThreadId : Tick(k, t) \in Clock
  BY TickType
<1> QED BY <1>1, <1>2 DEF CountedBy, CountsTick, Below

\* A state that an execution of p can be in.
Sound(p, s) ==
    /\ s.thread_steps \in Clock
    /\ Good(p, CountedBy(s.thread_steps), s)
    /\ Buffered(p, s)

\* An execution starts in one.
LEMMA InitialSound ==
    ASSUME NEW p \in Programs, NEW model \in MemoryModel
    PROVE  Sound(p, initial_state(p, model)) /\ initial_state(p, model).memory_model = model
<1> DEFINE s == initial_state(p, model)
<1>1. Good(p, CountedBy(Zero), s) /\ s.thread_steps = Zero
  BY ZeroType, AnyClockCounts, InitialGood
<1>2. Buffered(p, s) /\ s.memory_model = model
  BY DEF initial_state, Buffered
<1> QED BY <1>1, <1>2, ZeroType DEF Sound

\* Every step of enabled_steps_for_thread is begun in one, and runs in one of the two ways.
LEMMA SoundRuns ==
    ASSUME NEW p \in Programs, NEW s, Sound(p, s), NEW step, step.thread \in ThreadId,
           GivenStep(p, s, step)
    PROVE  LET t == step.thread
               m == CountedBy(Tick(s.thread_steps, t))
               q == BeginStep(s, t)
           IN  /\ Good(p, m, q) /\ Buffered(p, q) /\ q.memory_model = s.memory_model
               /\ LocalStep(s, q, t) /\ q.pc = s.pc /\ q.semaphores = s.semaphores
               /\ SourceRun(p, m, s, q, step) \/ FlushRun(p, m, s, q, step)
<1> DEFINE t == step.thread
           n == CountedBy(s.thread_steps)
           m == CountedBy(Tick(s.thread_steps, t))
           q == BeginStep(s, t)
<1>1. n \in Counts /\ Good(p, n, s) /\ s.thread_steps \in Clock /\ s \in CountedState(p, n)
  BY AnyClockCounts DEF Sound, Good
<1>2. CountsTick(n, m, t) /\ Tick(s.thread_clock[t], t) \in m.clocks
  BY <1>1, AnyClockCounts, TickType, CountedClocked DEF Clocked
<1>3. /\ q.store_buffers = s.store_buffers /\ q.pso_store_buffers = s.pso_store_buffers
      /\ q.started = s.started /\ q.memory_model = s.memory_model
  BY <1>1 DEF CountedState, BeginStep
<1> HIDE DEF n, m
<1>4. /\ Good(p, m, q)
      /\ LocalStep(s, q, t) /\ q.pc = s.pc /\ q.semaphores = s.semaphores
      /\ SourceRun(p, m, s, q, step) \/ FlushRun(p, m, s, q, step)
  BY <1>1, <1>2, Runs
<1> HIDE DEF q
<1>5. Buffered(p, q)
  BY <1>3 DEF Sound, Buffered
<1> QED BY <1>3, <1>4, <1>5 DEF m, q

\* It ends in one, of the same memory model.
LEMMA StepSound ==
    ASSUME NEW p \in Programs, NEW s, Sound(p, s), NEW step, step.thread \in ThreadId,
           GivenStep(p, s, step)
    PROVE  LET out == execute_enabled_step(p, s, step)
           IN  /\ Sound(p, out.state) /\ out.state.memory_model = s.memory_model
               /\ out.report \in StepReport
               /\ out.state.thread_steps = Tick(s.thread_steps, step.thread)
<1> DEFINE m == CountedBy(Tick(s.thread_steps, step.thread))
           q == BeginStep(s, step.thread)
           out == execute_enabled_step(p, s, step)
<1>1. /\ Good(p, m, q) /\ Buffered(p, q) /\ q.memory_model = s.memory_model
      /\ SourceRun(p, m, s, q, step) \/ FlushRun(p, m, s, q, step)
  BY SoundRuns
<1>2. m.steps = Tick(s.thread_steps, step.thread) /\ Tick(s.thread_steps, step.thread) \in Clock
  BY TickType, AnyClockCounts DEF Sound
<1> HIDE DEF m, q
<1>3. out \in StepOutcome(p, m) /\ Good(p, m, out.state)
  BY <1>1, RunsGood
<1>4. Buffered(p, out.state) /\ out.state.memory_model = q.memory_model
  BY <1>1, RunsBuffered
<1> HIDE DEF out
<1>5. out.state.thread_steps = m.steps /\ out.report \in StepReport
  BY <1>3 DEF StepOutcome, CountedState
<1> QED BY <1>1, <1>2, <1>3, <1>4, <1>5 DEF Sound, m, out

\* A step is enabled exactly when any_enabled says so.
LEMMA AnyEnabled ==
    ASSUME NEW p \in Programs, NEW s, Sound(p, s)
    PROVE  any_enabled(p, s) <=> enabled_steps(p, s) # {}
<1>1. /\ \A t \in ThreadId : s.started[t] \in BOOLEAN
      /\ s.memory_model \in MemoryModel
  BY DEF Sound, Good, CountedState
<1>2. ASSUME NEW t \in ThreadId
      PROVE  (has_pending_store(s, t) \/ is_program_action_enabled(p, s, t))
                <=> enabled_steps_for_thread(p, s, t) # {}
  <2>1. has_pending_store(s, t) => s.started[t] /\ FlushSteps(p, s, t) # {}
    BY <1>2 DEF has_pending_store, FlushSteps, Sound, Buffered
  <2>2. FlushSteps(p, s, t) # {} => has_pending_store(s, t)
    <3>1. program_addresses(p) \subseteq Addresses
      BY ProgramAddressesType
    <3> QED BY <3>1 DEF has_pending_store, FlushSteps
  <2>3. is_program_action_enabled(p, s, t) => s.started[t]
    BY DEF is_program_action_enabled
  <2> QED BY <2>1, <2>2, <2>3 DEF enabled_steps_for_thread
<1> QED BY <1>2 DEF any_enabled, enabled_steps

\* Every step of enabled_steps is one that a thread is given.
LEMMA EnabledGiven ==
    ASSUME NEW p \in Programs, NEW s, Sound(p, s), NEW step \in enabled_steps(p, s)
    PROVE  step.thread \in ThreadId /\ GivenStep(p, s, step)
<1>1. PICK t \in ThreadId : step \in enabled_steps_for_thread(p, s, t)
  BY DEF enabled_steps
<1>2. CASE step = SourceStep(t, s.pc[t]) /\ is_program_action_enabled(p, s, t)
  <2>1. step.thread = t
    BY <1>2 DEF SourceStep
  <2> QED BY <1>2, <2>1 DEF GivenStep
<1>3. CASE step \in FlushSteps(p, s, t)
  <2>1. step.thread = t
    BY <1>3, FlushTarget, AnyClockCounts DEF Sound
  <2> QED BY <1>3, <2>1 DEF GivenStep
<1> QED BY <1>1, <1>2, <1>3 DEF enabled_steps_for_thread

\* Every enabled step is a ScheduleStep.
LEMMA EnabledTyped ==
    ASSUME NEW p \in Programs, NEW s, Sound(p, s), NEW step \in enabled_steps(p, s)
    PROVE  step \in ScheduleStep
<1> DEFINE t == step.thread
           n == CountedBy(s.thread_steps)
<1>1. t \in ThreadId /\ GivenStep(p, s, step)
  BY EnabledGiven
<1>2. n \in Counts /\ Good(p, n, s) /\ s \in CountedState(p, n)
  BY AnyClockCounts DEF Sound, Good
<1>3. CASE step = SourceStep(t, s.pc[t]) /\ is_program_action_enabled(p, s, t)
  <2>1. s.pc[t] \in Nat
    BY <1>1, <1>2, <1>3, ActionType DEF CountedState, Counters, is_program_action_enabled,
                                        has_next_action
  <2> QED BY <1>1, <1>3, <2>1 DEF SourceStep, ScheduleStep
<1>4. CASE step \in FlushSteps(p, s, t)
  BY <1>1, <1>2, <1>4, FlushTarget
<1> QED BY <1>1, <1>3, <1>4 DEF GivenStep
=============================================================================
