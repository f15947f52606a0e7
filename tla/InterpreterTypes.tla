-------------------------- MODULE InterpreterTypes --------------------------
(***************************************************************************)
(* Lemmas about the operators of the interpreter: what vector clocks,      *)
(* program counters, operands and the parts of a state are.                *)
(***************************************************************************)
EXTENDS StateProps, TLAPS, FiniteSetTheorems

-----------------------------------------------------------------------------
(***************************************************************************)
(* Numbers.                                                                *)
(***************************************************************************)
\* A nonempty set of naturals has a least element, which Min denotes.
LEMMA LeastNatural ==
    ASSUME NEW S \in SUBSET Nat, S # {}
    PROVE  Min(S) \in S /\ \A n \in S : Min(S) <= n
<1>1. PICK x \in S : \A y \in S : ~(<<y, x>> \in OpToRel(<, Nat))
  BY NatLessThanWellFounded, WFMin
<1>2. ASSUME NEW y \in S PROVE x <= y
  <2>1. OpToRel(<, Nat) = {ss \in Nat \X Nat : ss[1] < ss[2]}
    BY DEF OpToRel
  <2>2. x \in Nat /\ y \in Nat /\ ~(y < x)
    BY <1>1, <2>1
  <2> QED BY <2>2
<1> QED BY <1>2 DEF Min

\* A nonempty bounded set of naturals has a greatest element, which Max denotes.
LEMMA GreatestNatural ==
    ASSUME NEW n \in Nat, NEW S \in SUBSET (0 .. n), S # {}
    PROVE  Max(S) \in S /\ \A m \in S : Max(S) >= m
<1> DEFINE T == {n - m : m \in S}
<1>1. ASSUME NEW m \in S PROVE m \in Nat /\ n - m \in Nat
  BY SMT
<1>2. T \in SUBSET Nat
  BY <1>1
<1>3. T # {}
  <2>1. PICK m \in S : TRUE
    OBVIOUS
  <2>2. n - m \in T
    OBVIOUS
  <2> QED BY <2>2
<1>4. Min(T) \in T /\ \A k \in T : Min(T) <= k
  BY <1>2, <1>3, LeastNatural
<1>5. PICK x \in S : Min(T) = n - x
  BY <1>4
<1>6. ASSUME NEW m \in S PROVE x >= m
  <2>1. n - x <= n - m
    BY <1>4, <1>5
  <2> QED BY <2>1, <1>1
<1> QED BY <1>6 DEF Max

\* AddWrap stays in the range of a Value.
LEMMA AddWrapType ==
    ASSUME NEW v \in Value, NEW w \in Value
    PROVE  AddWrap(v, w) \in Value
<1>1. 2 * ValueHalf \in Nat \ {0} /\ v + w + ValueHalf \in Int
  BY SizesAssumption DEF Value
<1>2. \A x \in Int, y \in Nat \ {0} : (x % y) \in 0 .. y - 1
  BY SMT
<1>3. (v + w + ValueHalf) % (2 * ValueHalf) \in 0 .. (2 * ValueHalf) - 1
  BY <1>1, <1>2
<1> QED BY <1>3, SizesAssumption DEF AddWrap, Value

\* The constants the effects store are values.
LEMMA SmallValues == 0 \in Value /\ 1 \in Value
BY SizesAssumption DEF Value

-----------------------------------------------------------------------------
(***************************************************************************)
(* Vector clocks.                                                          *)
(***************************************************************************)
LEMMA ZeroType == Zero \in Clock
BY DEF Zero, Clock

\* A tick gives a larger clock.
LEMMA TickType ==
    ASSUME NEW c \in Clock, NEW t \in ThreadId
    PROVE  Tick(c, t) \in Clock /\ HBE(c, Tick(c, t))
BY DEF Clock, Tick, HBE

\* Join is the least upper bound.
LEMMA JoinType ==
    ASSUME NEW c \in Clock, NEW d \in Clock
    PROVE  /\ Join(c, d) \in Clock
           /\ HBE(c, Join(c, d)) /\ HBE(d, Join(c, d))
           /\ \A e \in Clock : HBE(c, e) /\ HBE(d, e) => HBE(Join(c, d), e)
BY DEF Clock, Join, HBE

\* happens_before_or_equal is reflexive and transitive, and Zero is its least clock.
LEMMA HBEOrder ==
    /\ \A c \in Clock : HBE(c, c) /\ HBE(Zero, c)
    /\ \A c, d, e \in Clock : HBE(c, d) /\ HBE(d, e) => HBE(c, e)
BY DEF Clock, HBE, Zero

-----------------------------------------------------------------------------
(***************************************************************************)
(* Programs and counters.                                                  *)
(***************************************************************************)
\* Every index below a thread's length holds an action.
LEMMA ActionType ==
    ASSUME NEW p \in Programs, NEW t \in ThreadId
    PROVE  /\ p[t] \in Seq(Action) /\ Len(p[t]) \in Nat
           /\ \A i \in 0 .. Len(p[t]) - 1 : ActionAt(p, t, i) \in Action
BY ProgramsAssumption DEF Program, ActionAt

\* An action of some kind has the fields of its kind.
LEMMA KindFields ==
    ASSUME NEW a \in Action
    PROVE  /\ a.kind \in {"Read", "Write"} \cup AtomicKinds => a \in MemoryActions
           /\ a.kind \in MutexKinds => a \in LockActions
           /\ a.kind \in WaitKinds => a \in WaitActions
           /\ a.kind \in NotifyKinds => a \in NotifyActions
           /\ a.kind \in RwLockKinds => a \in RwLockActions
           /\ a.kind \in SemaphoreKinds => a \in SemaphoreActions
           /\ a.kind = "BarrierWait" => a \in BarrierActions
           /\ a.kind \in ThreadKinds => a \in ThreadActions
           /\ a.kind = "Set" => a \in SetActions
           /\ a.kind = "BranchNonzero" => a \in BranchActions
           /\ a.kind = "Assert" => a \in AssertActions
BY DEF Action, MemoryActions, LockActions, WaitActions, NotifyActions, RwLockActions,
       SemaphoreActions, BarrierActions, ThreadActions, SetActions, BranchActions,
       AssertActions, LabelActions, PlainSteps, AtomicKinds, MutexKinds, WaitKinds,
       NotifyKinds, RwLockKinds, SemaphoreKinds, ThreadKinds

\* normalize_pc only moves forward, and not past the end.
LEMMA NormalizeType ==
    ASSUME NEW p \in Programs, NEW t \in ThreadId, NEW i \in 0 .. Len(p[t])
    PROVE  normalize_pc(p, t, i) \in i .. Len(p[t])
<1> DEFINE S == {j \in i .. Len(p[t]) : j = Len(p[t]) \/ ActionAt(p, t, j).kind # "Label"}
<1>1. S \in SUBSET Nat /\ Len(p[t]) \in S
  BY ActionType
<1>2. Min(S) \in S
  BY <1>1, LeastNatural
<1> QED BY <1>2 DEF normalize_pc

-----------------------------------------------------------------------------
(***************************************************************************)
(* States whose clocks are bounded by the steps the threads have taken,    *)
(* n.steps, and belong to a set n.clocks that holds Zero and is closed     *)
(* under Join, as everything the effects do to a clock after its tick is.  *)
(* With every clock in n.clocks these are the type-correct states that     *)
(* satisfy ClocksCount, written as a set of records so that one typing     *)
(* argument settles both; with a smaller n.clocks the same argument shows  *)
(* whatever Zero and Join preserve.  p bounds the counters.                *)
(***************************************************************************)
Counts ==
    {n \in [steps : Clock, clocks : SUBSET Clock] :
        /\ Zero \in n.clocks
        /\ \A c, d \in n.clocks : Join(c, d) \in n.clocks}

Below(n) == {c \in Clock : c \in n.clocks /\ HBE(c, n.steps)}

CountedClocks(n) ==
    {f \in [ThreadId -> Below(n)] : \A t \in ThreadId : f[t][t] = n.steps[t]}

Counters(p) ==
    {f \in [ThreadId -> Nat] :
        \A t \in ThreadId : f[t] \in {normalize_pc(p, t, i) : i \in 0 .. Len(p[t])}}

AccessBelow(n) ==
    [clock : Below(n), endpoint : ScheduleStep, is_atomic : BOOLEAN, is_write : BOOLEAN]

\* The last write and the reads since it are recorded, and plain accesses are plain.
Recorded(m) ==
    /\ m.last_write \cup m.reads_since_last_write \subseteq HistoryOf(m)
    /\ \A e \in m.last_write : e.is_write
    /\ \A i \in DOMAIN m.plain_accesses : ~m.plain_accesses[i].is_atomic

AddressParts(n) ==
    [last_write : SUBSET AccessBelow(n), reads_since_last_write : SUBSET AccessBelow(n),
     plain_accesses : Seq(AccessBelow(n)), atomic_accesses : Seq(AccessBelow(n))]

AddressBelow(n) == {m \in AddressParts(n) : Recorded(m)}

RwLockBelow(n) ==
    [reader_holders : SUBSET ThreadId, writer_holder : OptThread,
     writer_release : Below(n), reader_releases : Below(n)]

SemaphoreBelow(n) == [permits : Nat, post_releases : Below(n)]

BarrierBelow(n) ==
    [generation : Nat, parties : Nat, arrivals : SUBSET ThreadId, arrival_releases : Below(n)]

CountedState(p, n) ==
    [memory_model : MemoryModel,
     pc : Counters(p),
     started : [ThreadId -> BOOLEAN],
     mutex_owner : [Mutexes -> OptThread],
     mutex_clock : [Mutexes -> Below(n)],
     rwlocks : [RwLocks -> RwLockBelow(n)],
     semaphores : [Semaphores -> SemaphoreBelow(n)],
     barriers : [Barriers -> BarrierBelow(n)],
     condition_waiters : [Conditions -> SUBSET ThreadId],
     thread_clock : CountedClocks(n),
     registers : [ThreadId -> [Register -> Value]],
     thread_steps : {n.steps},
     wait_phase : [ThreadId -> WaitPhase],
     memory : [Addresses -> AddressBelow(n)],
     memory_values : [Addresses -> Value],
     atomic_location_clock : [Addresses -> Below(n)],
     store_buffers : [ThreadId -> Seq(StoreBufferEntry)],
     pso_store_buffers : [ThreadId -> [Addresses -> Seq(Value)]]]

\* What an effect must give back.
StepOutcome(p, n) == [state : CountedState(p, n), report : StepReport]

\* Below(n) holds Zero and is closed under Join.
LEMMA BelowClosed ==
    ASSUME NEW n \in Counts
    PROVE  /\ Zero \in Below(n)
           /\ \A c, d \in Below(n) : Join(c, d) \in Below(n)
<1>1. n.steps \in Clock /\ Zero \in Clock
  BY ZeroType DEF Counts
<1>2. Zero \in Below(n)
  BY <1>1, HBEOrder DEF Below, Counts
<1>3. ASSUME NEW c \in Below(n), NEW d \in Below(n) PROVE Join(c, d) \in Below(n)
  BY <1>1, JoinType DEF Below, Counts
<1> QED BY <1>2, <1>3

\* A thread that joins a bounded clock still counts its own steps.
LEMMA JoinCounted ==
    ASSUME NEW n \in Counts, NEW f \in CountedClocks(n), NEW t \in ThreadId,
           NEW c \in Below(n)
    PROVE  /\ [f EXCEPT ![t] = Join(@, c)] \in CountedClocks(n)
           /\ Join(f[t], c)[t] = n.steps[t]
<1>1. Join(f[t], c) \in Below(n)
  BY BelowClosed DEF CountedClocks
<1>2. Join(f[t], c)[t] = n.steps[t]
  BY DEF Join, CountedClocks, Below, HBE, Clock, Counts
<1> QED BY <1>1, <1>2 DEF CountedClocks

\* m counts one more step of t than n, and leaves out no clock of n.
CountsTick(n, m, t) ==
    /\ m \in Counts
    /\ m.steps = Tick(n.steps, t)
    /\ \A c \in Below(n) : c \in m.clocks

\* Counting one more step of t keeps every bounded clock bounded.
LEMMA BelowTick ==
    ASSUME NEW n \in Counts, NEW t \in ThreadId, NEW m, CountsTick(n, m, t)
    PROVE  Below(n) \subseteq Below(m)
<1>1. n.steps \in Clock /\ m.steps \in Clock /\ HBE(n.steps, m.steps)
  BY TickType DEF Counts, CountsTick
<1> QED BY <1>1, HBEOrder DEF Below, CountsTick

\* The parts of a bounded state stay what they are under a larger bound.
LEMMA PartsGrow ==
    ASSUME NEW n, NEW m, Below(n) \subseteq Below(m)
    PROVE  /\ AccessBelow(n) \subseteq AccessBelow(m)
           /\ AddressBelow(n) \subseteq AddressBelow(m)
           /\ RwLockBelow(n) \subseteq RwLockBelow(m)
           /\ SemaphoreBelow(n) \subseteq SemaphoreBelow(m)
           /\ BarrierBelow(n) \subseteq BarrierBelow(m)
<1>1. AccessBelow(n) \subseteq AccessBelow(m)
  BY DEF AccessBelow
<1>2. Seq(AccessBelow(n)) \subseteq Seq(AccessBelow(m))
  BY <1>1
<1>3. AddressBelow(n) \subseteq AddressBelow(m)
  <2>1. AddressParts(n) \subseteq AddressParts(m)
    BY <1>1, <1>2 DEF AddressParts
  <2> QED BY <2>1 DEF AddressBelow
<1>4. RwLockBelow(n) \subseteq RwLockBelow(m)
  BY DEF RwLockBelow
<1>5. SemaphoreBelow(n) \subseteq SemaphoreBelow(m)
  BY DEF SemaphoreBelow
<1>6. BarrierBelow(n) \subseteq BarrierBelow(m)
  BY DEF BarrierBelow
<1> QED BY <1>1, <1>3, <1>4, <1>5, <1>6

\* ++thread_steps and tick: the bound and the stepping thread's clock move together.
LEMMA BeginStepCounted ==
    ASSUME NEW p, NEW n \in Counts, NEW s \in CountedState(p, n), NEW t \in ThreadId,
           NEW m, CountsTick(n, m, t), Tick(s.thread_clock[t], t) \in m.clocks
    PROVE  BeginStep(s, t) \in CountedState(p, m)
<1>1. m.steps \in Clock /\ n.steps \in Clock /\ Below(n) \subseteq Below(m)
  BY BelowTick DEF Counts, CountsTick
<1>2. s.thread_steps = n.steps /\ [s.thread_steps EXCEPT ![t] = @ + 1] = m.steps
  BY DEF CountedState, Tick, CountsTick
<1>3. [s.thread_clock EXCEPT ![t] = Tick(@, t)] \in CountedClocks(m)
  <2>1. s.thread_clock \in CountedClocks(n)
    BY DEF CountedState
  <2>2. m.steps = [n.steps EXCEPT ![t] = @ + 1]
    BY DEF CountsTick, Tick
  <2>3. s.thread_clock[t] \in Clock /\ HBE(s.thread_clock[t], n.steps)
    BY <2>1 DEF CountedClocks, Below
  <2>4. Tick(s.thread_clock[t], t) \in Clock /\ HBE(Tick(s.thread_clock[t], t), m.steps)
    BY <1>1, <2>2, <2>3 DEF HBE, Tick, Clock
  <2>5. Tick(s.thread_clock[t], t) \in Below(m)
    BY <2>4 DEF Below
  <2>6. Tick(s.thread_clock[t], t)[t] = m.steps[t]
    BY <1>1, <2>1, <2>2, <2>3 DEF CountedClocks, Tick, Clock
  <2>7. \A u \in ThreadId \ {t} :
          s.thread_clock[u] \in Below(m) /\ s.thread_clock[u][u] = m.steps[u]
    BY <1>1, <2>1, <2>2 DEF CountedClocks, Clock
  <2> QED BY <2>1, <2>5, <2>6, <2>7 DEF CountedClocks
<1>4. BeginStep(s, t) = [s EXCEPT !.thread_steps = m.steps,
                                  !.thread_clock = [s.thread_clock EXCEPT ![t] = Tick(@, t)]]
  BY <1>2 DEF BeginStep, CountedState
<1>5. s \in [memory_model : MemoryModel, pc : Counters(p), started : [ThreadId -> BOOLEAN],
             mutex_owner : [Mutexes -> OptThread], mutex_clock : [Mutexes -> Below(m)],
             rwlocks : [RwLocks -> RwLockBelow(m)],
             semaphores : [Semaphores -> SemaphoreBelow(m)],
             barriers : [Barriers -> BarrierBelow(m)],
             condition_waiters : [Conditions -> SUBSET ThreadId],
             thread_clock : CountedClocks(n), registers : [ThreadId -> [Register -> Value]],
             thread_steps : {n.steps}, wait_phase : [ThreadId -> WaitPhase],
             memory : [Addresses -> AddressBelow(m)], memory_values : [Addresses -> Value],
             atomic_location_clock : [Addresses -> Below(m)],
             store_buffers : [ThreadId -> Seq(StoreBufferEntry)],
             pso_store_buffers : [ThreadId -> [Addresses -> Seq(Value)]]]
  <2>1. /\ s.mutex_clock \in [Mutexes -> Below(m)]
        /\ s.atomic_location_clock \in [Addresses -> Below(m)]
    BY <1>1 DEF CountedState
  <2>2. s.rwlocks \in [RwLocks -> RwLockBelow(m)]
    BY <1>1, PartsGrow DEF CountedState
  <2>3. s.semaphores \in [Semaphores -> SemaphoreBelow(m)]
    BY <1>1, PartsGrow DEF CountedState
  <2>4. s.barriers \in [Barriers -> BarrierBelow(m)]
    BY <1>1, PartsGrow DEF CountedState
  <2>5. s.memory \in [Addresses -> AddressBelow(m)]
    BY <1>1, PartsGrow DEF CountedState
  <2> QED BY <2>1, <2>2, <2>3, <2>4, <2>5 DEF CountedState
<1> QED BY <1>3, <1>4, <1>5 DEF CountedState

-----------------------------------------------------------------------------
(***************************************************************************)
(* Counters, registers, operands and reports.                              *)
(***************************************************************************)
LEMMA AdvanceCounted ==
    ASSUME NEW p \in Programs, NEW n, NEW s \in CountedState(p, n), NEW t \in ThreadId,
           s.pc[t] < Len(p[t])
    PROVE  /\ advance_pc(p, s, t) \in CountedState(p, n)
           /\ [s.pc EXCEPT ![t] = normalize_pc(p, t, @ + 1)] \in Counters(p)
<1>1. s.pc \in Counters(p) /\ s.pc[t] \in Nat /\ Len(p[t]) \in Nat
  BY ActionType DEF CountedState, Counters
<1>2. s.pc[t] + 1 \in 0 .. Len(p[t])
  BY <1>1
<1>3. normalize_pc(p, t, s.pc[t] + 1) \in Nat
  BY <1>2, NormalizeType, ActionType
<1>4. [s.pc EXCEPT ![t] = normalize_pc(p, t, @ + 1)] \in Counters(p)
  BY <1>1, <1>2, <1>3 DEF Counters
<1> QED BY <1>4 DEF advance_pc, CountedState

\* write_register keeps the registers in range.
LEMMA WriteRegisterCounted ==
    ASSUME NEW p, NEW n, NEW s \in CountedState(p, n), NEW t \in ThreadId, NEW r,
           NEW v \in Value
    PROVE  write_register(s, t, r, v) \in CountedState(p, n)
<1>1. [s.registers EXCEPT ![t][r] = v] \in [ThreadId -> [Register -> Value]]
  BY DEF CountedState
<1> QED BY <1>1 DEF write_register, CountedState

\* An operand evaluates to a value.
LEMMA OperandValue ==
    ASSUME NEW p, NEW n, NEW s \in CountedState(p, n), NEW t \in ThreadId,
           NEW operand \in ValueOperand, NEW default \in Value
    PROVE  evaluate_operand_or(s, t, operand, default) \in Value
<1>1. s.registers[t] \in [Register -> Value]
  BY DEF CountedState
<1>2. CASE operand \in ImmediateOperand
  BY <1>2 DEF evaluate_operand_or, ImmediateOperand
<1>3. CASE operand \in RegisterOperand
  BY <1>1, <1>3 DEF evaluate_operand_or, RegisterOperand, read_register
<1>4. CASE operand = NoOperand
  BY <1>4 DEF evaluate_operand_or, NoOperand
<1> QED BY <1>2, <1>3, <1>4 DEF ValueOperand

\* A step without a report.
LEMMA DoneOutcome ==
    ASSUME NEW p, NEW n, NEW s \in CountedState(p, n)
    PROVE  Done(s) \in StepOutcome(p, n)
BY DEF Done, StepOutcome, NoReport, StepReport, OptThread

\* A step that reports a modeled error.
LEMMA ErrorOutcome ==
    ASSUME NEW p, NEW n, NEW s \in CountedState(p, n), NEW step \in ScheduleStep,
           NEW message \in ErrorMessage
    PROVE  ModelError(s, step, message) \in StepOutcome(p, n)
<1>1. [NoReport EXCEPT !.error = {[endpoint |-> step, message |-> message]}] \in StepReport
  BY DEF NoReport, StepReport, OptThread, ModelErrorReport
<1> QED BY <1>1 DEF ModelError, StepOutcome

-----------------------------------------------------------------------------
(***************************************************************************)
(* Memory.                                                                 *)
(***************************************************************************)
LEMMA AccessCounted ==
    ASSUME NEW p, NEW n, NEW s \in CountedState(p, n), NEW step \in ScheduleStep,
           NEW b \in BOOLEAN, NEW c \in BOOLEAN
    PROVE  /\ Access(s, step, b, c) \in AccessBelow(n)
           /\ Access(s, step, b, c).is_atomic = b /\ Access(s, step, b, c).is_write = c
           /\ Access(s, step, b, c).clock = s.thread_clock[step.thread]
           /\ Access(s, step, b, c).endpoint = step
BY DEF Access, AccessBelow, CountedState, CountedClocks, ScheduleStep

\* Whatever earlier access is reported, the report is about this address.
LEMMA RaceReportType ==
    ASSUME NEW n, NEW x \in Addresses, NEW priors \in SUBSET AccessBelow(n),
           NEW current \in AccessBelow(n)
    PROVE  make_race_report(x, priors, current) \in SUBSET RaceReport
BY DEF make_race_report, RaceReport, AccessBelow

\* What the record operators look for in an address history is recorded there.
LEMMA PriorsType ==
    ASSUME NEW n, NEW m \in AddressBelow(n), NEW current
    PROVE  /\ ReadPrior(m, current) \in SUBSET AccessBelow(n)
           /\ WritePrior(m, current) \in SUBSET AccessBelow(n)
           /\ AtomicPrior(m, current) \in SUBSET AccessBelow(n)
<1>1. \A h \in Seq(AccessBelow(n)) : UnorderedConflict(h, current) \in SUBSET AccessBelow(n)
  BY DEF UnorderedConflict
<1>2. UnorderedWrite(m, current) \in SUBSET AccessBelow(n)
  BY DEF UnorderedWrite, AddressBelow, AddressParts
<1>3. UnorderedRead(m, current) \in SUBSET AccessBelow(n)
  BY DEF UnorderedRead, AddressBelow, AddressParts
<1>4. /\ UnorderedConflict(m.atomic_accesses, current) \in SUBSET AccessBelow(n)
      /\ UnorderedConflict(m.plain_accesses, current) \in SUBSET AccessBelow(n)
  BY <1>1 DEF AddressBelow, AddressParts
<1> QED BY <1>2, <1>3, <1>4 DEF ReadPrior, WritePrior, AtomicPrior, FirstNonempty

\* A step that may report a race.
LEMMA RaceOutcome ==
    ASSUME NEW p, NEW n, NEW s \in CountedState(p, n), NEW race \in SUBSET RaceReport
    PROVE  DoneWithRace(s, race) \in StepOutcome(p, n)
<1>1. [NoReport EXCEPT !.race = race] \in StepReport
  BY DEF NoReport, StepReport, OptThread
<1> QED BY <1>1 DEF DoneWithRace, StepOutcome

\* What a history holds after one more access.
LEMMA AppendHistory ==
    ASSUME NEW S, NEW h \in Seq(S), NEW e \in S
    PROVE  /\ Append(h, e) \in Seq(S)
           /\ {Append(h, e)[i] : i \in DOMAIN Append(h, e)} = {h[i] : i \in DOMAIN h} \cup {e}
<1>1. Append(h, e) \in Seq(S) /\ Len(Append(h, e)) = Len(h) + 1 /\ Len(h) \in Nat
  OBVIOUS
<1>2. DOMAIN Append(h, e) = DOMAIN h \cup {Len(h) + 1}
  BY <1>1
<1>3. Append(h, e)[Len(h) + 1] = e /\ \A i \in DOMAIN h : Append(h, e)[i] = h[i]
  OBVIOUS
<1> QED BY <1>1, <1>2, <1>3

\* The three ways an address state records an access.
WithRead(m, e) ==
    [m EXCEPT !.reads_since_last_write = KeepFirst(@, e), !.plain_accesses = Append(@, e)]
WithWrite(m, e) ==
    [m EXCEPT !.last_write = {e}, !.reads_since_last_write = {},
              !.plain_accesses = Append(@, e)]
WithAtomic(m, e) == [m EXCEPT !.atomic_accesses = Append(@, e)]

\* They add the access to the history and keep it recorded.
LEMMA HistoryGrows ==
    ASSUME NEW n, NEW m \in AddressBelow(n), NEW e \in AccessBelow(n)
    PROVE  /\ ~e.is_atomic =>
                 /\ WithRead(m, e) \in AddressBelow(n)
                 /\ HistoryOf(WithRead(m, e)) = HistoryOf(m) \cup {e}
           /\ ~e.is_atomic /\ e.is_write =>
                 /\ WithWrite(m, e) \in AddressBelow(n)
                 /\ HistoryOf(WithWrite(m, e)) = HistoryOf(m) \cup {e}
           /\ WithAtomic(m, e) \in AddressBelow(n)
           /\ HistoryOf(WithAtomic(m, e)) = HistoryOf(m) \cup {e}
<1> DEFINE plain == Append(m.plain_accesses, e)
           atomic == Append(m.atomic_accesses, e)
           reads == KeepFirst(m.reads_since_last_write, e)
           Past(h) == {h[i] : i \in DOMAIN h}
<1>1. m \in AddressParts(n) /\ Recorded(m)
  BY DEF AddressBelow
<1>2. m.plain_accesses \in Seq(AccessBelow(n)) /\ m.atomic_accesses \in Seq(AccessBelow(n))
  BY <1>1 DEF AddressParts
<1>3. /\ plain \in Seq(AccessBelow(n)) /\ Past(plain) = Past(m.plain_accesses) \cup {e}
      /\ atomic \in Seq(AccessBelow(n)) /\ Past(atomic) = Past(m.atomic_accesses) \cup {e}
  <2>1. \A h \in Seq(AccessBelow(n)) : Append(h, e) \in Seq(AccessBelow(n))
    BY AppendHistory
  <2>2. \A h \in Seq(AccessBelow(n)) : Past(Append(h, e)) = Past(h) \cup {e}
    BY AppendHistory
  <2> QED BY <1>2, <2>1, <2>2
<1>4. /\ reads \in SUBSET AccessBelow(n)
      /\ reads \subseteq m.reads_since_last_write \cup {e}
  BY <1>1 DEF AddressParts, KeepFirst
<1>5. /\ HistoryOf(m) = Past(m.plain_accesses) \cup Past(m.atomic_accesses)
      /\ m.last_write \cup m.reads_since_last_write \subseteq HistoryOf(m)
      /\ \A f \in m.last_write : f.is_write
      /\ \A f \in Past(m.plain_accesses) : ~f.is_atomic
  BY <1>1 DEF HistoryOf, Recorded
<1> HIDE DEF plain, atomic, reads, Past
<1>6. ASSUME NEW q \in AddressParts(n)
      PROVE  /\ HistoryOf(q) = Past(q.plain_accesses) \cup Past(q.atomic_accesses)
             /\ Recorded(q) <=>
                   /\ q.last_write \cup q.reads_since_last_write \subseteq HistoryOf(q)
                   /\ \A f \in q.last_write : f.is_write
                   /\ \A f \in Past(q.plain_accesses) : ~f.is_atomic
  BY DEF HistoryOf, Recorded, Past
<1>7. ASSUME ~e.is_atomic
      PROVE  /\ WithRead(m, e) \in AddressBelow(n)
             /\ HistoryOf(WithRead(m, e)) = HistoryOf(m) \cup {e}
  <2> DEFINE q == WithRead(m, e)
  <2>1. /\ q \in AddressParts(n) /\ q.last_write = m.last_write
        /\ q.reads_since_last_write = reads /\ q.plain_accesses = plain
        /\ q.atomic_accesses = m.atomic_accesses
    BY <1>1, <1>3, <1>4 DEF WithRead, AddressParts, plain, reads
  <2> HIDE DEF q
  <2>2. HistoryOf(q) = HistoryOf(m) \cup {e}
    BY <1>3, <1>5, <1>6, <2>1
  <2>3. Recorded(q)
    BY <1>3, <1>4, <1>5, <1>6, <1>7, <2>1, <2>2
  <2> QED BY <2>1, <2>2, <2>3 DEF AddressBelow, q
<1>8. ASSUME ~e.is_atomic, e.is_write
      PROVE  /\ WithWrite(m, e) \in AddressBelow(n)
             /\ HistoryOf(WithWrite(m, e)) = HistoryOf(m) \cup {e}
  <2> DEFINE q == WithWrite(m, e)
  <2>1. /\ q \in AddressParts(n) /\ q.last_write = {e}
        /\ q.reads_since_last_write = {} /\ q.plain_accesses = plain
        /\ q.atomic_accesses = m.atomic_accesses
    BY <1>1, <1>3 DEF WithWrite, AddressParts, plain
  <2> HIDE DEF q
  <2>2. HistoryOf(q) = HistoryOf(m) \cup {e}
    BY <1>3, <1>5, <1>6, <2>1
  <2>3. Recorded(q)
    BY <1>3, <1>5, <1>6, <1>8, <2>1, <2>2
  <2> QED BY <2>1, <2>2, <2>3 DEF AddressBelow, q
<1>9. /\ WithAtomic(m, e) \in AddressBelow(n)
      /\ HistoryOf(WithAtomic(m, e)) = HistoryOf(m) \cup {e}
  <2> DEFINE q == WithAtomic(m, e)
  <2>1. /\ q \in AddressParts(n) /\ q.last_write = m.last_write
        /\ q.reads_since_last_write = m.reads_since_last_write
        /\ q.plain_accesses = m.plain_accesses /\ q.atomic_accesses = atomic
    BY <1>1, <1>3 DEF WithAtomic, AddressParts, atomic
  <2> HIDE DEF q
  <2>2. HistoryOf(q) = HistoryOf(m) \cup {e}
    BY <1>3, <1>5, <1>6, <2>1
  <2>3. Recorded(q)
    BY <1>5, <1>6, <2>1, <2>2
  <2> QED BY <2>1, <2>2, <2>3 DEF AddressBelow, q
<1> QED BY <1>7, <1>8, <1>9

\* record_read, record_write and record_atomic.
LEMMA RecordCounted ==
    ASSUME NEW p, NEW n, NEW s \in CountedState(p, n), NEW x \in Addresses,
           NEW current \in AccessBelow(n)
    PROVE  /\ ~current.is_atomic => record_read(s, x, current) \in StepOutcome(p, n)
           /\ ~current.is_atomic /\ current.is_write =>
                 record_write(s, x, current) \in StepOutcome(p, n)
           /\ record_atomic(s, x, current) \in StepOutcome(p, n)
<1> DEFINE m == s.memory[x]
           read == WithRead(m, current)
           written == WithWrite(m, current)
           atomic == WithAtomic(m, current)
<1>1. m \in AddressBelow(n)
  BY DEF CountedState
<1> HIDE DEF m
<1>2. /\ ~current.is_atomic => read \in AddressBelow(n)
      /\ ~current.is_atomic /\ current.is_write => written \in AddressBelow(n)
      /\ atomic \in AddressBelow(n)
  BY <1>1, HistoryGrows
<1>3. /\ make_race_report(x, ReadPrior(m, current), current) \in SUBSET RaceReport
      /\ make_race_report(x, WritePrior(m, current), current) \in SUBSET RaceReport
      /\ make_race_report(x, AtomicPrior(m, current), current) \in SUBSET RaceReport
  BY <1>1, PriorsType, RaceReportType
<1> HIDE DEF read, written, atomic
<1>4. \A r \in AddressBelow(n) : [s EXCEPT !.memory[x] = r] \in CountedState(p, n)
  BY DEF CountedState
<1>5. /\ record_read(s, x, current) =
            DoneWithRace([s EXCEPT !.memory[x] = read],
                         make_race_report(x, ReadPrior(m, current), current))
      /\ record_write(s, x, current) =
            DoneWithRace([s EXCEPT !.memory[x] = written],
                         make_race_report(x, WritePrior(m, current), current))
      /\ record_atomic(s, x, current) =
            DoneWithRace([s EXCEPT !.memory[x] = atomic],
                         make_race_report(x, AtomicPrior(m, current), current))
  BY Zenon DEF record_read, record_write, record_atomic, read, written, atomic, m,
     WithRead, WithWrite, WithAtomic
<1> QED BY <1>2, <1>3, <1>4, <1>5, RaceOutcome

\* An element of a sequence belongs to the set the sequence is over.
LEMMA SeqElement ==
    ASSUME NEW S, NEW q \in Seq(S), NEW i \in DOMAIN q
    PROVE  q[i] \in S
OBVIOUS

\* A plain read gives a value, of memory or of the thread's own buffer.
LEMMA PlainValueType ==
    ASSUME NEW p, NEW n, NEW s \in CountedState(p, n), NEW t \in ThreadId,
           NEW x \in Addresses
    PROVE  read_plain_value(s, t, x) \in Value
<1> DEFINE buffer == s.store_buffers[t]
           fifo == s.pso_store_buffers[t][x]
           own == {i \in DOMAIN buffer : buffer[i].address = x}
<1>1. buffer \in Seq(StoreBufferEntry) /\ fifo \in Seq(Value) /\ s.memory_values[x] \in Value
  BY DEF CountedState
<1>2. ASSUME own # {} PROVE buffer[Max(own)].value \in Value
  <2>1. own \in SUBSET (0 .. Len(buffer)) /\ Len(buffer) \in Nat
    BY <1>1
  <2>2. Max(own) \in own
    BY <1>2, <2>1, GreatestNatural
  <2>3. Max(own) \in DOMAIN buffer
    BY <2>2
  <2>4. buffer[Max(own)] \in StoreBufferEntry
    BY <1>1, <2>3, SeqElement
  <2> QED BY <2>4 DEF StoreBufferEntry
<1>3. ASSUME fifo # <<>> PROVE fifo[Len(fifo)] \in Value
  BY <1>1, <1>3
<1> HIDE DEF buffer, fifo, own
<1> QED BY <1>1, <1>2, <1>3 DEF read_plain_value, buffer, fifo, own

\* An atomic read joins the clock of its location.
LEMMA AcquireLocationCounted ==
    ASSUME NEW p, NEW n \in Counts, NEW s \in CountedState(p, n), NEW t \in ThreadId,
           NEW x \in Addresses
    PROVE  AcquireLocation(s, t, x) \in CountedState(p, n)
<1>1. s.thread_clock \in CountedClocks(n) /\ s.atomic_location_clock[x] \in Below(n)
  BY DEF CountedState
<1>2. [s.thread_clock EXCEPT ![t] = Join(@, s.atomic_location_clock[x])] \in CountedClocks(n)
  BY <1>1, JoinCounted
<1> QED BY <1>2 DEF AcquireLocation, CountedState

\* An atomic write publishes its thread's clock at its location.
LEMMA ReleaseLocationCounted ==
    ASSUME NEW p, NEW n, NEW s \in CountedState(p, n), NEW t \in ThreadId,
           NEW x \in Addresses
    PROVE  ReleaseLocation(s, t, x) \in CountedState(p, n)
<1>1. s.thread_clock[t] \in Below(n)
  BY DEF CountedState, CountedClocks
<1>2. [s.atomic_location_clock EXCEPT ![x] = s.thread_clock[t]] \in [Addresses -> Below(n)]
  BY <1>1 DEF CountedState
<1> QED BY <1>2 DEF ReleaseLocation, CountedState

\* A store to memory keeps the values in range.
LEMMA StoreValueCounted ==
    ASSUME NEW p, NEW n, NEW s \in CountedState(p, n), NEW x, NEW v \in Value
    PROVE  [s EXCEPT !.memory_values[x] = v] \in CountedState(p, n)
<1>1. [s.memory_values EXCEPT ![x] = v] \in [Addresses -> Value]
  BY DEF CountedState
<1> QED BY <1>1 DEF CountedState

\* Reads and writes; a buffered write only extends its thread's buffer.
LEMMA PlainEffects ==
    ASSUME NEW p, NEW n \in Counts, NEW s \in CountedState(p, n), NEW step \in ScheduleStep,
           NEW a \in MemoryActions, a.address \in Addresses
    PROVE  /\ ReadEffect(s, step, a) \in StepOutcome(p, n)
           /\ WriteEffect(s, step, a) \in StepOutcome(p, n)
<1> DEFINE t == step.thread
           x == a.address
           v == evaluate_operand_or(s, t, a.value, 0)
           r == write_register(s, t, a.destination, read_plain_value(s, t, x))
           w == [s EXCEPT !.memory_values[x] = v]
<1>1. t \in ThreadId /\ a.value \in ValueOperand
  BY DEF ScheduleStep, MemoryActions
<1>2. v \in Value
  BY <1>1, OperandValue, SmallValues
<1>3. r \in CountedState(p, n)
  BY <1>1, PlainValueType, WriteRegisterCounted
<1>4. w \in CountedState(p, n)
  BY <1>2, StoreValueCounted
<1> HIDE DEF r, v, w
<1>5. record_read(r, x, Access(r, step, FALSE, FALSE)) \in StepOutcome(p, n)
  BY <1>3, AccessCounted, RecordCounted
<1>6. record_write(w, x, Access(w, step, FALSE, TRUE)) \in StepOutcome(p, n)
  BY <1>4, AccessCounted, RecordCounted
<1>7. [s EXCEPT !.store_buffers[t] = Append(@, [address |-> x, value |-> v])]
        \in CountedState(p, n)
  <2>1. Append(s.store_buffers[t], [address |-> x, value |-> v]) \in Seq(StoreBufferEntry)
    <3>1. [address |-> x, value |-> v] \in StoreBufferEntry
      BY <1>2 DEF StoreBufferEntry
    <3>2. s.store_buffers[t] \in Seq(StoreBufferEntry)
      BY <1>1 DEF CountedState
    <3> QED BY <3>1, <3>2
  <2> QED BY <2>1 DEF CountedState
<1>8. [s EXCEPT !.pso_store_buffers[t][x] = Append(@, v)] \in CountedState(p, n)
  <2>1. Append(s.pso_store_buffers[t][x], v) \in Seq(Value)
    BY <1>1, <1>2 DEF CountedState
  <2> HIDE DEF t, x
  <2> QED BY <2>1 DEF CountedState
<1>9. s.memory_model \in MemoryModel
  BY DEF CountedState
<1>10. ReadEffect(s, step, a) \in StepOutcome(p, n)
  BY <1>5 DEF ReadEffect, r
<1>11. WriteEffect(s, step, a) \in StepOutcome(p, n)
  BY <1>6, <1>7, <1>8, <1>9, DoneOutcome DEF WriteEffect, MemoryModel, v, w
<1> QED BY <1>10, <1>11

\* A flush pops a buffer that is not empty.
LEMMA FlushCounted ==
    ASSUME NEW p, NEW n \in Counts, NEW s \in CountedState(p, n), NEW step \in ScheduleStep,
           NEW x \in Addresses,
           \/ s.memory_model = "TSO" /\ s.store_buffers[step.thread] # <<>>
           \/ s.memory_model = "PSO" /\ s.pso_store_buffers[step.thread][x] # <<>>
    PROVE  FlushEffect(s, step, FlushAction(x)) \in StepOutcome(p, n)
<1> DEFINE t == step.thread
           buffer == s.store_buffers[t]
           fifo == s.pso_store_buffers[t][x]
<1>1. t \in ThreadId
  BY DEF ScheduleStep
<1>2. buffer \in Seq(StoreBufferEntry) /\ fifo \in Seq(Value)
  BY <1>1 DEF CountedState
<1>3. ASSUME NEW r \in CountedState(p, n)
      PROVE  record_write(r, x, Access(r, step, FALSE, TRUE)) \in StepOutcome(p, n)
  BY AccessCounted, RecordCounted
<1>4. FlushAction(x).address = x
  BY DEF FlushAction
<1>5. CASE s.memory_model = "TSO" /\ buffer # <<>>
  <2> DEFINE w == [s EXCEPT !.memory_values[x] = Head(buffer).value]
             r == [w EXCEPT !.store_buffers[t] = Tail(buffer)]
  <2>1. Head(buffer) \in StoreBufferEntry /\ Tail(buffer) \in Seq(StoreBufferEntry)
    <3> HIDE DEF buffer
    <3> QED BY <1>2, <1>5
  <2>2. w \in CountedState(p, n)
    BY <2>1, StoreValueCounted DEF StoreBufferEntry
  <2>3. r \in CountedState(p, n)
    <3> HIDE DEF w, buffer
    <3> QED BY <2>1, <2>2 DEF CountedState
  <2>4. r = [s EXCEPT !.memory_values[x] = Head(s.store_buffers[t]).value,
                      !.store_buffers[t] = Tail(@)]
    BY DEF CountedState
  <2> HIDE DEF r
  <2> QED BY <1>3, <1>4, <1>5, <2>3, <2>4 DEF FlushEffect
<1>6. CASE s.memory_model = "PSO" /\ fifo # <<>>
  <2> DEFINE w == [s EXCEPT !.memory_values[x] = Head(fifo)]
             r == [w EXCEPT !.pso_store_buffers[t][x] = Tail(fifo)]
  <2>1. Head(fifo) \in Value /\ Tail(fifo) \in Seq(Value)
    <3> HIDE DEF fifo
    <3> QED BY <1>2, <1>6
  <2>2. w \in CountedState(p, n)
    BY <2>1, StoreValueCounted
  <2>3. r \in CountedState(p, n)
    <3> HIDE DEF w, fifo
    <3> QED BY <2>1, <2>2 DEF CountedState
  <2>4. r = [s EXCEPT !.memory_values[x] = Head(s.pso_store_buffers[t][x]),
                      !.pso_store_buffers[t][x] = Tail(@)]
    BY DEF CountedState
  <2> HIDE DEF r
  <2> QED BY <1>3, <1>4, <1>6, <2>3, <2>4 DEF FlushEffect
<1> QED BY <1>5, <1>6

\* The atomic accesses that acquire, given the state they have acquired into.
LEMMA AcquiringEffects ==
    ASSUME NEW p, NEW m, NEW s \in CountedState(p, m), NEW n, NEW step \in ScheduleStep,
           NEW a \in MemoryActions, a.address \in Addresses,
           AcquireLocation(s, step.thread, a.address) \in CountedState(p, n)
    PROVE  /\ AtomicLoadEffect(s, step, a) \in StepOutcome(p, n)
           /\ AtomicRmwEffect(s, step, a) \in StepOutcome(p, n)
           /\ CompareExchangeEffect(s, step, a) \in StepOutcome(p, n)
<1> DEFINE t == step.thread
           x == a.address
           old == s.memory_values[x]
           stored == evaluate_operand_or(s, t, a.value, 0)
           addend == evaluate_operand_or(s, t, a.value, 1)
           success == old = evaluate_operand_or(s, t, a.expected, 0)
           Acquired(v) == write_register(AcquireLocation(s, t, x), t, a.destination, v)
           Released(r, v) == ReleaseLocation([r EXCEPT !.memory_values[x] = v], t, x)
<1>1. t \in ThreadId /\ a.value \in ValueOperand /\ a.expected \in ValueOperand
  BY DEF ScheduleStep, MemoryActions
<1>2. old \in Value /\ stored \in Value /\ addend \in Value
  BY <1>1, OperandValue, SmallValues DEF CountedState
<1>3. AddWrap(old, addend) \in Value
  BY <1>2, AddWrapType
<1>4. ASSUME NEW v \in Value PROVE Acquired(v) \in CountedState(p, n)
  BY <1>1, WriteRegisterCounted
<1>5. ASSUME NEW r \in CountedState(p, n), NEW v \in Value
      PROVE  Released(r, v) \in CountedState(p, n)
  BY <1>1, StoreValueCounted, ReleaseLocationCounted
<1>6. ASSUME NEW r \in CountedState(p, n), NEW w \in BOOLEAN
      PROVE  record_atomic(r, x, Access(r, step, TRUE, w)) \in StepOutcome(p, n)
  BY AccessCounted, RecordCounted
<1>7. AtomicLoadEffect(s, step, a) \in StepOutcome(p, n)
  BY <1>2, <1>4, <1>6 DEF AtomicLoadEffect
<1>8. AtomicRmwEffect(s, step, a) \in StepOutcome(p, n)
  <2> DEFINE r == Released(Acquired(old), AddWrap(old, addend))
  <2>1. r \in CountedState(p, n)
    BY <1>2, <1>3, <1>4, <1>5
  <2>2. record_atomic(r, x, Access(r, step, TRUE, TRUE)) \in StepOutcome(p, n)
    BY <1>6, <2>1
  <2> QED BY <2>2 DEF AtomicRmwEffect
<1>9. CompareExchangeEffect(s, step, a) \in StepOutcome(p, n)
  <2> DEFINE acquired == Acquired(IF success THEN 1 ELSE 0)
             r == IF success THEN Released(acquired, stored) ELSE acquired
  <2>1. acquired \in CountedState(p, n)
    BY <1>4, SmallValues
  <2>2. r \in CountedState(p, n)
    BY <1>2, <1>5, <2>1
  <2>3. record_atomic(r, x, Access(r, step, TRUE, success)) \in StepOutcome(p, n)
    BY <1>6, <2>2
  <2> QED BY <2>3 DEF CompareExchangeEffect
<1> QED BY <1>7, <1>8, <1>9

\* The four atomic accesses.
LEMMA AtomicEffects ==
    ASSUME NEW p, NEW n \in Counts, NEW s \in CountedState(p, n), NEW step \in ScheduleStep,
           NEW a \in MemoryActions, a.address \in Addresses
    PROVE  /\ AtomicLoadEffect(s, step, a) \in StepOutcome(p, n)
           /\ AtomicStoreEffect(s, step, a) \in StepOutcome(p, n)
           /\ AtomicRmwEffect(s, step, a) \in StepOutcome(p, n)
           /\ CompareExchangeEffect(s, step, a) \in StepOutcome(p, n)
<1> DEFINE t == step.thread
           x == a.address
           v == evaluate_operand_or(s, t, a.value, 0)
           r == ReleaseLocation([s EXCEPT !.memory_values[x] = v], t, x)
<1>1. t \in ThreadId /\ a.value \in ValueOperand
  BY DEF ScheduleStep, MemoryActions
<1>2. AcquireLocation(s, t, x) \in CountedState(p, n)
  BY <1>1, AcquireLocationCounted
<1>3. v \in Value
  BY <1>1, OperandValue, SmallValues
<1>4. r \in CountedState(p, n)
  BY <1>1, <1>3, StoreValueCounted, ReleaseLocationCounted
<1>5. record_atomic(r, x, Access(r, step, TRUE, TRUE)) \in StepOutcome(p, n)
  BY <1>4, AccessCounted, RecordCounted
<1>6. AtomicStoreEffect(s, step, a) \in StepOutcome(p, n)
  BY <1>5 DEF AtomicStoreEffect
<1> QED BY <1>2, <1>6, AcquiringEffects

\* Any memory action; one without an address only advances its thread.
LEMMA MemoryCounted ==
    ASSUME NEW p \in Programs, NEW n \in Counts, NEW s \in CountedState(p, n),
           NEW step \in ScheduleStep, s.pc[step.thread] < Len(p[step.thread]),
           NEW a \in MemoryActions
    PROVE  MemoryEffect(p, s, step, a) \in StepOutcome(p, n)
<1> DEFINE r == advance_pc(p, s, step.thread)
<1>1. r \in CountedState(p, n)
  BY AdvanceCounted DEF ScheduleStep
<1> HIDE DEF r
<1>2. CASE a.address = NoAddress
  BY <1>1, <1>2, DoneOutcome DEF MemoryEffect, r
<1>3. CASE a.address # NoAddress
  <2>1. a.address \in Addresses /\ a.kind \in {"Read", "Write"} \cup AtomicKinds
    BY <1>3 DEF MemoryActions
  <2>2. /\ ReadEffect(r, step, a) \in StepOutcome(p, n)
        /\ WriteEffect(r, step, a) \in StepOutcome(p, n)
    BY <1>1, <2>1, PlainEffects
  <2>3. /\ AtomicLoadEffect(r, step, a) \in StepOutcome(p, n)
        /\ AtomicStoreEffect(r, step, a) \in StepOutcome(p, n)
        /\ AtomicRmwEffect(r, step, a) \in StepOutcome(p, n)
        /\ CompareExchangeEffect(r, step, a) \in StepOutcome(p, n)
    BY <1>1, <2>1, AtomicEffects
  <2> QED BY <1>3, <2>1, <2>2, <2>3 DEF MemoryEffect, AtomicKinds, r
<1> QED BY <1>2, <1>3

-----------------------------------------------------------------------------
(***************************************************************************)
(* Synchronisation.                                                        *)
(***************************************************************************)
LEMMA JoinThreadClock ==
    ASSUME NEW p, NEW n \in Counts, NEW s \in CountedState(p, n), NEW t \in ThreadId,
           NEW c \in Below(n)
    PROVE  [s EXCEPT !.thread_clock[t] = Join(@, c)] \in CountedState(p, n)
<1>1. [s.thread_clock EXCEPT ![t] = Join(@, c)] \in CountedClocks(n)
  BY JoinCounted DEF CountedState
<1> QED BY <1>1 DEF CountedState

\* Taking a mutex joins its clock.
LEMMA AcquireMutexCounted ==
    ASSUME NEW p, NEW n \in Counts, NEW s \in CountedState(p, n), NEW t \in ThreadId,
           NEW m \in Mutexes
    PROVE  AcquireMutex(s, t, m) \in CountedState(p, n)
<1>1. s.mutex_clock[m] \in Below(n)
  BY DEF CountedState
<1>2. [s.thread_clock EXCEPT ![t] = Join(@, s.mutex_clock[m])] \in CountedClocks(n)
  BY <1>1, JoinCounted DEF CountedState
<1> QED BY <1>2 DEF AcquireMutex, CountedState, OptThread

\* Releasing a mutex publishes the releasing thread's clock.
LEMMA ReleaseMutexCounted ==
    ASSUME NEW p, NEW n, NEW s \in CountedState(p, n), NEW t \in ThreadId, NEW m \in Mutexes
    PROVE  ReleaseMutex(s, t, m) \in CountedState(p, n)
<1>1. s.thread_clock[t] \in Below(n)
  BY DEF CountedState, CountedClocks
<1> QED BY <1>1 DEF ReleaseMutex, CountedState, OptThread

\* Lock, TryLock and Unlock.
LEMMA MutexCounted ==
    ASSUME NEW p \in Programs, NEW n \in Counts, NEW s \in CountedState(p, n),
           NEW step \in ScheduleStep, s.pc[step.thread] < Len(p[step.thread]),
           NEW a \in LockActions
    PROVE  MutexEffect(p, s, step, a) \in StepOutcome(p, n)
<1> DEFINE t == step.thread
           r == advance_pc(p, s, t)
           Tried(v) == write_register(r, t, RegisterOr0(a.destination), v)
<1>1. t \in ThreadId /\ a.mutex \in Mutexes /\ a.kind \in MutexKinds
  BY DEF ScheduleStep, LockActions
<1>2. r \in CountedState(p, n)
  BY <1>1, AdvanceCounted
<1> HIDE DEF r
<1>3. \A q \in CountedState(p, n) : /\ AcquireMutex(q, t, a.mutex) \in CountedState(p, n)
                                    /\ ReleaseMutex(q, t, a.mutex) \in CountedState(p, n)
  BY <1>1, AcquireMutexCounted, ReleaseMutexCounted
<1>4. \A v \in Value : Tried(v) \in CountedState(p, n)
  BY <1>1, <1>2, WriteRegisterCounted
<1>5. LockEffect(p, s, step, a) \in StepOutcome(p, n)
  BY <1>2, <1>3, DoneOutcome DEF LockEffect, r
<1>6. TryLockEffect(p, s, step, a) \in StepOutcome(p, n)
  <2>1. Tried(1) \in CountedState(p, n) /\ Tried(0) \in CountedState(p, n)
    BY <1>4, SmallValues
  <2> QED BY <1>3, <2>1, DoneOutcome DEF TryLockEffect, r
<1>7. UnlockEffect(p, s, step, a) \in StepOutcome(p, n)
  <2>1. ModelError(r, step, "unlock") \in StepOutcome(p, n)
    BY <1>2, ErrorOutcome DEF ErrorMessage
  <2> QED BY <1>2, <1>3, <2>1, DoneOutcome DEF UnlockEffect, r
<1> QED BY <1>1, <1>5, <1>6, <1>7 DEF MutexEffect, MutexKinds

\* The three phases of a wait: park, time out, reacquire.
LEMMA WaitCounted ==
    ASSUME NEW p \in Programs, NEW n \in Counts, NEW s \in CountedState(p, n),
           NEW step \in ScheduleStep, s.pc[step.thread] < Len(p[step.thread]),
           NEW a \in WaitActions, s.wait_phase[step.thread] = "Waiting" => a.kind = "TimedWait"
    PROVE  WaitEffect(p, s, step, a) \in StepOutcome(p, n)
<1> DEFINE t == step.thread
<1>1. t \in ThreadId /\ a.mutex \in Mutexes /\ a.condition \in Conditions
  BY DEF ScheduleStep, WaitActions
<1>2. s.wait_phase[t] \in WaitPhase
  BY <1>1 DEF CountedState
<1>3. ParkEffect(p, s, step, a) \in StepOutcome(p, n)
  <2> DEFINE r == ReleaseMutex(s, t, a.mutex)
  <2>1. r \in CountedState(p, n)
    BY <1>1, ReleaseMutexCounted
  <2> HIDE DEF r
  <2>2. [r EXCEPT !.condition_waiters[a.condition] = @ \cup {t}, !.wait_phase[t] = "Waiting"]
          \in CountedState(p, n)
    <3>1. [r.condition_waiters EXCEPT ![a.condition] = @ \cup {t}]
             \in [Conditions -> SUBSET ThreadId]
      BY <1>1, <2>1 DEF CountedState
    <3>2. [r.wait_phase EXCEPT ![t] = "Waiting"] \in [ThreadId -> WaitPhase]
      BY <2>1 DEF CountedState, WaitPhase
    <3> QED BY <2>1, <3>1, <3>2 DEF CountedState
  <2>3. ModelError(advance_pc(p, s, t), step, "wait") \in StepOutcome(p, n)
    BY <1>1, AdvanceCounted, ErrorOutcome DEF ErrorMessage
  <2> QED BY <2>2, <2>3, DoneOutcome DEF ParkEffect, r
<1>4. TimeoutEffect(s, step, a) \in StepOutcome(p, n)
  <2> DEFINE r == write_register(s, t, RegisterOr0(a.destination), 0)
  <2>1. r \in CountedState(p, n)
    BY <1>1, WriteRegisterCounted, SmallValues
  <2> HIDE DEF r
  <2>2. [r EXCEPT !.condition_waiters[a.condition] = @ \ {t}, !.wait_phase[t] = "Woken"]
          \in CountedState(p, n)
    BY <1>1, <2>1 DEF CountedState, WaitPhase
  <2> QED BY <2>2, DoneOutcome DEF TimeoutEffect, r
<1>5. ReacquireEffect(p, s, step, a) \in StepOutcome(p, n)
  <2> DEFINE r == AcquireMutex(s, t, a.mutex)
             q == [r EXCEPT !.wait_phase[t] = "None"]
  <2>0. r \in CountedState(p, n)
    BY <1>1, AcquireMutexCounted
  <2>1. r.pc = s.pc
    BY DEF AcquireMutex, CountedState
  <2> HIDE DEF r
  <2>2. q \in CountedState(p, n) /\ q.pc = s.pc
    BY <1>1, <2>0, <2>1 DEF CountedState, WaitPhase
  <2> HIDE DEF q
  <2>3. advance_pc(p, q, t) \in CountedState(p, n)
    BY <1>1, <2>2, AdvanceCounted
  <2> QED BY <2>3, DoneOutcome DEF ReacquireEffect, q, r
<1> QED BY <1>2, <1>3, <1>4, <1>5 DEF WaitEffect, WaitPhase

\* Woken waiters join the notifier's clock, which is bounded like their own.
LEMMA WakeCounted ==
    ASSUME NEW p, NEW n \in Counts, NEW s \in CountedState(p, n), NEW t \in ThreadId,
           NEW c \in Conditions, NEW woken \in SUBSET ThreadId
    PROVE  Wake(p, s, t, c, woken) \in CountedState(p, n)
<1> DEFINE phases == [u \in ThreadId |-> IF u \in woken THEN "Woken" ELSE s.wait_phase[u]]
           clocks == [u \in ThreadId |-> IF u \in woken
                                         THEN Join(s.thread_clock[u], s.thread_clock[t])
                                         ELSE s.thread_clock[u]]
           registers == [u \in ThreadId |->
                           IF u \in woken /\ next_action(p, s, u).kind = "TimedWait"
                           THEN [s.registers[u] EXCEPT ![WakeResult(p, s, u)] = 1]
                           ELSE s.registers[u]]
           r == [s EXCEPT !.condition_waiters[c] = @ \ woken, !.wait_phase = phases,
                          !.thread_clock = clocks, !.registers = registers]
<1>1. phases \in [ThreadId -> WaitPhase]
  BY DEF CountedState, WaitPhase
<1>2. clocks \in CountedClocks(n)
  <2>1. s.thread_clock \in CountedClocks(n) /\ s.thread_clock[t] \in Below(n)
    BY DEF CountedState, CountedClocks
  <2>2. ASSUME NEW u \in ThreadId
        PROVE  Join(s.thread_clock[u], s.thread_clock[t]) \in Below(n)
    BY <2>1, BelowClosed DEF CountedClocks
  <2>3. \A u \in ThreadId : Join(s.thread_clock[u], s.thread_clock[t])[u] = n.steps[u]
    BY <2>1, JoinCounted
  <2> QED BY <2>1, <2>2, <2>3 DEF CountedClocks
<1>3. registers \in [ThreadId -> [Register -> Value]]
  <2>1. \A u \in ThreadId : s.registers[u] \in [Register -> Value]
    BY DEF CountedState
  <2>2. \A f \in [Register -> Value] : \A i : [f EXCEPT ![i] = 1] \in [Register -> Value]
    BY SmallValues
  <2> QED BY <2>1, <2>2
<1> HIDE DEF phases, clocks, registers
<1>4. r \in CountedState(p, n)
  BY <1>1, <1>2, <1>3 DEF CountedState
<1> QED BY <1>4 DEF Wake, phases, clocks, registers

\* Signal and Broadcast.
LEMMA NotifyCounted ==
    ASSUME NEW p \in Programs, NEW n \in Counts, NEW s \in CountedState(p, n),
           NEW step \in ScheduleStep, s.pc[step.thread] < Len(p[step.thread]),
           NEW a \in NotifyActions
    PROVE  /\ SignalEffect(p, s, step, a) \in StepOutcome(p, n)
           /\ BroadcastEffect(p, s, step, a) \in StepOutcome(p, n)
<1>1. step.thread \in ThreadId /\ a.condition \in Conditions
  BY DEF ScheduleStep, NotifyActions
<1>2. s.condition_waiters[a.condition] \in SUBSET ThreadId
  BY <1>1 DEF CountedState
<1>3. \A woken \in SUBSET ThreadId :
        Wake(p, advance_pc(p, s, step.thread), step.thread, a.condition, woken)
          \in CountedState(p, n)
  BY <1>1, AdvanceCounted, WakeCounted
<1>4. {u \in s.condition_waiters[a.condition] :
         \A v \in s.condition_waiters[a.condition] : u <= v} \in SUBSET ThreadId
  BY <1>2
<1> QED BY <1>2, <1>3, <1>4, DoneOutcome DEF SignalEffect, BroadcastEffect

\* A lock acquisition stores a new lock state and joins a bounded clock.
LEMMA SetRwLockCounted ==
    ASSUME NEW p, NEW n, NEW s \in CountedState(p, n), NEW x, NEW l \in RwLockBelow(n)
    PROVE  [s EXCEPT !.rwlocks[x] = l] \in CountedState(p, n)
BY DEF CountedState

\* Taking a reader-writer lock joins a clock it published.
LEMMA AcquireRwLockCounted ==
    ASSUME NEW p, NEW n \in Counts, NEW s \in CountedState(p, n), NEW t \in ThreadId,
           NEW x, NEW l \in RwLockBelow(n), NEW c \in Below(n)
    PROVE  [s EXCEPT !.thread_clock[t] = Join(@, c), !.rwlocks[x] = l] \in CountedState(p, n)
<1>1. [s.thread_clock EXCEPT ![t] = Join(@, c)] \in CountedClocks(n)
  BY JoinCounted DEF CountedState
<1> QED BY <1>1 DEF CountedState

\* The six operations of a reader-writer lock.
LEMMA RwLockCounted ==
    ASSUME NEW p \in Programs, NEW n \in Counts, NEW s \in CountedState(p, n),
           NEW step \in ScheduleStep, s.pc[step.thread] < Len(p[step.thread]),
           NEW a \in RwLockActions
    PROVE  RwLockEffect(p, s, step, a) \in StepOutcome(p, n)
<1> DEFINE t == step.thread
           r == advance_pc(p, s, t)
           l == s.rwlocks[a.rwlock]
<1>1. t \in ThreadId /\ a.rwlock \in RwLocks /\ a.kind \in RwLockKinds
  BY DEF ScheduleStep, RwLockActions
<1>2. r \in CountedState(p, n)
  BY <1>1, AdvanceCounted
<1>3. l \in RwLockBelow(n) /\ s.thread_clock[t] \in Below(n)
  BY <1>1 DEF CountedState, CountedClocks
<1>4. r.rwlocks = s.rwlocks /\ r.thread_clock = s.thread_clock
  BY DEF advance_pc, CountedState
<1> HIDE DEF r, l
<1>5. /\ ModelError(r, step, "rwlock reentrancy") \in StepOutcome(p, n)
      /\ ModelError(r, step, "rwlock mode") \in StepOutcome(p, n)
  BY <1>2, ErrorOutcome DEF ErrorMessage
<1>6. RLockEffect(p, s, step, a) \in StepOutcome(p, n)
  <2>1. l.writer_release \in Below(n)
    BY <1>3 DEF RwLockBelow
  <2>2. [l EXCEPT !.reader_holders = @ \cup {t}] \in RwLockBelow(n)
    BY <1>1, <1>3 DEF RwLockBelow
  <2>3. [r EXCEPT !.thread_clock[t] = Join(@, l.writer_release),
                  !.rwlocks[a.rwlock] = [l EXCEPT !.reader_holders = @ \cup {t}]]
          \in CountedState(p, n)
    BY <1>1, <1>2, <2>1, <2>2, AcquireRwLockCounted
  <2> QED BY <1>5, <2>3, DoneOutcome DEF RLockEffect, r, l
<1>7. ASSUME NEW k \in RwLockBelow(n)
      PROVE  AcquireExclusive(r, t, a, k) \in CountedState(p, n)
  <2>1. k.writer_release \in Below(n) /\ k.reader_releases \in Below(n)
    BY DEF RwLockBelow
  <2>2. [k EXCEPT !.reader_releases = Zero, !.writer_holder = t] \in RwLockBelow(n)
    BY <1>1, BelowClosed DEF RwLockBelow, OptThread
  <2>3. [r.thread_clock EXCEPT ![t] = Join(Join(@, k.writer_release), k.reader_releases)]
          \in CountedClocks(n)
    <3> DEFINE f == [r.thread_clock EXCEPT ![t] = Join(@, k.writer_release)]
    <3>1. r.thread_clock \in CountedClocks(n)
      BY <1>2 DEF CountedState
    <3>2. f \in CountedClocks(n) /\ f[t] = Join(r.thread_clock[t], k.writer_release)
      BY <1>1, <2>1, <3>1, JoinCounted DEF CountedClocks
    <3>3. [f EXCEPT ![t] = Join(@, k.reader_releases)] \in CountedClocks(n)
      BY <1>1, <2>1, <3>2, JoinCounted
    <3>4. [f EXCEPT ![t] = Join(@, k.reader_releases)] =
            [r.thread_clock EXCEPT ![t] = Join(Join(@, k.writer_release), k.reader_releases)]
      BY <1>1, <3>1 DEF CountedClocks
    <3> QED BY <3>3, <3>4
  <2> QED BY <1>2, <2>2, <2>3 DEF AcquireExclusive, CountedState
<1>8. WLockEffect(p, s, step, a) \in StepOutcome(p, n)
  BY <1>3, <1>5, <1>7, DoneOutcome DEF WLockEffect, r, l
<1>9. UpgradeEffect(p, s, step, a) \in StepOutcome(p, n)
  <2>1. [l EXCEPT !.reader_holders = @ \ {t}] \in RwLockBelow(n)
    BY <1>3 DEF RwLockBelow
  <2> QED BY <1>5, <1>7, <2>1, DoneOutcome DEF UpgradeEffect, r, l
<1>10. RUnlockEffect(p, s, step, a) \in StepOutcome(p, n)
  <2>1. Join(l.reader_releases, s.thread_clock[t]) \in Below(n)
    BY <1>3, BelowClosed DEF RwLockBelow
  <2>2. [l EXCEPT !.reader_releases = Join(@, s.thread_clock[t]), !.reader_holders = @ \ {t}]
          \in RwLockBelow(n)
    BY <1>3, <2>1 DEF RwLockBelow
  <2>3. [r EXCEPT !.rwlocks[a.rwlock] =
            [l EXCEPT !.reader_releases = Join(@, s.thread_clock[t]), !.reader_holders = @ \ {t}]]
          \in CountedState(p, n)
    BY <1>2, <2>2, SetRwLockCounted
  <2> QED BY <1>5, <2>3, DoneOutcome DEF RUnlockEffect, r, l
<1>11. ASSUME NEW readers \in SUBSET ThreadId
       PROVE  ReleaseExclusive(r, t, a, readers) \in CountedState(p, n)
  <2>1. r.rwlocks[a.rwlock] = l /\ r.thread_clock[t] = s.thread_clock[t]
    BY <1>4 DEF l
  <2>2. [l EXCEPT !.writer_release = s.thread_clock[t], !.writer_holder = NoThread,
                  !.reader_holders = @ \cup readers] \in RwLockBelow(n)
    BY <1>3 DEF RwLockBelow, OptThread
  <2> QED BY <1>2, <2>1, <2>2, SetRwLockCounted DEF ReleaseExclusive
<1>12. WUnlockEffect(p, s, step, a) \in StepOutcome(p, n)
  BY <1>5, <1>11, DoneOutcome DEF WUnlockEffect, r
<1>13. DowngradeEffect(p, s, step, a) \in StepOutcome(p, n)
  BY <1>1, <1>5, <1>11, DoneOutcome DEF DowngradeEffect, r
<1> QED BY <1>1, <1>6, <1>8, <1>9, <1>10, <1>12, <1>13 DEF RwLockEffect, RwLockKinds

\* SemPost, and SemWait where there is a permit.
LEMMA SemaphoreCounted ==
    ASSUME NEW p \in Programs, NEW n \in Counts, NEW s \in CountedState(p, n),
           NEW step \in ScheduleStep, s.pc[step.thread] < Len(p[step.thread]),
           NEW a \in SemaphoreActions
    PROVE  /\ SemPostEffect(p, s, step, a) \in StepOutcome(p, n)
           /\ s.semaphores[a.semaphore].permits > 0 =>
                SemWaitEffect(p, s, step, a) \in StepOutcome(p, n)
<1> DEFINE t == step.thread
           r == advance_pc(p, s, t)
           q == s.semaphores[a.semaphore]
<1>1. t \in ThreadId /\ a.semaphore \in Semaphores
  BY DEF ScheduleStep, SemaphoreActions
<1>2. r \in CountedState(p, n)
  BY <1>1, AdvanceCounted
<1>3. q \in SemaphoreBelow(n) /\ s.thread_clock[t] \in Below(n)
  BY <1>1 DEF CountedState, CountedClocks
<1> HIDE DEF r, q
<1>4. ASSUME NEW k \in SemaphoreBelow(n)
      PROVE  [r EXCEPT !.semaphores[a.semaphore] = k] \in CountedState(p, n)
  BY <1>2 DEF CountedState
<1>5. SemPostEffect(p, s, step, a) \in StepOutcome(p, n)
  <2>1. Join(q.post_releases, s.thread_clock[t]) \in Below(n)
    BY <1>3, BelowClosed DEF SemaphoreBelow
  <2>2. [q EXCEPT !.permits = @ + 1, !.post_releases = Join(@, s.thread_clock[t])]
          \in SemaphoreBelow(n)
    <3>1. q.permits + 1 \in Nat
      BY <1>3 DEF SemaphoreBelow
    <3>2. \A k \in Nat, c \in Below(n) :
            [q EXCEPT !.permits = k, !.post_releases = c] \in SemaphoreBelow(n)
      BY <1>3 DEF SemaphoreBelow
    <3> QED BY <2>1, <3>1, <3>2
  <2>3. [r EXCEPT !.semaphores[a.semaphore] =
            [q EXCEPT !.permits = @ + 1, !.post_releases = Join(@, s.thread_clock[t])]]
          \in CountedState(p, n)
    BY <1>4, <2>2
  <2> QED BY <2>3, DoneOutcome DEF SemPostEffect, r, q
<1>6. ASSUME q.permits > 0 PROVE SemWaitEffect(p, s, step, a) \in StepOutcome(p, n)
  <2> DEFINE taken == [q EXCEPT !.permits = @ - 1]
  <2>1. taken \in SemaphoreBelow(n)
    BY <1>3, <1>6 DEF SemaphoreBelow
  <2>2. [r.thread_clock EXCEPT ![t] = Join(@, q.post_releases)] \in CountedClocks(n)
    BY <1>1, <1>2, <1>3, JoinCounted DEF CountedState, SemaphoreBelow
  <2> HIDE DEF taken
  <2>3. [r EXCEPT !.semaphores[a.semaphore] = taken,
                  !.thread_clock[t] = Join(@, q.post_releases)] \in CountedState(p, n)
    BY <1>2, <2>1, <2>2 DEF CountedState
  <2> QED BY <2>3, DoneOutcome DEF SemWaitEffect, r, q, taken
<1> QED BY <1>5, <1>6 DEF q

\* The last arrival advances participants that all have a next action.
LEMMA ReleaseGenerationCounted ==
    ASSUME NEW p \in Programs, NEW n \in Counts, NEW s \in CountedState(p, n),
           NEW x \in Barriers, NEW participants \in SUBSET ThreadId,
           \A u \in participants : s.pc[u] < Len(p[u]), NEW c \in Below(n)
    PROVE  ReleaseGeneration(p, s, x, participants, c) \in CountedState(p, n)
<1> DEFINE clocks == [u \in ThreadId |-> IF u \in participants THEN Join(s.thread_clock[u], c)
                                         ELSE s.thread_clock[u]]
           pcs == [u \in ThreadId |-> IF u \in participants
                                      THEN normalize_pc(p, u, s.pc[u] + 1) ELSE s.pc[u]]
           b == s.barriers[x]
           next == [b EXCEPT !.arrivals = {}, !.arrival_releases = Zero, !.generation = @ + 1]
<1>1. clocks \in CountedClocks(n)
  <2>1. s.thread_clock \in CountedClocks(n)
    BY DEF CountedState
  <2>2. \A u \in ThreadId : Join(s.thread_clock[u], c) \in Below(n)
    BY <2>1, BelowClosed DEF CountedClocks
  <2>3. \A u \in ThreadId : Join(s.thread_clock[u], c)[u] = n.steps[u]
    BY <2>1, JoinCounted
  <2> QED BY <2>1, <2>2, <2>3 DEF CountedClocks
<1>2. pcs \in Counters(p)
  <2>1. s.pc \in Counters(p) /\ \A u \in ThreadId : s.pc[u] \in Nat /\ Len(p[u]) \in Nat
    BY ActionType DEF CountedState, Counters
  <2>2. ASSUME NEW u \in participants
        PROVE  /\ s.pc[u] + 1 \in 0 .. Len(p[u])
               /\ normalize_pc(p, u, s.pc[u] + 1) \in Nat
    <3>1. s.pc[u] + 1 \in 0 .. Len(p[u])
      BY <2>1
    <3> QED BY <2>1, <3>1, NormalizeType
  <2> QED BY <2>1, <2>2 DEF Counters
<1>3. b \in BarrierBelow(n)
  BY DEF CountedState
<1> HIDE DEF clocks, pcs, b
<1>4. next \in BarrierBelow(n)
  <2>1. b.generation + 1 \in Nat /\ Zero \in Below(n)
    BY <1>3, BelowClosed DEF BarrierBelow
  <2>2. \A k \in Nat, d \in Below(n) :
          [b EXCEPT !.arrivals = {}, !.arrival_releases = d, !.generation = k]
            \in BarrierBelow(n)
    BY <1>3 DEF BarrierBelow
  <2> QED BY <2>1, <2>2
<1> HIDE DEF next
<1>5. [s EXCEPT !.thread_clock = clocks, !.pc = pcs, !.barriers[x] = next] \in CountedState(p, n)
  BY <1>1, <1>2, <1>4 DEF CountedState
<1> QED BY <1>5 DEF ReleaseGeneration, clocks, pcs, next, b

\* BarrierWait: the last arrival advances the others, which must have an action left.
LEMMA BarrierCounted ==
    ASSUME NEW p \in Programs, NEW n \in Counts, NEW s \in CountedState(p, n),
           NEW step \in ScheduleStep, s.pc[step.thread] < Len(p[step.thread]),
           NEW a \in BarrierActions,
           \A u \in s.barriers[a.barrier].arrivals : s.pc[u] < Len(p[u])
    PROVE  BarrierWaitEffect(p, s, step, a) \in StepOutcome(p, n)
<1> DEFINE t == step.thread
           b == s.barriers[a.barrier]
           arrivals == b.arrivals \cup {t}
           release_clock == Join(b.arrival_releases, s.thread_clock[t])
<1>1. t \in ThreadId /\ a.barrier \in Barriers /\ a.parties \in Nat
  BY DEF ScheduleStep, BarrierActions
<1>2. b \in BarrierBelow(n) /\ s.thread_clock[t] \in Below(n)
  BY <1>1 DEF CountedState, CountedClocks
<1>3. arrivals \in SUBSET ThreadId /\ release_clock \in Below(n)
  BY <1>1, <1>2, BelowClosed DEF BarrierBelow
<1>4. ModelError(advance_pc(p, s, t), step, "barrier") \in StepOutcome(p, n)
  BY <1>1, AdvanceCounted, ErrorOutcome DEF ErrorMessage
<1>5. Done(ReleaseGeneration(p, s, a.barrier, arrivals, release_clock)) \in StepOutcome(p, n)
  BY <1>1, <1>3, ReleaseGenerationCounted, DoneOutcome
<1> HIDE DEF b, arrivals, release_clock
<1>6. [b EXCEPT !.arrivals = arrivals, !.arrival_releases = release_clock] \in BarrierBelow(n)
  BY <1>2, <1>3 DEF BarrierBelow
<1>7. [s EXCEPT !.barriers[a.barrier] =
          [b EXCEPT !.arrivals = arrivals, !.arrival_releases = release_clock]]
        \in CountedState(p, n)
  BY <1>6 DEF CountedState
<1>8. CASE a.parties = 0 \/ a.parties # b.parties
  BY <1>4, <1>8 DEF BarrierWaitEffect, b
<1>9. CASE a.parties # 0 /\ a.parties = b.parties
  <2>0. Cardinality(arrivals) \in Nat /\ b.parties \in Nat
    <3>1. IsFiniteSet(ThreadId)
      BY SizesAssumption, FS_Interval DEF ThreadId
    <3>2. IsFiniteSet(arrivals)
      BY <1>3, <3>1, FS_Subset
    <3> QED BY <1>2, <3>2, FS_CardinalityType DEF BarrierBelow
  <2>1. CASE Cardinality(arrivals) < b.parties
    <3>1. BarrierWaitEffect(p, s, step, a) =
            Done([s EXCEPT !.barriers[a.barrier] =
                    [b EXCEPT !.arrivals = arrivals, !.arrival_releases = release_clock]])
      <4>1. ~(Cardinality(arrivals) >= b.parties)
        BY <2>1, <2>0
      <4> QED BY <1>9, <2>1, <4>1 DEF BarrierWaitEffect, b, arrivals, release_clock
    <3> QED BY <1>7, <3>1, DoneOutcome
  <2>2. CASE ~(Cardinality(arrivals) < b.parties)
    <3>2. Cardinality(arrivals) >= b.parties
      BY <2>2, <2>0
    <3>3. BarrierWaitEffect(p, s, step, a) =
            Done(ReleaseGeneration(p, s, a.barrier, arrivals, release_clock))
      BY <1>9, <2>2, <3>2 DEF BarrierWaitEffect, b, arrivals, release_clock
    <3> QED BY <1>5, <3>3
  <2> QED BY <2>1, <2>2
<1> QED BY <1>8, <1>9

\* Spawn and Join.
LEMMA ThreadCounted ==
    ASSUME NEW p \in Programs, NEW n \in Counts, NEW s \in CountedState(p, n),
           NEW step \in ScheduleStep, s.pc[step.thread] < Len(p[step.thread]),
           NEW a \in ThreadActions
    PROVE  /\ SpawnEffect(p, s, step, a) \in StepOutcome(p, n)
           /\ JoinEffect(p, s, step, a) \in StepOutcome(p, n)
<1> DEFINE t == step.thread
           r == advance_pc(p, s, t)
<1>1. t \in ThreadId
  BY DEF ScheduleStep
<1>2. r \in CountedState(p, n)
  BY <1>1, AdvanceCounted
<1> HIDE DEF r
<1>3. /\ ModelError(r, step, "spawn") \in StepOutcome(p, n)
      /\ ModelError(r, step, "join") \in StepOutcome(p, n)
  BY <1>2, ErrorOutcome DEF ErrorMessage
<1>4. \A u \in ThreadId : s.thread_clock[u] \in Below(n)
  BY DEF CountedState, CountedClocks
<1>5. ASSUME ~InvalidTarget(t, a)
      PROVE  /\ a.target \in ThreadId
             /\ [r EXCEPT !.thread_clock[t] = Join(@, s.thread_clock[a.target])]
                   \in CountedState(p, n)
             /\ [r EXCEPT !.started[a.target] = TRUE,
                          !.pc[a.target] = normalize_pc(p, a.target, @),
                          !.thread_clock[a.target] = Join(@, s.thread_clock[t])]
                   \in CountedState(p, n)
  <2> DEFINE u == a.target
  <2>1. u \in ThreadId
    BY <1>5 DEF InvalidTarget
  <2>2. [r EXCEPT !.thread_clock[t] = Join(@, s.thread_clock[u])] \in CountedState(p, n)
    BY <1>1, <1>2, <1>4, <2>1, JoinThreadClock
  <2>3. [r.thread_clock EXCEPT ![u] = Join(@, s.thread_clock[t])] \in CountedClocks(n)
    BY <1>1, <1>2, <1>4, <2>1, JoinCounted DEF CountedState
  <2>4. [r.pc EXCEPT ![u] = normalize_pc(p, u, @)] \in Counters(p)
    <3>1. r.pc \in Counters(p)
      BY <1>2 DEF CountedState
    <3>2. PICK i \in 0 .. Len(p[u]) : r.pc[u] = normalize_pc(p, u, i)
      BY <2>1, <3>1 DEF Counters
    <3>3. r.pc[u] \in 0 .. Len(p[u])
      BY <2>1, <3>2, NormalizeType, ActionType
    <3>4. normalize_pc(p, u, r.pc[u]) \in Nat
      BY <2>1, <3>3, NormalizeType, ActionType
    <3> QED BY <2>1, <3>1, <3>3, <3>4 DEF Counters
  <2>5. [r EXCEPT !.started[u] = TRUE, !.pc[u] = normalize_pc(p, u, @),
                  !.thread_clock[u] = Join(@, s.thread_clock[t])] \in CountedState(p, n)
    BY <1>2, <2>3, <2>4 DEF CountedState
  <2> QED BY <2>1, <2>2, <2>5
<1>6. JoinEffect(p, s, step, a) \in StepOutcome(p, n)
  BY <1>3, <1>5, DoneOutcome DEF JoinEffect, r
<1>7. SpawnEffect(p, s, step, a) \in StepOutcome(p, n)
  <2>1. CASE InvalidTarget(t, a) \/ s.started[a.target]
    BY <1>3, <2>1 DEF SpawnEffect, r
  <2>2. CASE ~(InvalidTarget(t, a) \/ s.started[a.target])
    <3>1. [NoReport EXCEPT !.spawned_thread = a.target] \in StepReport
      BY <1>5, <2>2 DEF NoReport, StepReport, OptThread
    <3> QED BY <1>5, <2>2, <3>1 DEF SpawnEffect, StepOutcome, r
  <2> QED BY <2>1, <2>2
<1> QED BY <1>6, <1>7

\* The actions that touch nothing but their own thread.
LEMMA LocalCounted ==
    ASSUME NEW p \in Programs, NEW n \in Counts, NEW s \in CountedState(p, n),
           NEW step \in ScheduleStep, s.pc[step.thread] < Len(p[step.thread]),
           NEW a \in Action, a.kind \in {"Set", "BranchNonzero", "Assert", "Fence", "Yield"}
    PROVE  LocalEffect(p, s, step, a) \in StepOutcome(p, n)
<1> DEFINE t == step.thread
           r == advance_pc(p, s, t)
<1>1. t \in ThreadId
  BY DEF ScheduleStep
<1>2. r \in CountedState(p, n)
  BY <1>1, AdvanceCounted
<1>3. CASE a.kind = "Set"
  <2> DEFINE w == write_register(s, t, a.destination, evaluate_operand_or(s, t, a.value, 0))
  <2>1. a.value \in ValueOperand
    BY <1>3, KindFields DEF SetActions
  <2>2. w \in CountedState(p, n)
    BY <1>1, <2>1, OperandValue, SmallValues, WriteRegisterCounted
  <2>3. w.pc = s.pc
    BY DEF write_register, CountedState
  <2> HIDE DEF w
  <2>4. advance_pc(p, w, t) \in CountedState(p, n)
    BY <1>1, <2>2, <2>3, AdvanceCounted
  <2> QED BY <1>3, <2>4, DoneOutcome DEF LocalEffect, SetEffect, w
<1> HIDE DEF r
<1>4. CASE a.kind = "BranchNonzero"
  <2> DEFINE target == resolve_label(p, t, a.label)
             i == CHOOSE j \in target : TRUE
  <2>1. ASSUME target # {}
        PROVE  [s EXCEPT !.pc[t] = normalize_pc(p, t, i)] \in CountedState(p, n)
    <3>1. i \in target
      BY <2>1
    <3>2. i \in 0 .. Len(p[t])
      BY <1>1, <3>1, ActionType DEF resolve_label
    <3>3. normalize_pc(p, t, i) \in Nat
      BY <1>1, <3>2, NormalizeType, ActionType
    <3> HIDE DEF i
    <3>4. [s.pc EXCEPT ![t] = normalize_pc(p, t, i)] \in Counters(p)
      BY <1>1, <3>2, <3>3 DEF CountedState, Counters
    <3> QED BY <3>4 DEF CountedState
  <2>2. ModelError(r, step, "branch") \in StepOutcome(p, n)
    BY <1>2, ErrorOutcome DEF ErrorMessage
  <2>3. BranchEffect(p, s, step, a) \in StepOutcome(p, n)
    BY <1>2, <2>1, <2>2, DoneOutcome DEF BranchEffect, r
  <2> QED BY <1>4, <2>3 DEF LocalEffect
<1>5. CASE a.kind = "Assert"
  <2> DEFINE reg == RegisterOr0(a.source_register)
  <2>1. reg \in Register
    BY <1>5, KindFields, SizesAssumption
       DEF AssertActions, RegisterOr0, OptRegister, Register, NoReg
  <2>2. [NoReport EXCEPT !.assertion = {[endpoint |-> step, reg |-> reg]}] \in StepReport
    BY <2>1 DEF NoReport, StepReport, OptThread, AssertionFailureReport
  <2>3. AssertEffect(p, s, step, a) \in StepOutcome(p, n)
    BY <1>2, <2>2, DoneOutcome DEF AssertEffect, StepOutcome, r
  <2> QED BY <1>5, <2>3 DEF LocalEffect
<1>6. CASE a.kind \in {"Fence", "Yield"}
  BY <1>2, <1>6, DoneOutcome DEF LocalEffect, r
<1> QED BY <1>3, <1>4, <1>5, <1>6

\* The effect of any source action that is enabled.
LEMMA SourceCounted ==
    ASSUME NEW p \in Programs, NEW n \in Counts, NEW s \in CountedState(p, n),
           NEW step \in ScheduleStep, s.pc[step.thread] < Len(p[step.thread]),
           NEW a \in Action, a.kind # "Label",
           a.kind = "Wait" => s.wait_phase[step.thread] # "Waiting",
           a.kind = "SemWait" => s.semaphores[a.semaphore].permits > 0,
           a.kind = "BarrierWait" =>
                \A u \in s.barriers[a.barrier].arrivals : s.pc[u] < Len(p[u])
    PROVE  SourceEffect(p, s, step, a) \in StepOutcome(p, n)
<1>1. CASE a.kind \in {"Read", "Write"} \cup AtomicKinds
  BY <1>1, KindFields, MemoryCounted DEF SourceEffect, AtomicKinds, MutexKinds, RwLockKinds,
     ThreadLocalKinds
<1>2. CASE a.kind \in MutexKinds
  BY <1>2, KindFields, MutexCounted DEF SourceEffect, AtomicKinds, MutexKinds, RwLockKinds,
     ThreadLocalKinds
<1>3. CASE a.kind \in RwLockKinds
  BY <1>3, KindFields, RwLockCounted DEF SourceEffect, AtomicKinds, MutexKinds, RwLockKinds,
     ThreadLocalKinds
<1>4. CASE a.kind \in {"Set", "BranchNonzero", "Assert", "Fence", "Yield"}
  <2>1. SourceEffect(p, s, step, a) = LocalEffect(p, s, step, a)
    BY <1>4 DEF SourceEffect, AtomicKinds, MutexKinds, RwLockKinds, ThreadLocalKinds
  <2> QED BY <1>4, <2>1, LocalCounted
<1>5. CASE a.kind \in WaitKinds \cup NotifyKinds \cup SemaphoreKinds \cup ThreadKinds
                        \cup {"BarrierWait"}
  <2>1. SourceEffect(p, s, step, a) = OtherSyncEffect(p, s, step, a)
    BY <1>5 DEF SourceEffect, AtomicKinds, MutexKinds, RwLockKinds, ThreadLocalKinds,
       WaitKinds, NotifyKinds, SemaphoreKinds, ThreadKinds
  <2>2. CASE a.kind \in WaitKinds
    <3>1. WaitEffect(p, s, step, a) \in StepOutcome(p, n)
      BY <2>2, KindFields, WaitCounted DEF WaitKinds
    <3> QED BY <2>1, <2>2, <3>1 DEF OtherSyncEffect, WaitKinds
  <2>3. CASE a.kind \in NotifyKinds
    BY <2>1, <2>3, KindFields, NotifyCounted DEF OtherSyncEffect, WaitKinds, NotifyKinds
  <2>4. CASE a.kind \in SemaphoreKinds
    BY <2>1, <2>4, KindFields, SemaphoreCounted DEF OtherSyncEffect, WaitKinds, SemaphoreKinds
  <2>5. CASE a.kind = "BarrierWait"
    BY <2>1, <2>5, KindFields, BarrierCounted DEF OtherSyncEffect, WaitKinds
  <2>6. CASE a.kind \in ThreadKinds
    BY <2>1, <2>6, KindFields, ThreadCounted DEF OtherSyncEffect, WaitKinds, ThreadKinds
  <2> QED BY <1>5, <2>2, <2>3, <2>4, <2>5, <2>6
<1>6. \/ a.kind \in {"Read", "Write"} \cup AtomicKinds \/ a.kind \in MutexKinds
      \/ a.kind \in RwLockKinds
      \/ a.kind \in {"Set", "BranchNonzero", "Assert", "Fence", "Yield"}
      \/ a.kind \in WaitKinds \cup NotifyKinds \cup SemaphoreKinds \cup ThreadKinds
                        \cup {"BarrierWait"}
  BY DEF Action, MemoryActions, LockActions, WaitActions, NotifyActions, RwLockActions,
         SemaphoreActions, BarrierActions, ThreadActions, SetActions, BranchActions,
         AssertActions, LabelActions, PlainSteps
<1> QED BY <1>1, <1>2, <1>3, <1>4, <1>5, <1>6

-----------------------------------------------------------------------------
(***************************************************************************)
(* The initial state and one step.                                         *)
(***************************************************************************)
LEMMA BarrierPartiesType ==
    ASSUME NEW p \in Programs, NEW b \in Barriers
    PROVE  BarrierParties(p, b) \in Nat
<1> DEFINE UsesIn(t) == {i \in 0 .. Len(p[t]) - 1 : /\ ActionAt(p, t, i).kind = "BarrierWait"
                                                    /\ ActionAt(p, t, i).barrier = b}
           users == {t \in ThreadId : UsesIn(t) # {}}
           first == Min(users)
<1>1. ASSUME users # {} PROVE ActionAt(p, first, Min(UsesIn(first))).parties \in Nat
  <2>1. users \in SUBSET Nat
    BY SizesAssumption DEF ThreadId
  <2>2. first \in users
    BY <1>1, <2>1, LeastNatural
  <2>3. first \in ThreadId /\ UsesIn(first) # {}
    BY <2>2
  <2>4. UsesIn(first) \in SUBSET Nat
    BY <2>3, ActionType
  <2>5. Min(UsesIn(first)) \in UsesIn(first)
    BY <2>3, <2>4, LeastNatural
  <2> DEFINE i == Min(UsesIn(first))
  <2> HIDE DEF i, first
  <2>6. i \in 0 .. Len(p[first]) - 1 /\ ActionAt(p, first, i).kind = "BarrierWait"
    BY <2>5 DEF i
  <2>7. ActionAt(p, first, i) \in BarrierActions
    BY <2>3, <2>6, ActionType, KindFields
  <2> QED BY <2>7 DEF BarrierActions, i
<1> QED BY <1>1 DEF BarrierParties

\* The initial state is counted by no steps.
LEMMA InitialCounted ==
    ASSUME NEW p \in Programs, NEW model \in MemoryModel, NEW n \in Counts, n.steps = Zero
    PROVE  initial_state(p, model) \in CountedState(p, n)
<1>1. Zero \in Clock /\ Zero \in Below(n)
  BY ZeroType, BelowClosed
<1>2. [t \in ThreadId |-> normalize_pc(p, t, 0)] \in Counters(p)
  <2>1. \A t \in ThreadId : 0 \in 0 .. Len(p[t])
    BY ActionType
  <2>2. \A t \in ThreadId : normalize_pc(p, t, 0) \in Nat
    BY <2>1, NormalizeType, ActionType
  <2> QED BY <2>1, <2>2 DEF Counters
<1>3. [t \in ThreadId |-> Zero] \in CountedClocks(n)
  BY <1>1 DEF CountedClocks
<1>4. initial_barriers(p) \in [Barriers -> BarrierBelow(n)]
  BY <1>1, BarrierPartiesType DEF initial_barriers, BarrierBelow
<1>5. FreeRwLock \in RwLockBelow(n)
  BY <1>1 DEF FreeRwLock, RwLockBelow, OptThread
<1>6. NoAccesses \in AddressBelow(n)
  BY DEF NoAccesses, AddressBelow, AddressParts, Recorded, HistoryOf
<1>7. [permits |-> 0, post_releases |-> Zero] \in SemaphoreBelow(n)
  BY <1>1 DEF SemaphoreBelow
<1>8. initially_started_threads(p) \in [ThreadId -> BOOLEAN]
  BY DEF initially_started_threads
<1>9. [t \in ThreadId |-> 0] = Zero
  BY DEF Zero
<1> HIDE DEF Zero
<1> QED BY <1>1, <1>2, <1>3, <1>4, <1>5, <1>6, <1>7, <1>8, <1>9, SmallValues
        DEF initial_state, CountedState, OptThread, WaitPhase
=============================================================================
