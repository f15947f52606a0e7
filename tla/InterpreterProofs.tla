-------------------------- MODULE InterpreterProofs --------------------------
(***************************************************************************)
(* The interpreter's invariants, proved for every program, every memory    *)
(* model, every step bound and every number of threads and objects, and    *)
(* its synchronisation objects: the interpreter implements the abstract    *)
(* Synchronizers, published release clocks never lose anything, and a      *)
(* deadlock report explains the deadlock.  All rest on one inductive       *)
(* invariant.  The operations of Synchronizers are restated between two    *)
(* states, so that the effects can be compared with them; Implements takes *)
(* them back.                                                              *)
(***************************************************************************)
EXTENDS InterpreterProps, StepProofs

-----------------------------------------------------------------------------
(***************************************************************************)
(* The inductive invariant.                                                *)
(***************************************************************************)
IInv ==
    /\ program \in Programs
    /\ Sound(program, state)
    /\ result \in CheckResult

\* Every execution starts in it.
LEMMA InitIInv == Init => IInv
<1>1. SUFFICES ASSUME Init PROVE IInv
  OBVIOUS
<1>2. PICK model \in MemoryModels : state = initial_state(program, model)
  BY <1>1 DEF Init
<1>3. program \in Programs /\ model \in MemoryModel
  BY <1>1, <1>2, BoundAssumption DEF Init
<1>4. Sound(program, state)
  BY <1>2, <1>3, InitialSound
<1>5. result \in CheckResult
  BY <1>1 DEF Init, CheckResult
<1> QED BY <1>3, <1>4, <1>5 DEF IInv

\* Every action executes a step.
LEMMA NextExecutes ==
    ASSUME IInv, Next
    PROVE  \E step : step.thread \in ThreadId /\ Execute(step)
<1>1. PICK t \in ThreadId : MemoryNext(t) \/ SyncNext(t)
  BY DEF Next
<1>2. ASSUME NEW kind, Source(t, kind) PROVE \E step : step.thread \in ThreadId /\ Execute(step)
  <2>1. SourceStep(t, state.pc[t]).thread \in ThreadId
    BY DEF SourceStep
  <2> QED BY <1>2, <2>1 DEF Source
<1>3. ASSUME Flush(t) PROVE \E step : step.thread \in ThreadId /\ Execute(step)
  <2>1. PICK step \in FlushSteps(program, state, t) : Execute(step)
    BY <1>3 DEF Flush
  <2>2. step.thread = t
    BY <2>1, FlushTarget, AnyClockCounts DEF IInv, Sound
  <2> QED BY <2>1, <2>2
<1>4. CASE MemoryNext(t)
  BY <1>2, <1>3, <1>4 DEF MemoryNext, Read, Write, AtomicLoad, AtomicStore, AtomicRmw,
     CompareExchange, Fence, Set, BranchNonzero, Assert, Yield
<1>5. CASE SyncNext(t)
  BY <1>2, <1>5 DEF SyncNext, Lock, TryLock, Unlock, WaitPark, WaitReacquire, TimedWaitPark,
     TimedWaitTimeout, TimedWaitReacquire, Signal, Broadcast, RLock, RUnlock, WLock, WUnlock,
     Upgrade, Downgrade, SemPost, SemWait, BarrierWait, Spawn, JoinThread
<1> QED BY <1>1, <1>4, <1>5

\* What Execute does to a state that satisfies the invariant.
LEMMA ExecuteRuns ==
    ASSUME IInv, NEW step, step.thread \in ThreadId, Execute(step)
    PROVE  LET t == step.thread
               m == CountedBy(Tick(state.thread_steps, t))
               q == BeginStep(state, t)
               out == execute_enabled_step(program, state, step)
           IN  /\ state' = out.state /\ result' = record_step_report(result, out.report)
               /\ program' = program
               /\ LocalStep(state, q, t) /\ q.pc = state.pc /\ q.semaphores = state.semaphores
               /\ Good(program, m, q)
               /\ \/ SourceRun(program, m, state, q, step)
                  \/ FlushRun(program, m, state, q, step)
<1>1. program \in Programs /\ Sound(program, state)
  BY DEF IInv
<1>2. GivenStep(program, state, step)
  BY DEF Execute, enabled_steps_for_thread, GivenStep
<1> QED BY <1>1, <1>2, SoundRuns DEF Execute

\* Every step keeps the invariant.
LEMMA NextIInv == IInv /\ [Next]_vars => IInv'
<1>1. SUFFICES ASSUME IInv, [Next]_vars PROVE IInv'
  OBVIOUS
<1>2. CASE UNCHANGED vars
  BY <1>1, <1>2 DEF vars, IInv
<1>3. CASE Next
  <2>1. PICK step : step.thread \in ThreadId /\ Execute(step)
    BY <1>1, <1>3, NextExecutes
  <2> DEFINE out == execute_enabled_step(program, state, step)
  <2>2. GivenStep(program, state, step)
    BY <2>1 DEF Execute, enabled_steps_for_thread, GivenStep
  <2>3. Sound(program, out.state) /\ out.report \in StepReport
    BY <1>1, <2>1, <2>2, StepSound DEF IInv
  <2>4. /\ program' = program /\ state' = out.state
        /\ result' = record_step_report(result, out.report)
    BY <2>1 DEF Execute
  <2> HIDE DEF out
  <2>5. result' \in CheckResult
    BY <1>1, <2>3, <2>4, ReportType DEF IInv
  <2> QED BY <1>1, <2>3, <2>4, <2>5 DEF IInv
<1> QED BY <1>1, <1>2, <1>3

\* It holds in every state of every execution.
LEMMA Invariance == Spec => []IInv
BY InitIInv, NextIInv, PTL DEF Spec

-----------------------------------------------------------------------------
(***************************************************************************)
(* Type correctness: whatever the program, execute_enabled_step produces an*)
(* ExecutionState with counters on actions that are not labels, values in  *)
(* range, and reports of the declared shapes.                              *)
(***************************************************************************)
THEOREM TypeCorrect == Spec => []TypeOK
<1>1. IInv => TypeOK
  BY CountedMeaning, AnyClockCounts DEF IInv, Sound, Good, TypeOK
<1> QED BY <1>1, Invariance, PTL

(***************************************************************************)
(* Vector clocks count: a thread's own component is the number of its      *)
(* steps, and no clock published by a lock, semaphore, barrier or atomic   *)
(* location, or kept with an access, is ahead of the threads it speaks of. *)
(***************************************************************************)
THEOREM ClocksCorrect == Spec => []ClockInv
<1>1. IInv => ClockInv
  BY CountedMeaning, AnyClockCounts DEF IInv, Sound, Good, ClockInv
<1> QED BY <1>1, Invariance, PTL

(***************************************************************************)
(* Parked threads stay parked where the waiter sets and the barrier        *)
(* generations say: no lost or stale waiter, no thread in a wait that owns *)
(* the mutex it will reacquire, no generation left complete.               *)
(***************************************************************************)
THEOREM ParkedCorrect == Spec => []ParkedInv
<1>1. IInv => ParkedInv
  BY DEF IInv, Sound, Good, ParkedInv
<1> QED BY <1>1, Invariance, PTL

(***************************************************************************)
(* Lock holders have acquired what their lock published, so that Unlock,   *)
(* WUnlock and Downgrade may overwrite the published clock.                *)
(***************************************************************************)
THEOREM HandoffCorrect == Spec => []HandoffInv
<1>1. IInv => HandoffInv
  BY DEF IInv, Sound, Good, HandoffInv
<1> QED BY <1>1, Invariance, PTL

-----------------------------------------------------------------------------
(***************************************************************************)
(* The objects of two states, as the refinement mapping sees them.         *)
(***************************************************************************)
Returning(p, s) ==
    [t \in ThreadId |-> IF s.wait_phase[t] = "None" THEN {} ELSE {next_action(p, s, t).mutex}]

SameRwLocks(s, r) ==
    \A l \in RwLocks : /\ r.rwlocks[l].reader_holders = s.rwlocks[l].reader_holders
                       /\ r.rwlocks[l].writer_holder = s.rwlocks[l].writer_holder

SameSemaphores(s, r) == \A q \in Semaphores : r.semaphores[q].permits = s.semaphores[q].permits

SameBarriers(s, r) ==
    \A b \in Barriers : /\ r.barriers[b].arrivals = s.barriers[b].arrivals
                        /\ r.barriers[b].parties = s.barriers[b].parties

SameMutexes(p, s, r) ==
    /\ r.mutex_owner = s.mutex_owner
    /\ r.condition_waiters = s.condition_waiters
    /\ Returning(p, r) = Returning(p, s)

OnlyMutexes(s, r) == SameRwLocks(s, r) /\ SameSemaphores(s, r) /\ SameBarriers(s, r)
OnlyRwLocks(p, s, r) == SameMutexes(p, s, r) /\ SameSemaphores(s, r) /\ SameBarriers(s, r)
OnlySemaphores(p, s, r) == SameMutexes(p, s, r) /\ SameRwLocks(s, r) /\ SameBarriers(s, r)

SameObjects(p, s, r) == SameMutexes(p, s, r) /\ OnlyMutexes(s, r)

-----------------------------------------------------------------------------
(***************************************************************************)
(* The operations.                                                         *)
(***************************************************************************)
Acquires(p, s, r, t, m) ==
    /\ s.mutex_owner[m] = NoThread /\ s.wait_phase[t] = "None"
    /\ r.mutex_owner = [s.mutex_owner EXCEPT ![m] = t]
    /\ r.condition_waiters = s.condition_waiters /\ Returning(p, r) = Returning(p, s)
    /\ OnlyMutexes(s, r)

Releases(p, s, r, t, m) ==
    /\ s.mutex_owner[m] = t
    /\ r.mutex_owner = [s.mutex_owner EXCEPT ![m] = NoThread]
    /\ r.condition_waiters = s.condition_waiters /\ Returning(p, r) = Returning(p, s)
    /\ OnlyMutexes(s, r)

Sleeps(p, s, r, t, c, m) ==
    /\ s.mutex_owner[m] = t /\ s.wait_phase[t] = "None"
    /\ r.mutex_owner = [s.mutex_owner EXCEPT ![m] = NoThread]
    /\ r.condition_waiters = [s.condition_waiters EXCEPT ![c] = @ \cup {t}]
    /\ Returning(p, r) = [Returning(p, s) EXCEPT ![t] = {m}]
    /\ OnlyMutexes(s, r)

WakesUp(p, s, r, c, woken) ==
    /\ woken \subseteq s.condition_waiters[c]
    /\ r.mutex_owner = s.mutex_owner
    /\ r.condition_waiters = [s.condition_waiters EXCEPT ![c] = @ \ woken]
    /\ Returning(p, r) = Returning(p, s)
    /\ OnlyMutexes(s, r)

Returns(p, s, r, t, m) ==
    /\ m \in Returning(p, s)[t] /\ s.mutex_owner[m] = NoThread
    /\ \A c \in Conditions : t \notin s.condition_waiters[c]
    /\ r.mutex_owner = [s.mutex_owner EXCEPT ![m] = t]
    /\ r.condition_waiters = s.condition_waiters
    /\ Returning(p, r) = [Returning(p, s) EXCEPT ![t] = {}]
    /\ OnlyMutexes(s, r)

\* A lock's new readers and writer.
SetsRwLock(p, s, r, l, readers, writer) ==
    /\ r.rwlocks[l].reader_holders = readers /\ r.rwlocks[l].writer_holder = writer
    /\ \A k \in RwLocks \ {l} : r.rwlocks[k] = s.rwlocks[k]
    /\ OnlyRwLocks(p, s, r)

SetsPermits(p, s, r, q, permits) ==
    /\ r.semaphores[q].permits = permits
    /\ \A k \in Semaphores \ {q} : r.semaphores[k] = s.semaphores[k]
    /\ OnlySemaphores(p, s, r)

Arrives(p, s, r, t, b) ==
    /\ t \notin s.barriers[b].arrivals
    /\ r.barriers[b].arrivals =
          IF Cardinality(s.barriers[b].arrivals) + 1 = s.barriers[b].parties
          THEN {} ELSE s.barriers[b].arrivals \cup {t}
    /\ r.barriers[b].parties = s.barriers[b].parties
    /\ \A k \in Barriers \ {b} : r.barriers[k] = s.barriers[k]
    /\ SameMutexes(p, s, r) /\ SameRwLocks(s, r) /\ SameSemaphores(s, r)

LockOperation(p, s, r, t, l, k) ==
    \/ /\ k.writer_holder = NoThread /\ t \notin k.reader_holders
       /\ SetsRwLock(p, s, r, l, k.reader_holders \cup {t}, NoThread)
    \/ /\ t \in k.reader_holders
       /\ SetsRwLock(p, s, r, l, k.reader_holders \ {t}, k.writer_holder)
    \/ /\ k.writer_holder = NoThread /\ k.reader_holders \subseteq {t}
       /\ SetsRwLock(p, s, r, l, {}, t)
    \/ /\ k.writer_holder = t
       /\ \E kept \in {{}, {t}} : SetsRwLock(p, s, r, l, kept, NoThread)

LockOperates(p, s, r) ==
    \E t \in ThreadId, l \in RwLocks : LockOperation(p, s, r, t, l, s.rwlocks[l])

MutexOperates(p, s, r) ==
    \/ \E t \in ThreadId, m \in Mutexes :
          \/ Acquires(p, s, r, t, m) \/ Releases(p, s, r, t, m) \/ Returns(p, s, r, t, m)
          \/ \E c \in Conditions : Sleeps(p, s, r, t, c, m)
    \/ \E c \in Conditions :
          \/ WakesUp(p, s, r, c, s.condition_waiters[c])
          \/ \E t \in ThreadId : WakesUp(p, s, r, c, {t})

SemaphoreOperates(p, s, r) ==
    \E q \in Semaphores :
        LET k == s.semaphores[q].permits
        IN  \/ SetsPermits(p, s, r, q, k + 1)
            \/ k > 0 /\ SetsPermits(p, s, r, q, k - 1)

Operates(p, s, r) ==
    \/ SameObjects(p, s, r)
    \/ MutexOperates(p, s, r)
    \/ LockOperates(p, s, r)
    \/ SemaphoreOperates(p, s, r)
    \/ \E t \in ThreadId, b \in Barriers : Arrives(p, s, r, t, b)

\* They are the operations of Synchronizers, for the mutexes and conditions.
LEMMA MutexImplements ==
    ASSUME program' = program, MutexOperates(program, state, state')
    PROVE  Objects!MutexNext
<1> DEFINE s == state
           r == state'
           p == program
<1>0. ASSUME OnlyMutexes(s, r) PROVE UNCHANGED Objects!rest_of_mutexes
  BY <1>0 DEF OnlyMutexes, SameRwLocks, SameSemaphores, SameBarriers, Objects!rest_of_mutexes
<1>1. ASSUME NEW t \in ThreadId, NEW m \in Mutexes, Acquires(p, s, r, t, m)
      PROVE  Objects!Acquire(t, m)
  BY <1>0, <1>1 DEF Acquires, Returning, Objects!Acquire
<1>2. ASSUME NEW t \in ThreadId, NEW m \in Mutexes, Releases(p, s, r, t, m)
      PROVE  Objects!Release(t, m)
  BY <1>0, <1>2 DEF Releases, Returning, Objects!Release
<1>3. ASSUME NEW t \in ThreadId, NEW m \in Mutexes, Returns(p, s, r, t, m)
      PROVE  Objects!Return(t, m)
  BY <1>0, <1>3 DEF Returns, Returning, Objects!Return
<1>4. ASSUME NEW t \in ThreadId, NEW m \in Mutexes, NEW c \in Conditions,
             Sleeps(p, s, r, t, c, m)
      PROVE  Objects!Sleep(t, c, m)
  BY <1>0, <1>4 DEF Sleeps, Returning, Objects!Sleep
<1>5. ASSUME NEW c \in Conditions, NEW woken, WakesUp(p, s, r, c, woken)
      PROVE  Objects!WakeUp(c, woken)
  BY <1>0, <1>5 DEF WakesUp, Returning, Objects!WakeUp
<1> QED BY <1>1, <1>2, <1>3, <1>4, <1>5
        DEF MutexOperates, Objects!MutexNext, Objects!Broadcast, Objects!Timeout

\* For the reader-writer locks.
LEMMA RwLockImplements ==
    ASSUME program' = program, NEW n, state \in CountedState(program, n),
           NEW m, state' \in CountedState(program, m), LockOperates(program, state, state')
    PROVE  Objects!RwLockNext
<1> DEFINE s == state
           r == state'
           p == program
           readers(z) == [l \in RwLocks |-> z.rwlocks[l].reader_holders]
           writer(z) == [l \in RwLocks |-> z.rwlocks[l].writer_holder]
<1>0. ASSUME OnlyRwLocks(p, s, r) PROVE UNCHANGED Objects!rest_of_rwlocks
  BY <1>0 DEF OnlyRwLocks, SameMutexes, Returning, SameSemaphores, SameBarriers,
              Objects!rest_of_rwlocks
<1>1. ASSUME NEW l \in RwLocks, NEW R, NEW w, SetsRwLock(p, s, r, l, R, w)
      PROVE  /\ readers(r) = [readers(s) EXCEPT ![l] = R]
             /\ writer(r) = [writer(s) EXCEPT ![l] = w]
             /\ OnlyRwLocks(p, s, r)
             /\ w = s.rwlocks[l].writer_holder => writer(r) = writer(s)
  BY <1>1 DEF SetsRwLock
<1>2. PICK t \in ThreadId, l \in RwLocks : LockOperation(p, s, r, t, l, s.rwlocks[l])
  BY DEF LockOperates
<1> DEFINE k == s.rwlocks[l]
<1>3. CASE /\ k.writer_holder = NoThread /\ t \notin k.reader_holders
           /\ SetsRwLock(p, s, r, l, k.reader_holders \cup {t}, NoThread)
  <2>1. Objects!Share(t, l)
    BY <1>0, <1>1, <1>3 DEF Objects!Share
  <2> QED BY <2>1 DEF Objects!RwLockNext
<1>4. CASE /\ t \in k.reader_holders
           /\ SetsRwLock(p, s, r, l, k.reader_holders \ {t}, k.writer_holder)
  <2>1. Objects!Unshare(t, l)
    BY <1>0, <1>1, <1>4 DEF Objects!Unshare
  <2> QED BY <2>1 DEF Objects!RwLockNext
<1>5. CASE /\ k.writer_holder = NoThread /\ k.reader_holders \subseteq {t}
           /\ SetsRwLock(p, s, r, l, {}, t)
  <2>1. Objects!Exclude(t, l)
    BY <1>0, <1>1, <1>5 DEF Objects!Exclude
  <2> QED BY <2>1 DEF Objects!RwLockNext
<1>6. CASE k.writer_holder = t /\ \E kept \in {{}, {t}} : SetsRwLock(p, s, r, l, kept, NoThread)
  <2>1. PICK kept \in {{}, {t}} : SetsRwLock(p, s, r, l, kept, NoThread)
    BY <1>6
  <2>2. Objects!Include(t, l, kept)
    BY <1>0, <1>1, <1>6, <2>1 DEF Objects!Include
  <2> QED BY <2>1, <2>2 DEF Objects!RwLockNext
<1> QED BY <1>2, <1>3, <1>4, <1>5, <1>6 DEF LockOperation

\* The instance's Cardinality is Cardinality.
LEMMA SameCardinality == \A S : Objects!Cardinality(S) = Cardinality(S)
BY DEF Objects!Cardinality, Cardinality

\* For all objects.
LEMMA Implements ==
    ASSUME program' = program, NEW n, state \in CountedState(program, n),
           NEW m, state' \in CountedState(program, m), Operates(program, state, state')
    PROVE  [Objects!Next]_(Objects!objects)
<1> DEFINE s == state
           r == state'
           p == program
<1>1. CASE SameObjects(p, s, r)
  BY <1>1 DEF SameObjects, OnlyMutexes, SameMutexes, Returning, SameRwLocks, SameSemaphores,
              SameBarriers, Objects!objects
<1>2. CASE MutexOperates(p, s, r)
  BY <1>2, MutexImplements DEF Objects!Next
<1>3. CASE LockOperates(p, s, r)
  BY <1>3, RwLockImplements DEF Objects!Next
<1>4. CASE SemaphoreOperates(p, s, r)
  <2> DEFINE permits(z) == [q \in Semaphores |-> z.semaphores[q].permits]
  <2>1. ASSUME NEW q \in Semaphores, NEW i, SetsPermits(p, s, r, q, i)
        PROVE  /\ permits(r) = [permits(s) EXCEPT ![q] = i]
               /\ OnlySemaphores(p, s, r)
    BY <2>1 DEF SetsPermits
  <2>2. PICK q \in Semaphores :
          \/ SetsPermits(p, s, r, q, s.semaphores[q].permits + 1)
          \/ /\ s.semaphores[q].permits > 0
             /\ SetsPermits(p, s, r, q, s.semaphores[q].permits - 1)
    BY <1>4 DEF SemaphoreOperates
  <2>3. Objects!Post(q) \/ Objects!Take(q)
    BY <2>1, <2>2 DEF Objects!Post, Objects!Take, OnlySemaphores, SameMutexes, Returning,
                      SameRwLocks, SameBarriers
  <2> QED BY <2>3 DEF Objects!Next
<1>5. ASSUME NEW t \in ThreadId, NEW b \in Barriers, Arrives(p, s, r, t, b)
      PROVE  Objects!Arrive(t, b)
  <2> DEFINE gathered == [k \in Barriers |-> s.barriers[k].arrivals]
             parties == [k \in Barriers |-> s.barriers[k].parties]
  <2>1. gathered' = [gathered EXCEPT ![b] =
                       IF Objects!Cardinality(@) + 1 = parties[b] THEN {} ELSE @ \cup {t}]
    BY <1>5, SameCardinality DEF Arrives
  <2>2. parties' = parties /\ t \notin gathered[b]
    BY <1>5 DEF Arrives
  <2> QED BY <1>5, <2>1, <2>2
          DEF Arrives, Objects!Arrive, SameMutexes, Returning, SameRwLocks, SameSemaphores
<1> QED BY <1>1, <1>2, <1>3, <1>4, <1>5 DEF Operates, Objects!Next

-----------------------------------------------------------------------------
(***************************************************************************)
(* The effects perform them.                                               *)
(***************************************************************************)
\* The mutexes to return to depend on the threads in a wait only.
LEMMA ReturningSame ==
    ASSUME NEW p, NEW s, NEW r,
           \A u \in ThreadId : r.wait_phase[u] = "None" <=> s.wait_phase[u] = "None",
           \A u \in ThreadId : s.wait_phase[u] = "None" \/ r.pc[u] = s.pc[u]
    PROVE  Returning(p, r) = Returning(p, s)
BY DEF Returning, next_action

\* A local step operates on nothing.
LEMMA LocalSame ==
    ASSUME NEW p, NEW s, NEW r, NEW t \in ThreadId, LocalStep(s, r, t),
           r.semaphores = s.semaphores, s.wait_phase[t] = "None" \/ r.pc[t] = s.pc[t]
    PROVE  SameObjects(p, s, r)
<1>1. Returning(p, r) = Returning(p, s)
  BY ReturningSame DEF LocalStep, OwnStep, SameElsewhere
<1> QED BY <1>1 DEF SameObjects, SameMutexes, OnlyMutexes, SameRwLocks, SameSemaphores,
                    SameBarriers, LocalStep, OwnStep

\* Neither does a step that is reported as a misuse.
LEMMA AdvanceSame ==
    ASSUME NEW p, NEW n \in Counts, NEW s \in CountedState(p, n), NEW t \in ThreadId,
           s.wait_phase[t] = "None"
    PROVE  /\ SameObjects(p, s, advance_pc(p, s, t))
           /\ \A step, message :
                 SameObjects(p, s, ModelError(advance_pc(p, s, t), step, message).state)
<1>1. advance_pc(p, s, t).semaphores = s.semaphores
  BY DEF advance_pc, CountedState
<1> QED BY <1>1, AdvanceLocal, LocalSame DEF ModelError

\* Lock, TryLock, Unlock.
LEMMA MutexOperatesOn ==
    ASSUME NEW p, NEW n, NEW s, NEW step, NEW a, Steps(p, n, s, step, a), a.kind \in MutexKinds
    PROVE  Operates(p, s, MutexEffect(p, s, step, a).state)
<1> DEFINE t == step.thread
           m == a.mutex
           r == MutexEffect(p, s, step, a).state
           Others == /\ r.condition_waiters = s.condition_waiters /\ r.wait_phase = s.wait_phase
                     /\ r.rwlocks = s.rwlocks /\ r.semaphores = s.semaphores
                     /\ r.barriers = s.barriers
                     /\ \A u \in ThreadId \ {t} : r.pc[u] = s.pc[u]
<1>1. t \in ThreadId /\ s \in CountedState(p, n) /\ s.wait_phase[t] = "None" /\ n \in Counts
  <2>1. a.kind \notin WaitKinds /\ n \in Counts
    BY DEF MutexKinds, WaitKinds, Steps
  <2> QED BY <2>1, StepsFacts
<1>2. m \in Mutexes
  BY KindFields DEF Steps, LockActions
<1>3. Others => /\ r.condition_waiters = s.condition_waiters /\ Returning(p, r) = Returning(p, s)
                /\ OnlyMutexes(s, r)
  <2>1. Others => Returning(p, r) = Returning(p, s)
    BY <1>1, ReturningSame
  <2> QED BY <2>1 DEF OnlyMutexes, SameRwLocks, SameSemaphores, SameBarriers
<1>4. CASE a.kind = "Lock"
  <2>1. s.mutex_owner[m] = NoThread
    BY <1>4 DEF Steps, is_program_action_enabled
  <2>2. r.mutex_owner = [s.mutex_owner EXCEPT ![m] = t] /\ Others
    BY <1>1, <1>4
       DEF MutexEffect, LockEffect, AcquireMutex, ReleaseMutex, advance_pc, write_register,
                        Done, CountedState, Counters
  <2> HIDE DEF r, Others
  <2>3. Acquires(p, s, r, t, m)
    BY <1>1, <1>3, <2>1, <2>2 DEF Acquires
  <2> QED BY <1>1, <1>2, <2>3 DEF Operates, MutexOperates, r
<1>5. CASE a.kind = "TryLock" /\ s.mutex_owner[m] = NoThread
  <2>2. r.mutex_owner = [s.mutex_owner EXCEPT ![m] = t] /\ Others
    BY <1>1, <1>5
       DEF MutexEffect, TryLockEffect, AcquireMutex, ReleaseMutex, advance_pc, write_register,
                        Done, CountedState, Counters
  <2> HIDE DEF r, Others
  <2>3. Acquires(p, s, r, t, m)
    BY <1>1, <1>3, <1>5, <2>2 DEF Acquires
  <2> QED BY <1>1, <1>2, <2>3 DEF Operates, MutexOperates, r
<1>6. CASE a.kind = "TryLock" /\ s.mutex_owner[m] # NoThread
  <2>2. r.mutex_owner = s.mutex_owner /\ Others
    BY <1>1, <1>6
       DEF MutexEffect, TryLockEffect, AcquireMutex, ReleaseMutex, advance_pc, write_register,
                        Done, CountedState, Counters
  <2> HIDE DEF r, Others
  <2> QED BY <1>3, <2>2 DEF Operates, SameObjects, SameMutexes, r
<1>7. CASE a.kind = "Unlock" /\ s.mutex_owner[m] = t
  <2>2. r.mutex_owner = [s.mutex_owner EXCEPT ![m] = NoThread] /\ Others
    BY <1>1, <1>7
       DEF MutexEffect, UnlockEffect, AcquireMutex, ReleaseMutex, advance_pc, write_register,
                        Done, CountedState, Counters
  <2> HIDE DEF r, Others
  <2>3. Releases(p, s, r, t, m)
    BY <1>3, <1>7, <2>2 DEF Releases
  <2> QED BY <1>1, <1>2, <2>3 DEF Operates, MutexOperates, r
<1>8. CASE a.kind = "Unlock" /\ s.mutex_owner[m] # t
  <2>1. MutexEffect(p, s, step, a) = ModelError(advance_pc(p, s, t), step, "unlock")
    BY <1>8 DEF MutexEffect, UnlockEffect
  <2> QED BY <1>1, <2>1, AdvanceSame DEF Operates
<1> QED BY <1>4, <1>5, <1>6, <1>7, <1>8 DEF MutexKinds

\* The operations of a reader-writer lock.
LEMMA RwLockOperatesOn ==
    ASSUME NEW p, NEW n, NEW s, NEW step, NEW a, Steps(p, n, s, step, a), a.kind \in RwLockKinds
    PROVE  Operates(p, s, RwLockEffect(p, s, step, a).state)
<1> DEFINE t == step.thread
           x == a.rwlock
           l == s.rwlocks[x]
           r == RwLockEffect(p, s, step, a).state
           Sets(readers, writer) ==
             /\ r.rwlocks[x].reader_holders = readers /\ r.rwlocks[x].writer_holder = writer
             /\ \A k \in RwLocks \ {x} : r.rwlocks[k] = s.rwlocks[k]
             /\ r.mutex_owner = s.mutex_owner
             /\ r.condition_waiters = s.condition_waiters /\ r.wait_phase = s.wait_phase
             /\ r.semaphores = s.semaphores /\ r.barriers = s.barriers
             /\ \A u \in ThreadId \ {t} : r.pc[u] = s.pc[u]
<1>1. t \in ThreadId /\ s \in CountedState(p, n) /\ s.wait_phase[t] = "None" /\ n \in Counts
  <2>1. a.kind \notin WaitKinds /\ n \in Counts
    BY DEF RwLockKinds, WaitKinds, Steps
  <2> QED BY <2>1, StepsFacts
<1>2. x \in RwLocks /\ l \in RwLockBelow(n) /\ t # NoThread
  <2>1. a \in RwLockActions
    BY KindFields DEF Steps
  <2> QED BY <1>1, <2>1, StepsFacts DEF RwLockActions, CountedState
<1>3. ASSUME NEW R, NEW w, Sets(R, w) PROVE SetsRwLock(p, s, r, x, R, w)
  <2>1. Returning(p, r) = Returning(p, s)
    BY <1>1, <1>3, ReturningSame
  <2> QED BY <1>3, <2>1 DEF SetsRwLock, OnlyRwLocks, SameMutexes, SameSemaphores, SameBarriers
<1>4. /\ l.reader_holders \in SUBSET ThreadId
      /\ l.writer_holder # NoThread => l.reader_holders = {}
  BY <1>2, StepsFacts DEF RwLockBelow, HandedOff
<1>5. /\ a.kind = "RLock" => l.writer_holder \in {NoThread, t}
      /\ a.kind = "WLock" =>
            l.writer_holder = t \/ (l.writer_holder = NoThread /\ l.reader_holders = {})
      /\ a.kind = "Upgrade" => (t \in l.reader_holders => l.reader_holders = {t})
  BY DEF Steps, is_program_action_enabled
<1>6. ASSUME NEW message,
             RwLockEffect(p, s, step, a) = ModelError(advance_pc(p, s, t), step, message)
      PROVE  Operates(p, s, r)
  BY <1>1, <1>6, AdvanceSame DEF Operates
<1> DEFINE Performs ==
             \/ /\ l.writer_holder = NoThread /\ t \notin l.reader_holders
                /\ Sets(l.reader_holders \cup {t}, NoThread)
             \/ /\ t \in l.reader_holders
                /\ Sets(l.reader_holders \ {t}, l.writer_holder)
             \/ /\ l.writer_holder = NoThread /\ l.reader_holders \subseteq {t}
                /\ Sets({}, t)
             \/ /\ l.writer_holder = t
                /\ \E kept \in {{}, {t}} : Sets(kept, NoThread)
<1>7. Performs => Operates(p, s, r)
  <2> HIDE DEF Sets, r
  <2> QED BY <1>1, <1>2, <1>3 DEF Operates, LockOperates, LockOperation
<1>8. CASE a.kind = "RLock"
  <2>1. CASE t \in l.reader_holders \/ l.writer_holder = t
    BY <1>6, <1>8, <2>1 DEF RwLockEffect, RLockEffect
  <2>2. CASE ~(t \in l.reader_holders \/ l.writer_holder = t)
    <3>1. Sets(l.reader_holders \cup {t}, NoThread)
      BY <1>1, <1>2, <1>5, <1>8, <2>2 DEF RwLockEffect, RLockEffect, advance_pc, Done,
         CountedState, Counters, RwLockBelow
    <3> QED BY <1>5, <1>7, <1>8, <2>2, <3>1
  <2> QED BY <2>1, <2>2
<1>9. CASE a.kind = "WLock"
  <2>1. CASE l.writer_holder = t
    BY <1>6, <1>9, <2>1 DEF RwLockEffect, WLockEffect
  <2>2. CASE l.writer_holder # t
    <3>1. Sets({}, t)
      BY <1>1, <1>2, <1>5, <1>9, <2>2
         DEF RwLockEffect, WLockEffect, AcquireExclusive, advance_pc, Done,
         CountedState, Counters, RwLockBelow
    <3> QED BY <1>5, <1>7, <1>9, <2>2, <3>1
  <2> QED BY <2>1, <2>2
<1>10. CASE a.kind = "Upgrade"
  <2>1. CASE t \notin l.reader_holders
    BY <1>6, <1>10, <2>1 DEF RwLockEffect, UpgradeEffect
  <2>2. CASE t \in l.reader_holders
    <3>1. Sets({}, t)
      BY <1>1, <1>2, <1>5, <1>10, <2>2
         DEF RwLockEffect, UpgradeEffect, AcquireExclusive, advance_pc, Done,
         CountedState, Counters, RwLockBelow
    <3> QED BY <1>4, <1>5, <1>7, <1>10, <2>2, <3>1
  <2> QED BY <2>1, <2>2
<1>11. CASE a.kind = "RUnlock"
  <2>1. CASE t \notin l.reader_holders
    BY <1>6, <1>11, <2>1 DEF RwLockEffect, RUnlockEffect
  <2>2. CASE t \in l.reader_holders
    <3>1. Sets(l.reader_holders \ {t}, l.writer_holder)
      BY <1>1, <1>2, <1>11, <2>2 DEF RwLockEffect, RUnlockEffect, advance_pc, Done,
         CountedState, Counters, RwLockBelow
    <3> QED BY <1>7, <2>2, <3>1
  <2> QED BY <2>1, <2>2
<1>12. CASE a.kind = "WUnlock"
  <2>1. CASE l.writer_holder # t
    BY <1>6, <1>12, <2>1 DEF RwLockEffect, WUnlockEffect
  <2>2. CASE l.writer_holder = t
    <3>1. Sets({}, NoThread)
      BY <1>1, <1>2, <1>4, <1>12, <2>2
         DEF RwLockEffect, WUnlockEffect, ReleaseExclusive, advance_pc, Done,
         CountedState, Counters, RwLockBelow
    <3> QED BY <1>7, <2>2, <3>1
  <2> QED BY <2>1, <2>2
<1>13. CASE a.kind = "Downgrade"
  <2>1. CASE l.writer_holder # t
    BY <1>6, <1>13, <2>1 DEF RwLockEffect, DowngradeEffect
  <2>2. CASE l.writer_holder = t
    <3>1. Sets({t}, NoThread)
      BY <1>1, <1>2, <1>4, <1>13, <2>2
         DEF RwLockEffect, DowngradeEffect, ReleaseExclusive, advance_pc, Done,
         CountedState, Counters, RwLockBelow
    <3> QED BY <1>7, <2>2, <3>1
  <2> QED BY <2>1, <2>2
<1> QED BY <1>8, <1>9, <1>10, <1>11, <1>12, <1>13 DEF RwLockKinds

\* Wait and TimedWait: falling asleep, timing out, returning.
LEMMA WaitOperatesOn ==
    ASSUME NEW p, NEW n, NEW s, NEW step, NEW a, Steps(p, n, s, step, a), a.kind \in WaitKinds
    PROVE  Operates(p, s, WaitEffect(p, s, step, a).state)
<1> DEFINE t == step.thread
           m == a.mutex
           c == a.condition
           r == WaitEffect(p, s, step, a).state
           Others(z) == /\ z.rwlocks = s.rwlocks /\ z.semaphores = s.semaphores
                        /\ z.barriers = s.barriers
<1>1. /\ t \in ThreadId /\ s \in CountedState(p, n) /\ ParkedThread(p, s, t)
      /\ s.pc[t] < Len(p[t]) /\ n \in Counts /\ a = next_action(p, s, t)
  BY StepsFacts DEF Steps
<1>2. m \in Mutexes /\ c \in Conditions
  BY KindFields DEF Steps, WaitActions
<1>3. Others(r) => OnlyMutexes(s, r)
  BY DEF OnlyMutexes, SameRwLocks, SameSemaphores, SameBarriers
<1>4. /\ s.wait_phase \in [ThreadId -> {"None", "Waiting", "Woken"}]
      /\ a.kind = "Wait" => s.wait_phase[t] # "Waiting"
  BY <1>1 DEF CountedState, WaitPhase, Steps, is_program_action_enabled
<1>5. CASE s.wait_phase[t] = "Woken"
  <2>1. WaitEffect(p, s, step, a) = ReacquireEffect(p, s, step, a)
    BY <1>5 DEF WaitEffect
  <2> DEFINE z == ReacquireEffect(p, s, step, a).state
  <2>2. /\ z.mutex_owner = [s.mutex_owner EXCEPT ![m] = t]
        /\ z.condition_waiters = s.condition_waiters
        /\ z.wait_phase = [s.wait_phase EXCEPT ![t] = "None"]
        /\ \A u \in ThreadId \ {t} : z.pc[u] = s.pc[u]
        /\ Others(z) /\ r = z
    BY <1>1, <2>1 DEF ReacquireEffect, AcquireMutex, advance_pc, Done, CountedState, Counters
  <2>3. s.mutex_owner[m] = NoThread
    BY <1>5 DEF Steps, is_program_action_enabled
  <2>4. m \in Returning(p, s)[t]
    BY <1>1, <1>5 DEF Returning
  <2>5. \A d \in Conditions : t \notin s.condition_waiters[d]
    BY <1>1, <1>5 DEF ParkedThread
  <2> HIDE DEF r, z
  <2>6. Returning(p, r) = [Returning(p, s) EXCEPT ![t] = {}]
    BY <1>1, <2>2 DEF Returning, next_action, CountedState
  <2>7. Returns(p, s, r, t, m)
    BY <1>3, <2>2, <2>3, <2>4, <2>5, <2>6 DEF Returns
  <2> QED BY <1>1, <1>2, <2>7 DEF Operates, MutexOperates, r
<1>6. CASE s.wait_phase[t] = "Waiting"
  <2>1. WaitEffect(p, s, step, a) = TimeoutEffect(s, step, a)
    BY <1>4, <1>6 DEF WaitEffect, WaitKinds
  <2> DEFINE z == TimeoutEffect(s, step, a).state
  <2>2. /\ z.mutex_owner = s.mutex_owner
        /\ z.condition_waiters = [s.condition_waiters EXCEPT ![c] = @ \ {t}]
        /\ z.wait_phase = [s.wait_phase EXCEPT ![t] = "Woken"]
        /\ z.pc = s.pc
        /\ Others(z) /\ r = z
    BY <1>1, <2>1 DEF TimeoutEffect, write_register, Done, CountedState
  <2>3. t \in s.condition_waiters[c]
    BY <1>1, <1>2, <1>6 DEF ParkedThread
  <2> HIDE DEF r, z
  <2>4. Returning(p, r) = Returning(p, s)
    BY <1>4, <1>6, <2>2, ReturningSame
  <2>5. WakesUp(p, s, r, c, {t})
    BY <1>3, <2>2, <2>3, <2>4 DEF WakesUp
  <2> QED BY <1>1, <1>2, <2>5 DEF Operates, MutexOperates, r
<1>7. CASE s.wait_phase[t] = "None" /\ s.mutex_owner[m] # t
  <2>1. WaitEffect(p, s, step, a) = ModelError(advance_pc(p, s, t), step, "wait")
    BY <1>7 DEF WaitEffect, ParkEffect
  <2> QED BY <1>1, <1>7, <2>1, AdvanceSame DEF Operates
<1>8. CASE s.wait_phase[t] = "None" /\ s.mutex_owner[m] = t
  <2>1. WaitEffect(p, s, step, a) = ParkEffect(p, s, step, a)
    BY <1>8 DEF WaitEffect
  <2> DEFINE z == ParkEffect(p, s, step, a).state
  <2>2. /\ z.mutex_owner = [s.mutex_owner EXCEPT ![m] = NoThread]
        /\ z.condition_waiters = [s.condition_waiters EXCEPT ![c] = @ \cup {t}]
        /\ z.wait_phase = [s.wait_phase EXCEPT ![t] = "Waiting"]
        /\ z.pc = s.pc
        /\ Others(z) /\ r = z
    BY <1>1, <1>8, <2>1 DEF ParkEffect, ReleaseMutex, Done, CountedState
  <2> HIDE DEF r, z
  <2>3. Returning(p, r) = [Returning(p, s) EXCEPT ![t] = {m}]
    BY <1>1, <2>2 DEF Returning, next_action, CountedState
  <2>4. Sleeps(p, s, r, t, c, m)
    BY <1>3, <1>8, <2>2, <2>3 DEF Sleeps
  <2> QED BY <1>1, <1>2, <2>4 DEF Operates, MutexOperates, r
<1> QED BY <1>1, <1>4, <1>5, <1>6, <1>7, <1>8

\* Signal and Broadcast.
LEMMA NotifyOperatesOn ==
    ASSUME NEW p, NEW n, NEW s, NEW step, NEW a, Steps(p, n, s, step, a), a.kind \in NotifyKinds
    PROVE  /\ Operates(p, s, SignalEffect(p, s, step, a).state)
           /\ Operates(p, s, BroadcastEffect(p, s, step, a).state)
<1> DEFINE t == step.thread
           c == a.condition
           waiters == s.condition_waiters[c]
           first == {u \in waiters : \A v \in waiters : u <= v}
           q == advance_pc(p, s, t)
<1>1. /\ t \in ThreadId /\ s \in CountedState(p, n) /\ n \in Counts /\ Parked(p, s)
  BY StepsFacts DEF Steps, Good
<1>2. s.wait_phase[t] = "None"
  <2>1. a.kind \notin WaitKinds
    BY DEF NotifyKinds, WaitKinds
  <2> QED BY <2>1, StepsFacts
<1>3. c \in Conditions /\ waiters \in SUBSET ThreadId
  <2>1. a \in NotifyActions
    BY KindFields DEF Steps
  <2> QED BY <1>1, <2>1 DEF NotifyActions, CountedState
<1>4. \A u \in waiters : s.wait_phase[u] = "Waiting"
  BY <1>1, <1>3 DEF Parked, WaitersParked
<1>5. ASSUME NEW woken \in SUBSET waiters
      PROVE  WakesUp(p, s, Wake(p, q, t, c, woken), c, woken)
  <2> DEFINE r == Wake(p, q, t, c, woken)
  <2>1. /\ r.mutex_owner = s.mutex_owner
        /\ r.condition_waiters = [s.condition_waiters EXCEPT ![c] = @ \ woken]
        /\ r.wait_phase = [u \in ThreadId |-> IF u \in woken THEN "Woken" ELSE s.wait_phase[u]]
        /\ \A u \in ThreadId \ {t} : r.pc[u] = s.pc[u]
        /\ r.rwlocks = s.rwlocks /\ r.semaphores = s.semaphores /\ r.barriers = s.barriers
    BY <1>1 DEF Wake, advance_pc, CountedState, Counters
  <2> HIDE DEF r
  <2>2. Returning(p, r) = Returning(p, s)
    <3>1. \A u \in ThreadId : r.wait_phase[u] = "None" <=> s.wait_phase[u] = "None"
      BY <1>4, <2>1
    <3>2. \A u \in ThreadId : s.wait_phase[u] = "None" \/ r.pc[u] = s.pc[u]
      BY <1>2, <2>1
    <3> QED BY <3>1, <3>2, ReturningSame
  <2>3. OnlyMutexes(s, r)
    BY <2>1 DEF OnlyMutexes, SameRwLocks, SameSemaphores, SameBarriers
  <2> QED BY <2>1, <2>2, <2>3 DEF WakesUp, r
<1>6. Operates(p, s, BroadcastEffect(p, s, step, a).state)
  BY <1>3, <1>5 DEF BroadcastEffect, Done, Operates, MutexOperates
<1>7. Operates(p, s, Wake(p, q, t, c, first))
  <2> DEFINE r == Wake(p, q, t, c, first)
  <2>1. WakesUp(p, s, r, c, first)
    BY <1>5
  <2>2. CASE first = {}
    <3>1. r.condition_waiters = s.condition_waiters
      BY <1>1, <1>3, <2>1, <2>2 DEF WakesUp, CountedState
    <3> HIDE DEF r, first
    <3>2. SameObjects(p, s, r)
      BY <2>1, <3>1 DEF WakesUp, SameObjects, SameMutexes
    <3> QED BY <3>2 DEF Operates, r
  <2>3. CASE first # {}
    <3>1. PICK u \in first : TRUE
      BY <2>3
    <3>2. \A v \in first : v = u
      BY <1>3, <3>1 DEF ThreadId
    <3>3. first = {u} /\ u \in ThreadId
      BY <1>3, <3>1, <3>2
    <3> HIDE DEF first
    <3> QED BY <1>3, <2>1, <3>3 DEF Operates, MutexOperates
  <2> QED BY <2>2, <2>3
<1>8. SignalEffect(p, s, step, a).state = Wake(p, q, t, c, first)
  BY DEF SignalEffect, Done
<1> QED BY <1>6, <1>7, <1>8

\* SemPost and SemWait.
LEMMA SemaphoreOperatesOn ==
    ASSUME NEW p, NEW n, NEW s, NEW step, NEW a, Steps(p, n, s, step, a),
           a.kind \in SemaphoreKinds
    PROVE  Operates(p, s, OtherSyncEffect(p, s, step, a).state)
<1> DEFINE t == step.thread
           x == a.semaphore
           k == s.semaphores[x].permits
           Sets(r, i) ==
             /\ r.semaphores[x].permits = i
             /\ \A y \in Semaphores \ {x} : r.semaphores[y] = s.semaphores[y]
             /\ r.mutex_owner = s.mutex_owner
             /\ r.condition_waiters = s.condition_waiters /\ r.wait_phase = s.wait_phase
             /\ r.rwlocks = s.rwlocks /\ r.barriers = s.barriers
             /\ \A u \in ThreadId \ {t} : r.pc[u] = s.pc[u]
<1>1. t \in ThreadId /\ s \in CountedState(p, n) /\ s.wait_phase[t] = "None"
  <2>1. a.kind \notin WaitKinds
    BY DEF SemaphoreKinds, WaitKinds
  <2> QED BY <2>1, StepsFacts
<1>2. x \in Semaphores /\ s.semaphores[x] \in SemaphoreBelow(n)
  <2>1. a \in SemaphoreActions
    BY KindFields DEF Steps
  <2> QED BY <1>1, <2>1 DEF SemaphoreActions, CountedState
<1>3. ASSUME NEW r, NEW i, Sets(r, i) PROVE SetsPermits(p, s, r, x, i)
  <2>1. Returning(p, r) = Returning(p, s)
    BY <1>1, <1>3, ReturningSame
  <2> QED BY <1>3, <2>1 DEF SetsPermits, OnlySemaphores, SameMutexes, SameRwLocks, SameBarriers
<1>4. Sets(SemPostEffect(p, s, step, a).state, k + 1)
  BY <1>1, <1>2 DEF SemPostEffect, advance_pc, Done, CountedState, Counters, SemaphoreBelow
<1>5. Sets(SemWaitEffect(p, s, step, a).state, k - 1)
  BY <1>1, <1>2 DEF SemWaitEffect, advance_pc, Done, CountedState, Counters, SemaphoreBelow
<1> HIDE DEF Sets
<1>6. CASE a.kind = "SemPost"
  <2>1. OtherSyncEffect(p, s, step, a) = SemPostEffect(p, s, step, a)
    BY <1>6 DEF OtherSyncEffect, WaitKinds
  <2> QED BY <1>2, <1>3, <1>4, <2>1 DEF Operates, SemaphoreOperates
<1>7. CASE a.kind = "SemWait"
  <2>1. OtherSyncEffect(p, s, step, a) = SemWaitEffect(p, s, step, a)
    BY <1>7 DEF OtherSyncEffect, WaitKinds
  <2>2. k > 0
    BY <1>7 DEF Steps, is_program_action_enabled
  <2> QED BY <1>2, <1>3, <1>5, <2>1, <2>2 DEF Operates, SemaphoreOperates
<1> QED BY <1>6, <1>7 DEF SemaphoreKinds

\* BarrierWait: the generation is complete exactly when one arrival was missing.
LEMMA BarrierOperatesOn ==
    ASSUME NEW p, NEW n, NEW s, NEW step, NEW a, Steps(p, n, s, step, a), a.kind = "BarrierWait"
    PROVE  Operates(p, s, BarrierWaitEffect(p, s, step, a).state)
<1> DEFINE t == step.thread
           x == a.barrier
           b == s.barriers[x]
           arrivals == b.arrivals \cup {t}
           c == Join(b.arrival_releases, s.thread_clock[t])
           Sets(r, gathered) ==
             /\ r.barriers[x].arrivals = gathered /\ r.barriers[x].parties = b.parties
             /\ \A y \in Barriers \ {x} : r.barriers[y] = s.barriers[y]
             /\ r.mutex_owner = s.mutex_owner
             /\ r.condition_waiters = s.condition_waiters /\ r.wait_phase = s.wait_phase
             /\ r.rwlocks = s.rwlocks /\ r.semaphores = s.semaphores
             /\ \A u \in ThreadId : s.wait_phase[u] = "None" \/ r.pc[u] = s.pc[u]
<1>1. /\ t \in ThreadId /\ s \in CountedState(p, n) /\ n \in Counts /\ SomeMissing(s)
      /\ Parked(p, s) /\ \A y \in Barriers : t \notin s.barriers[y].arrivals
  BY StepsFacts DEF Steps, Good
<1>2. s.wait_phase[t] = "None"
  <2>1. a.kind \notin WaitKinds
    BY DEF WaitKinds
  <2> QED BY <2>1, StepsFacts
<1>3. x \in Barriers /\ b \in BarrierBelow(n) /\ t \notin b.arrivals /\ a.parties \in Nat
  <2>1. a \in BarrierActions
    BY KindFields DEF Steps
  <2> QED BY <1>1, <2>1 DEF BarrierActions, CountedState
<1>4. /\ b.parties \in Nat /\ Cardinality(b.arrivals) \in Nat
      /\ Cardinality(arrivals) = Cardinality(b.arrivals) + 1
      /\ b.arrivals # {} => Cardinality(b.arrivals) < b.parties
      /\ b.arrivals = {} => Cardinality(b.arrivals) = 0
  <2>1. IsFiniteSet(ThreadId)
    BY SizesAssumption, FS_Interval DEF ThreadId
  <2>2. IsFiniteSet(b.arrivals)
    BY <1>3, <2>1, FS_Subset DEF BarrierBelow
  <2> QED BY <1>1, <1>3, <2>2, FS_CardinalityType, FS_AddElement, FS_EmptySet
          DEF BarrierBelow, SomeMissing
<1>5. ASSUME NEW r, Sets(r, IF Cardinality(b.arrivals) + 1 = b.parties THEN {} ELSE arrivals)
      PROVE  Operates(p, s, r)
  <2>1. Returning(p, r) = Returning(p, s)
    BY <1>5, ReturningSame
  <2>2. Arrives(p, s, r, t, x)
    BY <1>3, <1>5, <2>1 DEF Arrives, SameMutexes, SameRwLocks, SameSemaphores
  <2> QED BY <1>1, <1>3, <2>2 DEF Operates
<1>6. CASE a.parties = 0 \/ a.parties # b.parties
  <2>1. BarrierWaitEffect(p, s, step, a) = ModelError(advance_pc(p, s, t), step, "barrier")
    BY <1>6 DEF BarrierWaitEffect
  <2> QED BY <1>1, <1>2, <2>1, AdvanceSame DEF Operates
<1>7. CASE a.parties = b.parties /\ a.parties # 0 /\ Cardinality(arrivals) < b.parties
  <2> DEFINE r == [s EXCEPT !.barriers[x] =
                     [b EXCEPT !.arrivals = arrivals, !.arrival_releases = c]]
  <2>1. BarrierWaitEffect(p, s, step, a).state = r
    BY <1>3, <1>4, <1>7 DEF BarrierWaitEffect, Done
  <2>2. Sets(r, arrivals)
    BY <1>1, <1>3 DEF CountedState, BarrierBelow
  <2>3. Cardinality(b.arrivals) + 1 # b.parties
    BY <1>4, <1>7
  <2> HIDE DEF r, Sets
  <2> QED BY <1>5, <2>1, <2>2, <2>3
<1>8. CASE a.parties = b.parties /\ a.parties # 0 /\ Cardinality(arrivals) >= b.parties
  <2> DEFINE r == ReleaseGeneration(p, s, x, arrivals, c)
  <2>1. BarrierWaitEffect(p, s, step, a).state = r
    BY <1>3, <1>4, <1>8 DEF BarrierWaitEffect, Done
  <2>2. \A u \in arrivals : s.wait_phase[u] = "None"
    <3>1. \A u \in b.arrivals : u \in ThreadId /\ StandsAt(p, s, u, {"BarrierWait"})
      BY <1>1, <1>3 DEF Parked, ArrivalsParked, BarrierBelow
    <3>2. \A u \in b.arrivals : ~StandsAt(p, s, u, WaitKinds)
      BY <3>1 DEF StandsAt, WaitKinds
    <3> QED BY <1>1, <1>2, <3>1, <3>2 DEF Parked, PhasesParked
  <2>3. Sets(r, {})
    BY <1>1, <1>3, <2>2 DEF ReleaseGeneration, CountedState, Counters, BarrierBelow
  <2>4. Cardinality(b.arrivals) + 1 = b.parties
    BY <1>4, <1>8
  <2> HIDE DEF r, Sets
  <2> QED BY <1>5, <2>1, <2>3, <2>4
<1>9. Cardinality(arrivals) < b.parties \/ Cardinality(arrivals) >= b.parties
  BY <1>4
<1> QED BY <1>6, <1>7, <1>8, <1>9

\* Spawn moves the counter of a thread that has not started.
LEMMA SpawnOperatesOn ==
    ASSUME NEW p, NEW n, NEW s, NEW step, NEW a, Steps(p, n, s, step, a), a.kind = "Spawn"
    PROVE  Operates(p, s, SpawnEffect(p, s, step, a).state)
<1> DEFINE t == step.thread
           r == SpawnEffect(p, s, step, a).state
<1>1. t \in ThreadId /\ s \in CountedState(p, n) /\ n \in Counts /\ Parked(p, s)
  BY StepsFacts DEF Steps, Good
<1>2. s.wait_phase[t] = "None"
  <2>1. a.kind \notin WaitKinds
    BY DEF WaitKinds
  <2> QED BY <2>1, StepsFacts
<1>3. CASE InvalidTarget(t, a) \/ s.started[a.target]
  <2>1. SpawnEffect(p, s, step, a) = ModelError(advance_pc(p, s, t), step, "spawn")
    BY <1>3 DEF SpawnEffect
  <2> QED BY <1>1, <1>2, <2>1, AdvanceSame DEF Operates
<1>4. CASE ~InvalidTarget(t, a) /\ ~s.started[a.target]
  <2>1. a.target \in ThreadId \ {t}
    BY <1>4 DEF InvalidTarget
  <2>2. s.wait_phase[a.target] = "None"
    BY <1>1, <1>4, <2>1, StandsUnparked DEF Unparked
  <2>3. /\ r.mutex_owner = s.mutex_owner
        /\ r.condition_waiters = s.condition_waiters /\ r.wait_phase = s.wait_phase
        /\ r.rwlocks = s.rwlocks /\ r.semaphores = s.semaphores /\ r.barriers = s.barriers
        /\ \A u \in ThreadId \ {t, a.target} : r.pc[u] = s.pc[u]
    BY <1>1, <1>4, <2>1 DEF SpawnEffect, advance_pc, CountedState, Counters
  <2> HIDE DEF r
  <2>4. Returning(p, r) = Returning(p, s)
    BY <1>2, <2>2, <2>3, ReturningSame
  <2>5. SameObjects(p, s, r)
    BY <2>3, <2>4 DEF SameObjects, SameMutexes, OnlyMutexes, SameRwLocks, SameSemaphores,
                      SameBarriers
  <2> QED BY <2>5 DEF Operates, r
<1> QED BY <1>3, <1>4

\* Every source action.
LEMMA SourceOperates ==
    ASSUME NEW p, NEW n, NEW s, NEW step, NEW a, Steps(p, n, s, step, a)
    PROVE  Operates(p, s, SourceEffect(p, s, step, a).state)
<1> DEFINE t == step.thread
           out == SourceEffect(p, s, step, a)
<1> SUFFICES Operates(p, s, out.state)
  OBVIOUS
<1>1. /\ t \in ThreadId /\ s \in CountedState(p, n) /\ s.pc[t] < Len(p[t])
      /\ a.kind \notin WaitKinds => s.wait_phase[t] = "None"
  BY StepsFacts
<1>2. /\ p \in Programs /\ n \in Counts /\ step \in ScheduleStep /\ a \in Action
      /\ a.kind # "Label" /\ is_program_action_enabled(p, s, t) /\ a = next_action(p, s, t)
  BY DEF Steps, is_program_action_enabled
<1>3. a.kind \notin SemaphoreKinds => out.state.semaphores = s.semaphores
  BY <1>1, <1>2, SourceFrame
<1>4. ASSUME LocalStep(s, out.state, t), a.kind \notin WaitKinds \cup SemaphoreKinds
      PROVE  Operates(p, s, out.state)
  <2> HIDE DEF out
  <2> QED BY <1>1, <1>3, <1>4, LocalSame DEF Operates
<1> HIDE DEF out
<1>5. CASE a.kind \in {"Read", "Write"} \cup AtomicKinds /\ out = MemoryEffect(p, s, step, a)
  <2>1. LocalStep(s, out.state, t)
    BY <1>1, <1>2, <1>5, KindFields, MemoryLocal
  <2> QED BY <1>4, <1>5, <2>1 DEF AtomicKinds, WaitKinds, SemaphoreKinds
<1>6. CASE /\ a.kind \in {"Set", "BranchNonzero", "Assert", "Fence", "Yield"}
           /\ out = LocalEffect(p, s, step, a)
  <2>1. LocalStep(s, out.state, t)
    BY <1>1, <1>2, <1>6, LocalEffectLocal
  <2> QED BY <1>4, <1>6, <2>1 DEF WaitKinds, SemaphoreKinds
<1>7. CASE out = OtherSyncEffect(p, s, step, a) /\ a.kind = "Join"
  <2>1. a \in ThreadActions /\ out = JoinEffect(p, s, step, a)
    BY <1>2, <1>7, KindFields DEF OtherSyncEffect, WaitKinds, ThreadKinds
  <2>2. LocalStep(s, out.state, t)
    BY <1>1, <1>2, <2>1, SemaphoreAndJoinLocal
  <2> QED BY <1>4, <1>7, <2>2 DEF WaitKinds, SemaphoreKinds
<1>8. CASE out = OtherSyncEffect(p, s, step, a) /\ a.kind \in WaitKinds
  BY <1>8, WaitOperatesOn DEF OtherSyncEffect, WaitKinds
<1>9. CASE out = OtherSyncEffect(p, s, step, a) /\ a.kind \in NotifyKinds
  BY <1>9, NotifyOperatesOn DEF OtherSyncEffect, WaitKinds, NotifyKinds
<1>10. CASE out = OtherSyncEffect(p, s, step, a) /\ a.kind = "BarrierWait"
  BY <1>10, BarrierOperatesOn DEF OtherSyncEffect, WaitKinds
<1>11. CASE out = OtherSyncEffect(p, s, step, a) /\ a.kind = "Spawn"
  BY <1>11, SpawnOperatesOn DEF OtherSyncEffect, WaitKinds
<1> QED BY <1>2, <1>5, <1>6, <1>7, <1>8, <1>9, <1>10, <1>11, Dispatch, MutexOperatesOn,
           RwLockOperatesOn, SemaphoreOperatesOn DEF ThreadKinds, out

\* Operates looks at these fields of its first state.
LEMMA OperatesFrom ==
    ASSUME NEW p, NEW s, NEW q, NEW r, Operates(p, q, r),
           q.mutex_owner = s.mutex_owner, q.condition_waiters = s.condition_waiters,
           q.wait_phase = s.wait_phase, q.rwlocks = s.rwlocks, q.semaphores = s.semaphores,
           q.barriers = s.barriers, q.pc = s.pc
    PROVE  Operates(p, s, r)
<1>1. Returning(p, q) = Returning(p, s)
  BY DEF Returning, next_action
<1>2. /\ SameRwLocks(q, r) <=> SameRwLocks(s, r)
      /\ SameSemaphores(q, r) <=> SameSemaphores(s, r)
      /\ SameBarriers(q, r) <=> SameBarriers(s, r)
      /\ SameMutexes(p, q, r) <=> SameMutexes(p, s, r)
  BY <1>1 DEF SameRwLocks, SameSemaphores, SameBarriers, SameMutexes
<1>3. OnlyMutexes(q, r) <=> OnlyMutexes(s, r)
  BY <1>2 DEF OnlyMutexes
<1>4. SameObjects(p, q, r) <=> SameObjects(p, s, r)
  BY <1>2, <1>3 DEF SameObjects
<1>5. \A t, m : /\ Acquires(p, q, r, t, m) <=> Acquires(p, s, r, t, m)
                /\ Releases(p, q, r, t, m) <=> Releases(p, s, r, t, m)
                /\ Returns(p, q, r, t, m) <=> Returns(p, s, r, t, m)
                /\ \A c : Sleeps(p, q, r, t, c, m) <=> Sleeps(p, s, r, t, c, m)
  BY <1>1, <1>3 DEF Acquires, Releases, Returns, Sleeps
<1>6. \A c, woken : WakesUp(p, q, r, c, woken) <=> WakesUp(p, s, r, c, woken)
  BY <1>1, <1>3 DEF WakesUp
<1>7. MutexOperates(p, q, r) <=> MutexOperates(p, s, r)
  BY <1>5, <1>6 DEF MutexOperates
<1>8. \A l, R, w : SetsRwLock(p, q, r, l, R, w) <=> SetsRwLock(p, s, r, l, R, w)
  BY <1>2 DEF SetsRwLock, OnlyRwLocks
<1>9. LockOperates(p, q, r) <=> LockOperates(p, s, r)
  <2>1. \A t, l, k : LockOperation(p, q, r, t, l, k) <=> LockOperation(p, s, r, t, l, k)
    BY <1>8 DEF LockOperation
  <2> QED BY <2>1 DEF LockOperates
<1>10. \A x, i : SetsPermits(p, q, r, x, i) <=> SetsPermits(p, s, r, x, i)
  BY <1>2 DEF SetsPermits, OnlySemaphores
<1>11. SemaphoreOperates(p, q, r) <=> SemaphoreOperates(p, s, r)
  BY <1>10 DEF SemaphoreOperates
<1>12. \A t, b : Arrives(p, q, r, t, b) <=> Arrives(p, s, r, t, b)
  BY <1>2 DEF Arrives
<1> QED BY <1>4, <1>7, <1>9, <1>11, <1>12 DEF Operates

-----------------------------------------------------------------------------
(***************************************************************************)
(* What a step publishes.                                                  *)
(***************************************************************************)
\* The release clock of a mutex or a writer is replaced by the clock of its holder only; a
\* semaphore's is joined with the clock of whoever posts.
Publishes(s, r, t) ==
    /\ \A m \in Mutexes :
          \/ r.mutex_clock[m] = s.mutex_clock[m]
          \/ s.mutex_owner[m] = t /\ r.mutex_clock[m] = s.thread_clock[t]
    /\ \A l \in RwLocks :
          \/ r.rwlocks[l].writer_release = s.rwlocks[l].writer_release
          \/ s.rwlocks[l].writer_holder = t /\ r.rwlocks[l].writer_release = s.thread_clock[t]
    /\ \A q \in Semaphores :
          \/ r.semaphores[q].post_releases = s.semaphores[q].post_releases
          \/ r.semaphores[q].post_releases =
                Join(s.semaphores[q].post_releases, s.thread_clock[t])

\* A step that replaces or joins no release clock.
LEMMA PublishesNothing ==
    ASSUME NEW s, NEW r, NEW t, r.mutex_clock = s.mutex_clock, r.rwlocks = s.rwlocks,
           r.semaphores = s.semaphores
    PROVE  Publishes(s, r, t)
BY DEF Publishes

\* Lock, TryLock, Unlock.
LEMMA MutexPublishes ==
    ASSUME NEW p, NEW n, NEW s, NEW step, NEW a, Steps(p, n, s, step, a), a.kind \in MutexKinds
    PROVE  Publishes(s, MutexEffect(p, s, step, a).state, step.thread)
<1> DEFINE t == step.thread
           r == MutexEffect(p, s, step, a).state
<1>1. t \in ThreadId /\ s \in CountedState(p, n)
  BY StepsFacts
<1>2. a.mutex \in Mutexes
  <2>1. a \in LockActions
    BY KindFields DEF Steps
  <2> QED BY <2>1 DEF LockActions
<1>3. CASE a.kind \in {"Lock", "TryLock"}
  <2>1. r.mutex_clock = s.mutex_clock /\ r.rwlocks = s.rwlocks /\ r.semaphores = s.semaphores
    BY <1>1, <1>3 DEF MutexEffect, LockEffect, TryLockEffect, AcquireMutex, advance_pc,
       write_register, Done, CountedState
  <2> QED BY <2>1, PublishesNothing
<1>4. CASE a.kind = "Unlock"
  <2>1. /\ \/ r.mutex_clock = s.mutex_clock
           \/ /\ s.mutex_owner[a.mutex] = t
              /\ r.mutex_clock = [s.mutex_clock EXCEPT ![a.mutex] = s.thread_clock[t]]
        /\ r.rwlocks = s.rwlocks /\ r.semaphores = s.semaphores
    BY <1>1, <1>4 DEF MutexEffect, UnlockEffect, ReleaseMutex, advance_pc, ModelError, Done,
       CountedState
  <2>2. s.mutex_clock \in [Mutexes -> Clock]
    BY <1>1 DEF CountedState, CountedClocks, Below
  <2> HIDE DEF r
  <2>3. Publishes(s, r, t)
    BY <1>2, <2>1, <2>2 DEF Publishes
  <2> QED BY <2>3 DEF r
<1> QED BY <1>3, <1>4 DEF MutexKinds

\* The operations of a reader-writer lock.
LEMMA RwLockPublishes ==
    ASSUME NEW p, NEW n, NEW s, NEW step, NEW a, Steps(p, n, s, step, a), a.kind \in RwLockKinds
    PROVE  Publishes(s, RwLockEffect(p, s, step, a).state, step.thread)
<1> DEFINE t == step.thread
           x == a.rwlock
           l == s.rwlocks[x]
           r == RwLockEffect(p, s, step, a).state
           Others == /\ r.mutex_clock = s.mutex_clock /\ r.semaphores = s.semaphores
                     /\ \A k \in RwLocks \ {x} : r.rwlocks[k] = s.rwlocks[k]
<1>1. t \in ThreadId /\ s \in CountedState(p, n)
  BY StepsFacts
<1>2. x \in RwLocks /\ l \in RwLockBelow(n)
  <2>1. a \in RwLockActions
    BY KindFields DEF Steps
  <2> QED BY <1>1, <2>1 DEF RwLockActions, CountedState
<1>3. \/ Others /\ r.rwlocks[x].writer_release = l.writer_release
      \/ Others /\ r.rwlocks[x].writer_release = s.thread_clock[t] /\ l.writer_holder = t
  <2> USE <1>1, <1>2 DEF advance_pc, ModelError, Done, CountedState, RwLockBelow
  <2>1. CASE a.kind = "RLock"
    BY <2>1 DEF RwLockEffect, RLockEffect
  <2>2. CASE a.kind = "WLock"
    BY <2>2 DEF RwLockEffect, WLockEffect, AcquireExclusive
  <2>3. CASE a.kind = "Upgrade"
    BY <2>3 DEF RwLockEffect, UpgradeEffect, AcquireExclusive
  <2>4. CASE a.kind = "RUnlock"
    BY <2>4 DEF RwLockEffect, RUnlockEffect
  <2>5. CASE a.kind = "WUnlock"
    BY <2>5 DEF RwLockEffect, WUnlockEffect, ReleaseExclusive
  <2>6. CASE a.kind = "Downgrade"
    BY <2>6 DEF RwLockEffect, DowngradeEffect, ReleaseExclusive
  <2> QED BY <2>1, <2>2, <2>3, <2>4, <2>5, <2>6 DEF RwLockKinds
<1> HIDE DEF r
<1>4. Publishes(s, r, t)
  BY <1>2, <1>3 DEF Publishes
<1> QED BY <1>4 DEF r

\* Wait and TimedWait: parking releases the mutex.
LEMMA WaitPublishes ==
    ASSUME NEW p, NEW n, NEW s, NEW step, NEW a, Steps(p, n, s, step, a), a.kind \in WaitKinds
    PROVE  Publishes(s, WaitEffect(p, s, step, a).state, step.thread)
<1> DEFINE t == step.thread
           Others(r) == r.rwlocks = s.rwlocks /\ r.semaphores = s.semaphores
<1>1. t \in ThreadId /\ s \in CountedState(p, n) /\ s.wait_phase[t] \in WaitPhase
  BY StepsFacts DEF CountedState
<1>2. a.mutex \in Mutexes
  BY KindFields DEF Steps, WaitActions
<1>3. a.kind = "Wait" => s.wait_phase[t] # "Waiting"
  BY DEF Steps, is_program_action_enabled
<1>4. s.mutex_clock \in [Mutexes -> Clock]
  BY <1>1 DEF CountedState, CountedClocks, Below
<1>5. Publishes(s, ReacquireEffect(p, s, step, a).state, t)
  <2> DEFINE r == ReacquireEffect(p, s, step, a).state
  <2>1. r.mutex_clock = s.mutex_clock /\ Others(r)
    BY <1>1 DEF ReacquireEffect, AcquireMutex, advance_pc, Done, CountedState
  <2> QED BY <2>1, PublishesNothing
<1>6. Publishes(s, TimeoutEffect(s, step, a).state, t)
  <2> DEFINE r == TimeoutEffect(s, step, a).state
  <2>1. r.mutex_clock = s.mutex_clock /\ Others(r)
    BY <1>1 DEF TimeoutEffect, write_register, Done, CountedState
  <2> QED BY <2>1, PublishesNothing
<1>7. Publishes(s, ParkEffect(p, s, step, a).state, t)
  <2> DEFINE r == ParkEffect(p, s, step, a).state
  <2>1. /\ \/ r.mutex_clock = s.mutex_clock
           \/ /\ s.mutex_owner[a.mutex] = t
              /\ r.mutex_clock = [s.mutex_clock EXCEPT ![a.mutex] = s.thread_clock[t]]
        /\ Others(r)
    BY <1>1 DEF ParkEffect, ReleaseMutex, advance_pc, ModelError, Done, CountedState
  <2> HIDE DEF r
  <2>2. Publishes(s, r, t)
    BY <1>2, <1>4, <2>1 DEF Publishes
  <2> QED BY <2>2 DEF r
<1> QED BY <1>1, <1>3, <1>5, <1>6, <1>7 DEF WaitEffect, WaitPhase, WaitKinds

\* SemPost and SemWait.
LEMMA SemaphorePublishes ==
    ASSUME NEW p, NEW n, NEW s, NEW step, NEW a, Steps(p, n, s, step, a),
           a.kind \in SemaphoreKinds
    PROVE  Publishes(s, OtherSyncEffect(p, s, step, a).state, step.thread)
<1> DEFINE t == step.thread
           x == a.semaphore
           k == s.semaphores[x]
           Sets(r, c) ==
             /\ r.semaphores[x].post_releases = c
             /\ \A y \in Semaphores \ {x} : r.semaphores[y] = s.semaphores[y]
             /\ r.mutex_clock = s.mutex_clock /\ r.rwlocks = s.rwlocks
<1>1. t \in ThreadId /\ s \in CountedState(p, n)
  BY StepsFacts
<1>2. x \in Semaphores /\ k \in SemaphoreBelow(n)
  <2>1. a \in SemaphoreActions
    BY KindFields DEF Steps
  <2> QED BY <1>1, <2>1 DEF SemaphoreActions, CountedState
<1>3. Sets(SemPostEffect(p, s, step, a).state, Join(k.post_releases, s.thread_clock[t]))
  BY <1>1, <1>2 DEF SemPostEffect, advance_pc, Done, CountedState, SemaphoreBelow
<1>4. Sets(SemWaitEffect(p, s, step, a).state, k.post_releases)
  BY <1>1, <1>2 DEF SemWaitEffect, advance_pc, Done, CountedState, SemaphoreBelow
<1>5. \A r : \/ Sets(r, Join(k.post_releases, s.thread_clock[t])) \/ Sets(r, k.post_releases)
             => Publishes(s, r, t)
  BY DEF Publishes
<1> HIDE DEF Sets
<1> QED BY <1>3, <1>4, <1>5 DEF SemaphoreKinds, OtherSyncEffect, WaitKinds

\* Signal, Broadcast, BarrierWait and Spawn touch other clocks only.
LEMMA OthersPublish ==
    ASSUME NEW p, NEW n, NEW s, NEW step, NEW a, Steps(p, n, s, step, a),
           a.kind \in NotifyKinds \cup {"BarrierWait", "Spawn"}
    PROVE  Publishes(s, OtherSyncEffect(p, s, step, a).state, step.thread)
<1> DEFINE t == step.thread
           b == s.barriers[a.barrier]
           arrivals == b.arrivals \cup {t}
           Kept(r) == /\ DOMAIN r = DOMAIN s /\ r.mutex_clock = s.mutex_clock
                      /\ r.rwlocks = s.rwlocks /\ r.semaphores = s.semaphores
<1>1. t \in ThreadId /\ s \in CountedState(p, n)
  BY StepsFacts
<1>2. {"mutex_clock", "rwlocks", "semaphores"} \subseteq DOMAIN s
  BY <1>1 DEF CountedState
<1>3. /\ Kept(s) /\ Kept(advance_pc(p, s, t))
      /\ \A r, c, woken : Kept(r) => Kept(Wake(p, r, t, c, woken))
      /\ \A v : Kept([s EXCEPT !.barriers[a.barrier] = v])
      /\ \A x, who, c : Kept(ReleaseGeneration(p, s, x, who, c))
      /\ \A u, w : Kept([advance_pc(p, s, t) EXCEPT
                           !.started[u] = TRUE, !.pc[u] = normalize_pc(p, u, @),
                           !.thread_clock[u] = w])
  BY <1>2 DEF advance_pc, Wake, ReleaseGeneration
<1> HIDE DEF Kept
<1>4. CASE a.kind \in NotifyKinds
  <2>1. Kept(OtherSyncEffect(p, s, step, a).state)
    BY <1>3, <1>4 DEF OtherSyncEffect, SignalEffect, BroadcastEffect, Done, NotifyKinds, WaitKinds
  <2> QED BY <2>1, PublishesNothing DEF Kept
<1>5. CASE a.kind = "BarrierWait"
  <2>1. a.barrier \in Barriers /\ b \in BarrierBelow(n)
    <3>1. a \in BarrierActions
      BY <1>5, KindFields DEF Steps
    <3> QED BY <1>1, <3>1 DEF BarrierActions, CountedState
  <2>2. b.parties \in Nat /\ Cardinality(arrivals) \in Nat
    <3>1. IsFiniteSet(ThreadId)
      BY SizesAssumption, FS_Interval DEF ThreadId
    <3>2. IsFiniteSet(arrivals)
      BY <1>1, <2>1, <3>1, FS_Subset DEF BarrierBelow
    <3> QED BY <2>1, <3>2, FS_CardinalityType DEF BarrierBelow
  <2>3. Cardinality(arrivals) < b.parties \/ Cardinality(arrivals) >= b.parties
    BY <2>2
  <2>4. Kept(BarrierWaitEffect(p, s, step, a).state)
    BY <1>3, <2>3 DEF BarrierWaitEffect, Done, ModelError
  <2>5. OtherSyncEffect(p, s, step, a) = BarrierWaitEffect(p, s, step, a)
    BY <1>5 DEF OtherSyncEffect, WaitKinds
  <2> QED BY <2>4, <2>5, PublishesNothing DEF Kept
<1>6. CASE a.kind = "Spawn"
  <2>1. Kept(SpawnEffect(p, s, step, a).state)
    BY <1>3 DEF SpawnEffect, ModelError
  <2>2. OtherSyncEffect(p, s, step, a) = SpawnEffect(p, s, step, a)
    BY <1>6 DEF OtherSyncEffect, WaitKinds
  <2> QED BY <2>1, <2>2, PublishesNothing DEF Kept
<1> QED BY <1>4, <1>5, <1>6

\* Every source action.
LEMMA SourcePublishes ==
    ASSUME NEW p, NEW n, NEW s, NEW step, NEW a, Steps(p, n, s, step, a)
    PROVE  Publishes(s, SourceEffect(p, s, step, a).state, step.thread)
<1> DEFINE t == step.thread
           out == SourceEffect(p, s, step, a)
<1> SUFFICES Publishes(s, out.state, t)
  OBVIOUS
<1>1. /\ p \in Programs /\ n \in Counts /\ s \in CountedState(p, n) /\ t \in ThreadId
      /\ step \in ScheduleStep /\ is_program_action_enabled(p, s, t)
      /\ a \in Action /\ a = next_action(p, s, t) /\ a.kind # "Label" /\ s.pc[t] < Len(p[t])
  BY StepsFacts DEF Steps, is_program_action_enabled
<1>2. a.kind \notin SemaphoreKinds => out.state.semaphores = s.semaphores
  BY <1>1, SourceFrame
<1>3. ASSUME LocalStep(s, out.state, t), a.kind \notin SemaphoreKinds
      PROVE  Publishes(s, out.state, t)
  BY <1>2, <1>3, PublishesNothing DEF LocalStep
<1> HIDE DEF out
<1>4. CASE a.kind \in {"Read", "Write"} \cup AtomicKinds /\ out = MemoryEffect(p, s, step, a)
  <2>1. LocalStep(s, out.state, t)
    BY <1>1, <1>4, KindFields, MemoryLocal
  <2> QED BY <1>3, <1>4, <2>1 DEF AtomicKinds, SemaphoreKinds
<1>5. CASE /\ a.kind \in {"Set", "BranchNonzero", "Assert", "Fence", "Yield"}
           /\ out = LocalEffect(p, s, step, a)
  <2>1. LocalStep(s, out.state, t)
    BY <1>1, <1>5, LocalEffectLocal
  <2> QED BY <1>3, <1>5, <2>1 DEF SemaphoreKinds
<1>6. CASE out = OtherSyncEffect(p, s, step, a) /\ a.kind = "Join"
  <2>1. a \in ThreadActions /\ out = JoinEffect(p, s, step, a)
    BY <1>1, <1>6, KindFields DEF OtherSyncEffect, WaitKinds, ThreadKinds
  <2>2. LocalStep(s, out.state, t)
    BY <1>1, <2>1, SemaphoreAndJoinLocal
  <2> QED BY <1>3, <1>6, <2>2 DEF SemaphoreKinds
<1>7. CASE out = OtherSyncEffect(p, s, step, a) /\ a.kind \in WaitKinds
  BY <1>7, WaitPublishes DEF OtherSyncEffect, WaitKinds
<1> QED BY <1>1, <1>4, <1>5, <1>6, <1>7, Dispatch, MutexPublishes, RwLockPublishes,
           SemaphorePublishes, OthersPublish DEF ThreadKinds, out

\* A holder has acquired what it replaces, so nothing published is lost.
LEMMA PublishesMore ==
    ASSUME NEW p, NEW n, NEW s \in CountedState(p, n), HandedOff(s), NEW t \in ThreadId,
           NEW r, Publishes(s, r, t)
    PROVE  /\ \A m \in Mutexes : HBE(s.mutex_clock[m], r.mutex_clock[m])
           /\ \A l \in RwLocks : HBE(s.rwlocks[l].writer_release, r.rwlocks[l].writer_release)
           /\ \A q \in Semaphores :
                 HBE(s.semaphores[q].post_releases, r.semaphores[q].post_releases)
<1>1. /\ \A m \in Mutexes : s.mutex_clock[m] \in Clock
      /\ \A l \in RwLocks : s.rwlocks[l].writer_release \in Clock
      /\ \A q \in Semaphores : s.semaphores[q].post_releases \in Clock
      /\ s.thread_clock[t] \in Clock
  BY DEF CountedState, CountedClocks, Below, RwLockBelow, SemaphoreBelow
<1>2. t # NoThread
  BY SizesAssumption DEF ThreadId, NoThread
<1> QED BY <1>1, <1>2, HBEOrder, JoinType DEF Publishes, HandedOff

-----------------------------------------------------------------------------
\* Executing a step performs one operation, or none.
LEMMA ExecuteOperates ==
    ASSUME IInv, NEW step, step.thread \in ThreadId, Execute(step)
    PROVE  Operates(program, state, state')
<1> DEFINE t == step.thread
           m == CountedBy(Tick(state.thread_steps, t))
           q == BeginStep(state, t)
<1>1. /\ state' = execute_enabled_step(program, state, step).state
      /\ LocalStep(state, q, t) /\ q.pc = state.pc /\ q.semaphores = state.semaphores
      /\ SourceRun(program, m, state, q, step) \/ FlushRun(program, m, state, q, step)
  BY ExecuteRuns
<1> HIDE DEF m, q
<1>2. SUFFICES Operates(program, q, state')
  BY <1>1, OperatesFrom DEF LocalStep, OwnStep
<1>3. CASE SourceRun(program, m, state, q, step)
  BY <1>1, <1>3, SourceOperates DEF SourceRun
<1>4. CASE FlushRun(program, m, state, q, step)
  BY <1>1, <1>4, FlushRuns, LocalSame DEF Operates
<1> QED BY <1>1, <1>3, <1>4

(***************************************************************************)
(* The interpreter implements the abstract synchronisation objects: every  *)
(* step of execute_enabled_step does to the mutexes, conditions, locks,    *)
(* semaphores and barriers what one operation of Synchronizers does, or    *)
(* nothing.                                                                *)
(***************************************************************************)
THEOREM SynchronizersImplemented == Spec => ImplementsSynchronizers
<1>1. Init => Objects!Init
  <2> SUFFICES ASSUME Init PROVE Objects!Init
    OBVIOUS
  <2>1. PICK model \in MemoryModels : state = initial_state(program, model)
    BY DEF Init
  <2>2. program \in Programs
    BY DEF Init
  <2>3. \A b \in Barriers : BarrierParties(program, b) \in Nat
    BY <2>2, BarrierPartiesType
  <2> QED BY <2>1, <2>3 DEF Objects!Init, initial_state, initial_barriers, FreeRwLock
<1>2. IInv /\ IInv' /\ [Next]_vars => [Objects!Next]_(Objects!objects)
  <2> SUFFICES ASSUME IInv, IInv', [Next]_vars PROVE [Objects!Next]_(Objects!objects)
    OBVIOUS
  <2>1. CASE UNCHANGED vars
    BY <2>1 DEF vars, Objects!objects
  <2>2. CASE Next
    <3>1. PICK step : step.thread \in ThreadId /\ Execute(step)
      BY <2>2, NextExecutes
    <3>2. Operates(program, state, state') /\ program' = program
      BY <3>1, ExecuteOperates DEF Execute
    <3>3. /\ state \in CountedState(program, CountedBy(state.thread_steps))
          /\ state' \in CountedState(program, CountedBy(state'.thread_steps))
      BY <3>2 DEF IInv, Sound, Good
    <3> QED BY <3>2, <3>3, Implements
  <2> QED BY <2>1, <2>2
<1> QED BY <1>1, <1>2, Invariance, PTL DEF ImplementsSynchronizers, Objects!Spec, Spec

(***************************************************************************)
(* Published release clocks never lose anything, although Unlock, WUnlock, *)
(* Downgrade and a parking wait overwrite the clock of their lock.         *)
(***************************************************************************)
THEOREM PublicationsGrow == Spec => PublicationMonotone
<1> DEFINE More(s, r) ==
             /\ \A m \in Mutexes : HBE(s.mutex_clock[m], r.mutex_clock[m])
             /\ \A l \in RwLocks : HBE(s.rwlocks[l].writer_release, r.rwlocks[l].writer_release)
             /\ \A q \in Semaphores :
                   HBE(s.semaphores[q].post_releases, r.semaphores[q].post_releases)
<1>1. ASSUME IInv, Next PROVE More(state, state')
  <2>1. PICK step : step.thread \in ThreadId /\ Execute(step)
    BY <1>1, NextExecutes
  <2> DEFINE t == step.thread
             m == CountedBy(Tick(state.thread_steps, t))
             q == BeginStep(state, t)
  <2>2. /\ state' = execute_enabled_step(program, state, step).state
        /\ LocalStep(state, q, t) /\ q.semaphores = state.semaphores /\ Good(program, m, q)
        /\ SourceRun(program, m, state, q, step) \/ FlushRun(program, m, state, q, step)
    BY <1>1, <2>1, ExecuteRuns
  <2>3. q \in CountedState(program, m) /\ HandedOff(q)
    BY <2>2 DEF Good
  <2> HIDE DEF m, q
  <2>4. Publishes(q, state', t)
    <3>1. CASE SourceRun(program, m, state, q, step)
      BY <2>2, <3>1, SourcePublishes DEF SourceRun
    <3>2. CASE FlushRun(program, m, state, q, step)
      BY <2>2, <3>2, FlushRuns, PublishesNothing DEF LocalStep
    <3> QED BY <2>2, <3>1, <3>2
  <2>5. More(q, state')
    BY <2>1, <2>3, <2>4, PublishesMore
  <2> QED BY <2>2, <2>5 DEF LocalStep
<1>2. IInv /\ [Next]_vars => [More(state, state')]_vars
  BY <1>1
<1> QED BY <1>2, Invariance, PTL DEF Spec, PublicationMonotone

-----------------------------------------------------------------------------
(***************************************************************************)
(* The deadlock report.                                                    *)
(***************************************************************************)
\* The fields of its entries.
LEMMA BlockedFields ==
    ASSUME NEW t, NEW k, NEW o
    PROVE  LET b == Blocked(t, k, o)
           IN  /\ b.thread = t /\ b.kind = k /\ b.object = o
               /\ \A v : LET c == [b EXCEPT !.owner = v]
                         IN  c.thread = t /\ c.kind = k /\ c.object = o /\ c.owner = v
               /\ \A v : LET c == [b EXCEPT !.target = v]
                         IN  c.thread = t /\ c.kind = k /\ c.object = o /\ c.target = v
               /\ \A v : LET c == [b EXCEPT !.self_wait = v]
                         IN  c.thread = t /\ c.kind = k /\ c.object = o /\ c.self_wait = v
               /\ \A v : LET c == [b EXCEPT !.mutex = v]
                         IN  c.thread = t /\ c.kind = k /\ c.object = o /\ c.mutex = v
<1> DEFINE b == Blocked(t, k, o)
<1>1. /\ b.thread = t /\ b.kind = k /\ b.object = o
      /\ DOMAIN b = {"thread", "kind", "object", "mutex", "owner", "target", "self_wait"}
  BY DEF Blocked
<1> HIDE DEF b
<1> QED BY <1>1 DEF b

\* A thread stands on an action, never on a label.
LEMMA NoLabel ==
    ASSUME NEW p \in Programs, NEW n, NEW s \in CountedState(p, n), NEW t \in ThreadId,
           has_next_action(p, s, t)
    PROVE  next_action(p, s, t) \in Action /\ next_action(p, s, t).kind # "Label"
<1>1. PICK i \in 0 .. Len(p[t]) : s.pc[t] = normalize_pc(p, t, i)
  BY DEF CountedState, Counters
<1> DEFINE S == {j \in i .. Len(p[t]) : j = Len(p[t]) \/ ActionAt(p, t, j).kind # "Label"}
<1>2. S \in SUBSET Nat /\ Len(p[t]) \in S
  BY ActionType
<1>3. s.pc[t] \in S
  BY <1>1, <1>2, LeastNatural DEF normalize_pc
<1>4. s.pc[t] \in 0 .. Len(p[t]) - 1 /\ ActionAt(p, t, s.pc[t]).kind # "Label"
  BY <1>2, <1>3, ActionType DEF has_next_action
<1> QED BY <1>4, ActionType DEF next_action

\* A thread that cannot go on is reported once, with what blocks it.
LEMMA BlockedOnce ==
    ASSUME IInv, NEW t \in ThreadId, state.started[t], has_next_action(program, state, t),
           ~has_pending_store(state, t), ~is_program_action_enabled(program, state, t)
    PROVE  \E b : BlockedThread(program, state, t) = {b} /\ b.thread = t /\ Blocks(b)
<1> DEFINE a == next_action(program, state, t)
           phase == state.wait_phase[t]
           B == BlockedThread(program, state, t)
           l == state.rwlocks[a.rwlock]
<1>1. /\ program \in Programs /\ state \in CountedState(program, CountedBy(state.thread_steps))
      /\ phase \in {"None", "Waiting", "Woken"}
  BY DEF IInv, Sound, Good, CountedState, WaitPhase
<1>2. a \in Action /\ a.kind # "Label"
  BY <1>1, NoLabel
<1>3. a.kind # "Flush"
  BY <1>2 DEF Action, MemoryActions, LockActions, WaitActions, NotifyActions, RwLockActions,
     SemaphoreActions, BarrierActions, ThreadActions, SetActions, BranchActions,
     AssertActions, LabelActions, PlainSteps, AtomicKinds, MutexKinds, WaitKinds, NotifyKinds,
     RwLockKinds, SemaphoreKinds, ThreadKinds
<1> HIDE DEF a
<1>4. \/ a.kind = "Lock" /\ state.mutex_owner[a.mutex] # NoThread
      \/ a.kind = "RLock" /\ l.writer_holder \notin {NoThread, t}
      \/ a.kind = "WLock" /\ l.writer_holder # t
           /\ (l.writer_holder # NoThread \/ l.reader_holders # {})
      \/ a.kind = "Upgrade" /\ t \in l.reader_holders /\ l.reader_holders # {t}
      \/ a.kind = "SemWait" /\ ~(state.semaphores[a.semaphore].permits > 0)
      \/ a.kind = "BarrierWait" /\ t \in state.barriers[a.barrier].arrivals
      \/ /\ a.kind = "Join" /\ ~InvalidTarget(t, a)
         /\ ~is_finished(program, state, a.target)
      \/ a.kind \in WaitKinds /\ phase = "Waiting"
      \/ a.kind \in WaitKinds /\ phase = "Woken" /\ state.mutex_owner[a.mutex] # NoThread
  BY <1>2, <1>3 DEF is_program_action_enabled, WaitKinds, a
<1>5. CASE \/ a.kind = "Lock" /\ state.mutex_owner[a.mutex] # NoThread
           \/ a.kind \in WaitKinds /\ phase = "Woken" /\ state.mutex_owner[a.mutex] # NoThread
  <2> DEFINE b == BlockedOnMutex(state, t, a.mutex)
  <2>1. B = {b}
    BY <1>5 DEF BlockedThread, WaitKinds, a
  <2>2. /\ b.thread = t /\ b.kind = "Mutex" /\ b.object = a.mutex
        /\ b.owner = state.mutex_owner[a.mutex]
    BY BlockedFields DEF BlockedOnMutex
  <2> HIDE DEF b
  <2> QED BY <1>5, <2>1, <2>2 DEF Blocks
<1>6. CASE /\ a.kind \in {"RLock", "WLock"} /\ l.writer_holder \notin {NoThread, t}
  <2> DEFINE b == BlockedOnRwLock(state, t, a)
  <2>1. B = {b}
    BY <1>6 DEF BlockedThread, WaitKinds, a
  <2>2. /\ b.thread = t /\ b.kind = "RwLockWriter" /\ b.object = a.rwlock
        /\ b.owner = l.writer_holder
    BY <1>6, BlockedFields DEF BlockedOnRwLock
  <2> HIDE DEF b
  <2> QED BY <1>6, <2>1, <2>2 DEF Blocks
<1>7. CASE a.kind = "WLock" /\ l.writer_holder = NoThread /\ l.reader_holders # {}
  <2> DEFINE b == BlockedOnRwLock(state, t, a)
  <2>1. B = {b}
    BY <1>7 DEF BlockedThread, WaitKinds, a
  <2>2. /\ b.thread = t /\ b.kind = "RwLockReaders" /\ b.object = a.rwlock
        /\ b.self_wait = (t \in l.reader_holders)
    <3> DEFINE c == Blocked(t, "RwLockReaders", a.rwlock)
               v == t \in l.reader_holders
    <3>1. b = [c EXCEPT !.self_wait = v]
      BY <1>7 DEF BlockedOnRwLock
    <3>2. \A w : LET d == [c EXCEPT !.self_wait = w]
                IN  /\ d.thread = t /\ d.kind = "RwLockReaders" /\ d.object = a.rwlock
                    /\ d.self_wait = w
      BY BlockedFields
    <3> HIDE DEF b, c
    <3> QED BY <3>1, <3>2
  <2> HIDE DEF b
  <2> QED BY <1>7, <2>1, <2>2 DEF Blocks
<1>8. CASE a.kind = "Upgrade" /\ t \in l.reader_holders /\ l.reader_holders # {t}
  <2> DEFINE b == BlockedOnRwLock(state, t, a)
  <2>1. B = {b}
    BY <1>8 DEF BlockedThread, WaitKinds, a
  <2>2. b.thread = t /\ b.kind = "RwLockUpgrade" /\ b.object = a.rwlock
    BY <1>8, BlockedFields DEF BlockedOnRwLock
  <2> HIDE DEF b
  <2> QED BY <1>8, <2>1, <2>2 DEF Blocks
<1>9. CASE a.kind = "SemWait" /\ ~(state.semaphores[a.semaphore].permits > 0)
  <2> DEFINE b == Blocked(t, "Semaphore", a.semaphore)
  <2>1. B = {b}
    BY <1>9 DEF BlockedThread, WaitKinds, a
  <2>2. b.thread = t /\ b.kind = "Semaphore" /\ b.object = a.semaphore
    BY BlockedFields
  <2>3. state.semaphores[a.semaphore].permits = 0
    <3>1. a.semaphore \in Semaphores
      BY <1>2, <1>9, KindFields DEF SemaphoreActions, SemaphoreKinds
    <3>2. state.semaphores[a.semaphore].permits \in Nat
      BY <1>1, <3>1 DEF CountedState, SemaphoreBelow
    <3> QED BY <1>9, <3>2
  <2> HIDE DEF b
  <2> QED BY <1>9, <2>1, <2>2, <2>3 DEF Blocks
<1>10. CASE a.kind = "BarrierWait" /\ t \in state.barriers[a.barrier].arrivals
  <2> DEFINE b == Blocked(t, "Barrier", a.barrier)
  <2>1. B = {b}
    BY <1>10 DEF BlockedThread, WaitKinds, a
  <2>2. b.thread = t /\ b.kind = "Barrier" /\ b.object = a.barrier
    BY BlockedFields
  <2> HIDE DEF b
  <2> QED BY <1>10, <2>1, <2>2 DEF Blocks
<1>11. CASE /\ a.kind = "Join" /\ ~InvalidTarget(t, a)
            /\ ~is_finished(program, state, a.target)
  <2> DEFINE nothing == ""
             b == [Blocked(t, "Thread", nothing) EXCEPT !.target = a.target]
  <2>1. B = {b}
    BY <1>11 DEF BlockedThread, WaitKinds, a
  <2> HIDE DEF nothing
  <2>2. b.thread = t /\ b.kind = "Thread" /\ b.target = a.target
    BY BlockedFields
  <2> HIDE DEF b
  <2> QED BY <1>11, <2>1, <2>2 DEF Blocks
<1>12. CASE a.kind \in WaitKinds /\ phase = "Waiting"
  <2> DEFINE b == [Blocked(t, "ConditionVariable", a.condition) EXCEPT !.mutex = a.mutex]
  <2>1. B = {b}
    BY <1>12 DEF BlockedThread, WaitKinds, a
  <2>2. /\ b.thread = t /\ b.kind = "ConditionVariable" /\ b.object = a.condition
        /\ b.mutex = a.mutex
    BY BlockedFields
  <2>3. t \in state.condition_waiters[a.condition] /\ state.mutex_owner[a.mutex] # t
    <3>1. a.condition \in Conditions
      BY <1>2, <1>12, KindFields DEF WaitActions
    <3> QED BY <1>12, <3>1 DEF IInv, Sound, Good, Parked, WaitersParked, PhasesParked, StandsAt, a
  <2> HIDE DEF b
  <2> QED BY <1>12, <2>1, <2>2, <2>3 DEF Blocks
<1>13. a.kind = "WLock" => \/ l.writer_holder \notin {NoThread, t} \/ l.writer_holder = t
                           \/ l.writer_holder = NoThread
  OBVIOUS
<1> QED BY <1>4, <1>5, <1>6, <1>7, <1>8, <1>9, <1>10, <1>11, <1>12, <1>13

(***************************************************************************)
(* When no step is enabled and a thread has not finished, the report names *)
(* each unfinished thread once, with an obstacle that is really there.     *)
(***************************************************************************)
THEOREM DeadlocksExplained == Spec => []DeadlockExplained
<1>1. IInv => DeadlockExplained
  <2> SUFFICES ASSUME IInv, Deadlocked(program, state)
               PROVE  LET report == make_deadlock_report(program, state)
                      IN  /\ {b.thread : b \in report} =
                                {t \in ThreadId :
                                    state.started[t] /\ ~is_finished(program, state, t)}
                          /\ Cardinality(report) = Cardinality({b.thread : b \in report})
                          /\ \A b \in report : Blocks(b)
    BY DEF DeadlockExplained
  <2> DEFINE report == make_deadlock_report(program, state)
             T == {t \in ThreadId : state.started[t] /\ ~is_finished(program, state, t)}
             blocker == [t \in T |-> CHOOSE b : BlockedThread(program, state, t) = {b}]
  <2>1. ASSUME NEW t \in T
        PROVE  \E b : BlockedThread(program, state, t) = {b} /\ b.thread = t /\ Blocks(b)
    <3>1. ~has_pending_store(state, t) /\ ~is_program_action_enabled(program, state, t)
      BY DEF Deadlocked, any_enabled
    <3>2. state.memory_model \in {"SC", "TSO", "PSO"}
      BY DEF IInv, Sound, Good, CountedState, MemoryModel
    <3>3. /\ state.store_buffers[t] = <<>>
          /\ \A x \in Addresses : state.pso_store_buffers[t][x] = <<>>
      BY <3>1, <3>2 DEF has_pending_store, IInv, Sound, Buffered
    <3>4. has_next_action(program, state, t)
      BY <3>3 DEF is_finished
    <3> QED BY <3>1, <3>4, BlockedOnce
  <2>2. \A t \in T : /\ BlockedThread(program, state, t) = {blocker[t]}
                     /\ blocker[t].thread = t /\ Blocks(blocker[t])
    BY <2>1
  <2>3. report = {blocker[t] : t \in T}
    <3>1. report = UNION {BlockedThread(program, state, t) : t \in T}
      BY DEF make_deadlock_report
    <3> HIDE DEF blocker, report, T
    <3> QED BY <2>2, <3>1
  <2> HIDE DEF blocker, report, T
  <2>4. {b.thread : b \in report} = T /\ \A b \in report : Blocks(b)
    BY <2>2, <2>3
  <2>5. Cardinality(report) = Cardinality(T)
    <3> DEFINE f == [t \in T |-> blocker[t]]
    <3>1. f \in Bijection(T, report)
      BY <2>2, <2>3 DEF Bijection, Injection, Surjection, IsInjective
    <3>2. IsFiniteSet(T)
      <4>1. IsFiniteSet(ThreadId)
        BY SizesAssumption, FS_Interval DEF ThreadId
      <4> QED BY <4>1, FS_Subset DEF T
    <3> QED BY <3>1, <3>2, FS_Bijection DEF ExistsBijection
  <2> QED BY <2>4, <2>5 DEF T, report
<1> QED BY <1>1, Invariance, PTL
=============================================================================
