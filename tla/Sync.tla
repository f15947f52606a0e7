-------------------------------- MODULE Sync --------------------------------
(***************************************************************************)
(* The synchronisation actions of execute_enabled_step                     *)
(* (src/model/checker.cpp): mutexes, condition variables, reader-writer    *)
(* locks, semaphores, barriers, spawn and join, and the register actions.  *)
(* As in Memory, an effect gets the state with the stepping thread ticked. *)
(***************************************************************************)
EXTENDS Memory

-----------------------------------------------------------------------------
(***************************************************************************)
(* Mutexes.                                                                *)
(***************************************************************************)
AcquireMutex(s, t, m) ==
    [s EXCEPT !.mutex_owner[m] = t,
              !.thread_clock[t] = Join(@, s.mutex_clock[m])]

\* Variant: the release publishes the clock of a step not yet taken.
ReleaseMutexAhead(s, t, m) ==
    [s EXCEPT !.mutex_owner[m] = NoThread,
              !.mutex_clock[m] = Tick(s.thread_clock[t], t)]

ReleaseMutex(s, t, m) ==
    [s EXCEPT !.mutex_owner[m] = NoThread,
              !.mutex_clock[m] = s.thread_clock[t]]

LockEffect(p, s, step, a) ==
    Done(AcquireMutex(advance_pc(p, s, step.thread), step.thread, a.mutex))

\* Variant: a successful TryLock takes the mutex without acquiring its clock.
TryLockWithoutAcquire(p, s, step, a) ==
    LET t == step.thread
        free == s.mutex_owner[a.mutex] = NoThread
        n == write_register(advance_pc(p, s, t), t, RegisterOr0(a.destination),
                            IF free THEN 1 ELSE 0)
    IN  Done(IF free THEN [n EXCEPT !.mutex_owner[a.mutex] = t] ELSE n)

\* A failed TryLock writes its result and acquires nothing.
TryLockEffect(p, s, step, a) ==
    LET t == step.thread
        free == s.mutex_owner[a.mutex] = NoThread
        n == write_register(advance_pc(p, s, t), t, RegisterOr0(a.destination),
                            IF free THEN 1 ELSE 0)
    IN  Done(IF free THEN AcquireMutex(n, t, a.mutex) ELSE n)

UnlockEffect(p, s, step, a) ==
    LET t == step.thread
        n == advance_pc(p, s, t)
    IN  IF s.mutex_owner[a.mutex] = t
        THEN Done(ReleaseMutex(n, t, a.mutex))
        ELSE ModelError(n, step, "unlock")

-----------------------------------------------------------------------------
(***************************************************************************)
(* Condition variables.  Wait and TimedWait park (releasing the mutex) and *)
(* stay at their action until a wake, or a timeout of a TimedWait, makes   *)
(* them Woken; the second step reacquires the mutex and advances.          *)
(***************************************************************************)
ParkEffect(p, s, step, a) ==
    LET t == step.thread
    IN  IF s.mutex_owner[a.mutex] = t
        THEN Done([ReleaseMutex(s, t, a.mutex) EXCEPT
                      !.condition_waiters[a.condition] = @ \cup {t},
                      !.wait_phase[t] = "Waiting"])
        ELSE ModelError(advance_pc(p, s, t), step, "wait")

\* Variant: a timed-out waiter stays in the condition's waiter set.
TimeoutKeepsWaiter(s, step, a) ==
    LET t == step.thread
    IN  Done([write_register(s, t, RegisterOr0(a.destination), 0) EXCEPT
                 !.wait_phase[t] = "Woken"])

TimeoutEffect(s, step, a) ==
    LET t == step.thread
        r == write_register(s, t, RegisterOr0(a.destination), 0)
    IN  Done([r EXCEPT !.condition_waiters[a.condition] = @ \ {t},
                       !.wait_phase[t] = "Woken"])

\* Variant: the reacquisition leaves the thread at its wait.
ReacquireWithoutAdvance(p, s, step, a) ==
    Done([AcquireMutex(s, step.thread, a.mutex) EXCEPT !.wait_phase[step.thread] = "None"])

ReacquireEffect(p, s, step, a) ==
    LET t == step.thread
    IN  Done(advance_pc(p, [AcquireMutex(s, t, a.mutex) EXCEPT !.wait_phase[t] = "None"], t))

WaitEffect(p, s, step, a) ==
    CASE s.wait_phase[step.thread] = "Woken" -> ReacquireEffect(p, s, step, a)
      [] s.wait_phase[step.thread] = "Waiting" /\ a.kind = "TimedWait" ->
           TimeoutEffect(s, step, a)
      [] s.wait_phase[step.thread] = "None" -> ParkEffect(p, s, step, a)

\* wake_waiter for each thread of woken: a woken TimedWait's result register gets 1.
WakeResult(p, s, u) == RegisterOr0(next_action(p, s, u).destination)
\* Variant: a wake passes on the waker's own steps, not what it knows of others.
WakeOwnSteps(p, s, t, c, woken) ==
    [s EXCEPT
        !.condition_waiters[c] = @ \ woken,
        !.wait_phase = [u \in ThreadId |-> IF u \in woken THEN "Woken" ELSE @[u]],
        !.thread_clock =
            [u \in ThreadId |-> IF u \in woken THEN [@[u] EXCEPT ![t] = s.thread_clock[t][t]]
                                ELSE @[u]]]

Wake(p, s, t, c, woken) ==
    [s EXCEPT
        !.condition_waiters[c] = @ \ woken,
        !.wait_phase = [u \in ThreadId |-> IF u \in woken THEN "Woken" ELSE @[u]],
        !.thread_clock =
            [u \in ThreadId |-> IF u \in woken THEN Join(@[u], s.thread_clock[t]) ELSE @[u]],
        !.registers =
            [u \in ThreadId |->
                IF u \in woken /\ next_action(p, s, u).kind = "TimedWait"
                THEN [s.registers[u] EXCEPT ![WakeResult(p, s, u)] = 1]
                ELSE @[u]]]

\* signal_one_waiter wakes the lowest-numbered waiter.
SignalEffect(p, s, step, a) ==
    LET waiters == s.condition_waiters[a.condition]
        first == {u \in waiters : \A v \in waiters : u <= v}
    IN  Done(Wake(p, advance_pc(p, s, step.thread), step.thread, a.condition, first))

BroadcastEffect(p, s, step, a) ==
    Done(Wake(p, advance_pc(p, s, step.thread), step.thread, a.condition,
              s.condition_waiters[a.condition]))

-----------------------------------------------------------------------------
(***************************************************************************)
(* Reader-writer locks.  A reader acquires the last writer's release; a    *)
(* writer acquires that and the releases of the readers since the last     *)
(* writer, and starts a new reader epoch.                                  *)
(***************************************************************************)
RLockEffect(p, s, step, a) ==
    LET t == step.thread
        l == s.rwlocks[a.rwlock]
        n == advance_pc(p, s, t)
    IN  IF t \in l.reader_holders \/ l.writer_holder = t
        THEN ModelError(n, step, "rwlock reentrancy")
        ELSE Done([n EXCEPT
                !.thread_clock[t] = Join(@, l.writer_release),
                !.rwlocks[a.rwlock] = [l EXCEPT !.reader_holders = @ \cup {t}]])

\* The exclusive acquisition WLock and Upgrade share.
AcquireExclusive(n, t, a, l) ==
    [n EXCEPT
        !.thread_clock[t] = Join(Join(@, l.writer_release), l.reader_releases),
        !.rwlocks[a.rwlock] = [l EXCEPT !.reader_releases = Zero, !.writer_holder = t]]

WLockEffect(p, s, step, a) ==
    LET t == step.thread
        l == s.rwlocks[a.rwlock]
        n == advance_pc(p, s, t)
    IN  IF l.writer_holder = t
        THEN ModelError(n, step, "rwlock reentrancy")
        ELSE Done(AcquireExclusive(n, t, a, l))

UpgradeEffect(p, s, step, a) ==
    LET t == step.thread
        l == s.rwlocks[a.rwlock]
        n == advance_pc(p, s, t)
    IN  IF t \in l.reader_holders
        THEN Done(AcquireExclusive(n, t, a, [l EXCEPT !.reader_holders = @ \ {t}]))
        ELSE ModelError(n, step, "rwlock mode")

\* Variant: the last reader's release replaces those of the other readers.
RUnlockOverwrites(p, s, step, a) ==
    LET t == step.thread
        l == s.rwlocks[a.rwlock]
        n == advance_pc(p, s, t)
    IN  IF t \in l.reader_holders
        THEN Done([n EXCEPT !.rwlocks[a.rwlock] =
                [l EXCEPT !.reader_releases = s.thread_clock[t],
                          !.reader_holders = @ \ {t}]])
        ELSE ModelError(n, step, "rwlock mode")

RUnlockEffect(p, s, step, a) ==
    LET t == step.thread
        l == s.rwlocks[a.rwlock]
        n == advance_pc(p, s, t)
    IN  IF t \in l.reader_holders
        THEN Done([n EXCEPT !.rwlocks[a.rwlock] =
                [l EXCEPT !.reader_releases = Join(@, s.thread_clock[t]),
                          !.reader_holders = @ \ {t}]])
        ELSE ModelError(n, step, "rwlock mode")

\* WUnlock and Downgrade publish the writer's clock; Downgrade stays as a reader.
ReleaseExclusive(n, t, a, readers) ==
    LET l == n.rwlocks[a.rwlock]
    IN  [n EXCEPT !.rwlocks[a.rwlock] =
            [l EXCEPT !.writer_release = n.thread_clock[t], !.writer_holder = NoThread,
                      !.reader_holders = @ \cup readers]]

WUnlockEffect(p, s, step, a) ==
    LET t == step.thread
        n == advance_pc(p, s, t)
    IN  IF s.rwlocks[a.rwlock].writer_holder = t
        THEN Done(ReleaseExclusive(n, t, a, {}))
        ELSE ModelError(n, step, "rwlock mode")

DowngradeEffect(p, s, step, a) ==
    LET t == step.thread
        n == advance_pc(p, s, t)
    IN  IF s.rwlocks[a.rwlock].writer_holder = t
        THEN Done(ReleaseExclusive(n, t, a, {t}))
        ELSE ModelError(n, step, "rwlock mode")

-----------------------------------------------------------------------------
(***************************************************************************)
(* Semaphores: permits are anonymous, so a wait acquires every prior post. *)
(***************************************************************************)
SemPostEffect(p, s, step, a) ==
    LET q == s.semaphores[a.semaphore]
    IN  Done([advance_pc(p, s, step.thread) EXCEPT !.semaphores[a.semaphore] =
                [q EXCEPT !.permits = @ + 1,
                          !.post_releases = Join(@, s.thread_clock[step.thread])]])

\* Variant: a wait takes the clocks of the posts away with its permit.
SemWaitTakesReleases(p, s, step, a) ==
    LET q == s.semaphores[a.semaphore]
    IN  Done([advance_pc(p, s, step.thread) EXCEPT
                !.semaphores[a.semaphore] = [q EXCEPT !.permits = @ - 1, !.post_releases = Zero],
                !.thread_clock[step.thread] = Join(@, q.post_releases)])

SemWaitEffect(p, s, step, a) ==
    LET q == s.semaphores[a.semaphore]
    IN  Done([advance_pc(p, s, step.thread) EXCEPT
                !.semaphores[a.semaphore] = [q EXCEPT !.permits = @ - 1],
                !.thread_clock[step.thread] = Join(@, q.post_releases)])

-----------------------------------------------------------------------------
(***************************************************************************)
(* Barriers: an arrival that is not the last parks at its action; the last *)
(* one advances every participant at once and starts the next generation.  *)
(***************************************************************************)
ReleaseGeneration(p, s, x, participants, release_clock) ==
    LET b == s.barriers[x]
    IN  [s EXCEPT
            !.thread_clock = [u \in ThreadId |->
                IF u \in participants THEN Join(@[u], release_clock) ELSE @[u]],
            !.pc = [u \in ThreadId |->
                IF u \in participants THEN normalize_pc(p, u, @[u] + 1) ELSE @[u]],
            !.barriers[x] = [b EXCEPT !.arrivals = {}, !.arrival_releases = Zero,
                                      !.generation = @ + 1]]

\* Variant: the generation is released one arrival early.
BarrierOneShort(p, s, step, a) ==
    LET t == step.thread
        b == s.barriers[a.barrier]
        arrivals == b.arrivals \cup {t}
        release_clock == Join(b.arrival_releases, s.thread_clock[t])
    IN  CASE a.parties = 0 \/ a.parties # b.parties ->
               ModelError(advance_pc(p, s, t), step, "barrier")
          [] a.parties = b.parties /\ a.parties # 0 /\ Cardinality(arrivals) < b.parties - 1 ->
               Done([s EXCEPT !.barriers[a.barrier] =
                        [b EXCEPT !.arrivals = arrivals, !.arrival_releases = release_clock]])
          [] a.parties = b.parties /\ a.parties # 0 /\ Cardinality(arrivals) >= b.parties - 1 ->
               Done(ReleaseGeneration(p, s, a.barrier, arrivals, release_clock))

BarrierWaitEffect(p, s, step, a) ==
    LET t == step.thread
        b == s.barriers[a.barrier]
        arrivals == b.arrivals \cup {t}
        release_clock == Join(b.arrival_releases, s.thread_clock[t])
    IN  CASE a.parties = 0 \/ a.parties # b.parties ->
               ModelError(advance_pc(p, s, t), step, "barrier")
          [] a.parties = b.parties /\ a.parties # 0 /\ Cardinality(arrivals) < b.parties ->
               Done([s EXCEPT !.barriers[a.barrier] =
                        [b EXCEPT !.arrivals = arrivals, !.arrival_releases = release_clock]])
          [] a.parties = b.parties /\ a.parties # 0 /\ Cardinality(arrivals) >= b.parties ->
               Done(ReleaseGeneration(p, s, a.barrier, arrivals, release_clock))

-----------------------------------------------------------------------------
(***************************************************************************)
(* Threads: Spawn hands its clock to the target, Join takes the target's.  *)
(***************************************************************************)
SpawnEffect(p, s, step, a) ==
    LET t == step.thread
        n == advance_pc(p, s, t)
    IN  IF InvalidTarget(t, a) \/ s.started[a.target]
        THEN ModelError(n, step, "spawn")
        ELSE [state |-> [n EXCEPT
                !.started[a.target] = TRUE,
                !.pc[a.target] = normalize_pc(p, a.target, @),
                !.thread_clock[a.target] = Join(@, s.thread_clock[t])],
              report |-> [NoReport EXCEPT !.spawned_thread = a.target]]

JoinEffect(p, s, step, a) ==
    LET t == step.thread
        n == advance_pc(p, s, t)
    IN  IF InvalidTarget(t, a)
        THEN ModelError(n, step, "join")
        ELSE Done([n EXCEPT !.thread_clock[t] = Join(@, s.thread_clock[a.target])])

-----------------------------------------------------------------------------
(***************************************************************************)
(* Actions on the thread's own registers.                                  *)
(***************************************************************************)
SetEffect(p, s, step, a) ==
    LET t == step.thread
        v == evaluate_operand_or(s, t, a.value, 0)
    IN  Done(advance_pc(p, write_register(s, t, a.destination, v), t))

BranchEffect(p, s, step, a) ==
    LET t == step.thread
        taken == read_register(s, t, RegisterOr0(a.source_register)) # 0
        target == resolve_label(p, t, a.label)
    IN  CASE taken /\ target # {} ->
               Done([s EXCEPT !.pc[t] = normalize_pc(p, t, CHOOSE i \in target : TRUE)])
          [] taken /\ target = {} -> ModelError(advance_pc(p, s, t), step, "branch")
          [] ~taken -> Done(advance_pc(p, s, t))

AssertEffect(p, s, step, a) ==
    LET t == step.thread
        reg == RegisterOr0(a.source_register)
        n == advance_pc(p, s, t)
    IN  IF read_register(s, t, reg) = 0
        THEN [state |-> n,
              report |-> [NoReport EXCEPT !.assertion = {[endpoint |-> step, reg |-> reg]}]]
        ELSE Done(n)
=============================================================================
