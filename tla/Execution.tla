------------------------------ MODULE Execution ------------------------------
(***************************************************************************)
(* execute_enabled_step of src/model/checker.cpp: the effect of one enabled*)
(* step on an execution state, assembled from the effects of Memory and    *)
(* Sync, and record_step_report.                                           *)
(***************************************************************************)
EXTENDS Sync

CheckResult ==
    [first_race : SUBSET RaceReport, first_error : SUBSET ModelErrorReport,
     first_assertion : SUBSET AssertionFailureReport]

\* ++thread_steps and tick, before the action's own effect.
BeginStep(s, t) ==
    [s EXCEPT !.thread_steps[t] = @ + 1, !.thread_clock[t] = Tick(@, t)]

LocalEffect(p, s, step, a) ==
    CASE a.kind = "Set" -> SetEffect(p, s, step, a)
      [] a.kind = "BranchNonzero" -> BranchEffect(p, s, step, a)
      [] a.kind = "Assert" -> AssertEffect(p, s, step, a)
      [] a.kind \in {"Fence", "Yield"} -> Done(advance_pc(p, s, step.thread))

MutexEffect(p, s, step, a) ==
    CASE a.kind = "Lock" -> LockEffect(p, s, step, a)
      [] a.kind = "TryLock" -> TryLockEffect(p, s, step, a)
      [] a.kind = "Unlock" -> UnlockEffect(p, s, step, a)

RwLockEffect(p, s, step, a) ==
    CASE a.kind = "RLock" -> RLockEffect(p, s, step, a)
      [] a.kind = "WLock" -> WLockEffect(p, s, step, a)
      [] a.kind = "RUnlock" -> RUnlockEffect(p, s, step, a)
      [] a.kind = "WUnlock" -> WUnlockEffect(p, s, step, a)
      [] a.kind = "Upgrade" -> UpgradeEffect(p, s, step, a)
      [] a.kind = "Downgrade" -> DowngradeEffect(p, s, step, a)

OtherSyncEffect(p, s, step, a) ==
    CASE a.kind \in WaitKinds -> WaitEffect(p, s, step, a)
      [] a.kind = "Signal" -> SignalEffect(p, s, step, a)
      [] a.kind = "Broadcast" -> BroadcastEffect(p, s, step, a)
      [] a.kind = "SemPost" -> SemPostEffect(p, s, step, a)
      [] a.kind = "SemWait" -> SemWaitEffect(p, s, step, a)
      [] a.kind = "BarrierWait" -> BarrierWaitEffect(p, s, step, a)
      [] a.kind = "Spawn" -> SpawnEffect(p, s, step, a)
      [] a.kind = "Join" -> JoinEffect(p, s, step, a)

SourceEffect(p, s, step, a) ==
    CASE a.kind \in {"Read", "Write"} \cup AtomicKinds -> MemoryEffect(p, s, step, a)
      [] a.kind \in MutexKinds -> MutexEffect(p, s, step, a)
      [] a.kind \in RwLockKinds -> RwLockEffect(p, s, step, a)
      [] a.kind \in ThreadLocalKinds \cup {"Yield"} -> LocalEffect(p, s, step, a)
      [] OTHER -> OtherSyncEffect(p, s, step, a)

execute_enabled_step(p, s, step) ==
    LET begun == BeginStep(s, step.thread)
    IN  IF is_flush_step(step)
        THEN FlushEffect(begun, step, effective_action_for_step(p, s, step))
        ELSE SourceEffect(p, begun, step, next_action(p, s, step.thread))

\* Each kind of report is kept the first time it occurs.
record_step_report(r, report) ==
    [first_race |-> FirstNonempty(r.first_race, report.race),
     first_error |-> FirstNonempty(r.first_error, report.error),
     first_assertion |-> FirstNonempty(r.first_assertion, report.assertion)]

-----------------------------------------------------------------------------
(***************************************************************************)
(* make_deadlock_report: for each started, unfinished thread what its next *)
(* action waits for.  The struct's name fields are the one field object,   *)
(* but for the mutex that a thread waiting at a condition will reacquire.  *)
(***************************************************************************)
Blocked(t, kind, object) ==
    [thread |-> t, kind |-> kind, object |-> object, mutex |-> "", owner |-> NoThread,
     target |-> NoThread, self_wait |-> FALSE]

BlockedOnMutex(s, t, m) == [Blocked(t, "Mutex", m) EXCEPT !.owner = s.mutex_owner[m]]

\* Variant: a writer that waits for its own read mode is not told so.
BlockedOnOthersRwLock(s, t, a) ==
    LET l == s.rwlocks[a.rwlock]
    IN  CASE a.kind = "Upgrade" -> Blocked(t, "RwLockUpgrade", a.rwlock)
          [] a.kind # "Upgrade" /\ l.writer_holder # NoThread ->
               [Blocked(t, "RwLockWriter", a.rwlock) EXCEPT !.owner = l.writer_holder]
          [] a.kind # "Upgrade" /\ l.writer_holder = NoThread ->
               Blocked(t, "RwLockReaders", a.rwlock)

BlockedOnRwLock(s, t, a) ==
    LET l == s.rwlocks[a.rwlock]
    IN  CASE a.kind = "Upgrade" -> Blocked(t, "RwLockUpgrade", a.rwlock)
          [] a.kind # "Upgrade" /\ l.writer_holder # NoThread ->
               [Blocked(t, "RwLockWriter", a.rwlock) EXCEPT !.owner = l.writer_holder]
          [] a.kind # "Upgrade" /\ l.writer_holder = NoThread ->
               [Blocked(t, "RwLockReaders", a.rwlock) EXCEPT !.self_wait = t \in l.reader_holders]

BlockedThread(p, s, t) ==
    LET a == next_action(p, s, t)
        phase == s.wait_phase[t]
    IN  CASE a.kind = "Lock" -> {BlockedOnMutex(s, t, a.mutex)}
          [] a.kind \in {"RLock", "WLock", "Upgrade"} -> {BlockedOnRwLock(s, t, a)}
          [] a.kind = "Join" /\ ~InvalidTarget(t, a) ->
               {[Blocked(t, "Thread", "") EXCEPT !.target = a.target]}
          [] a.kind \in WaitKinds /\ phase = "Waiting" ->
               {[Blocked(t, "ConditionVariable", a.condition) EXCEPT !.mutex = a.mutex]}
          [] a.kind \in WaitKinds /\ phase = "Woken" -> {BlockedOnMutex(s, t, a.mutex)}
          [] a.kind = "SemWait" -> {Blocked(t, "Semaphore", a.semaphore)}
          [] a.kind = "BarrierWait" -> {Blocked(t, "Barrier", a.barrier)}
          [] OTHER -> {}

make_deadlock_report(p, s) ==
    UNION {BlockedThread(p, s, t) :
             t \in {u \in ThreadId : s.started[u] /\ ~is_finished(p, s, u)}}
=============================================================================
