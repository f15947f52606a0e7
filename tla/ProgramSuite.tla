---------------------------- MODULE ProgramSuite ----------------------------
(***************************************************************************)
(* The programs the runs explore.  For each synchronisation object a set   *)
(* of thread bodies that use it, correctly or not; a family is every       *)
(* program whose three threads each run one body of the set.               *)
(***************************************************************************)
EXTENDS ProgramText

Family(bodies) == [0 .. 2 -> bodies]
Pairs(bodies) == [0 .. 1 -> bodies]
\* The programs of a family whose threads do not all run the same body.
Mixed(bodies) == {p \in Family(bodies) : p[1] # p[0] \/ p[2] # p[0]}
Threads3(a, b, c) == [t \in 0 .. 2 |-> <<a, b, c>>[t + 1]]

-----------------------------------------------------------------------------
\* Mutexes: nested in both orders, tried, released by a thread that does not own it.
MutexBodies ==
    {<<lock("m"), lock("n"), unlock("n"), unlock("m")>>,
     <<lock("n"), lock("m"), unlock("m"), write("x", Imm(1))>>,
     <<try_lock("m", 0), read("x", 1), unlock("m")>>,
     <<try_lock("m", 0), bnz(0, "held"), assert_(0), label("held"), write("x", Imm(2))>>}

\* Condition variables: a wait and a timed wait, a signal and a broadcast with and
\* without the mutex, a wait without the mutex.
CondBodies ==
    {<<lock("m"), wait("c", "m"), read("x", 0), unlock("m")>>,
     <<lock("m"), timedwait("c", "m", 0), unlock("m")>>,
     <<lock("m"), write("x", Imm(1)), signal("c"), unlock("m")>>,
     <<signal("c"), broadcast("c")>>,
     <<write("x", Imm(2)), wait("c", "m")>>}

\* Reader-writer locks: both modes, both conversions, and their misuses.
RwLockBodies ==
    {<<rlock("l"), read("x", 0), upgrade("l"), downgrade("l"), runlock("l")>>,
     <<wlock("l"), write("x", Imm(1)), wunlock("l")>>,
     <<rlock("l"), runlock("l"), read("x", 0)>>,
     <<wlock("l"), downgrade("l"), rlock("l")>>,
     <<rlock("l"), wlock("l")>>,
     <<wlock("l"), wlock("l")>>}
RwLockMisuses == {<<runlock("l")>>, <<wunlock("l")>>, <<upgrade("l")>>, <<downgrade("l")>>,
                  <<wlock("l"), rlock("l")>>}

\* Barriers: one and two generations, and counts that do not fit.
BarrierBodies ==
    {<<write("x", Imm(1)), barrier_wait("b", 2), read("x", 0), barrier_wait("b", 2)>>,
     <<barrier_wait("b", 2), write("x", Imm(2))>>,
     <<label("a"), barrier_wait("b", 3), yield>>,
     <<barrier_wait("b", 0)>>}

\* Semaphores, and threads that start and wait for each other.
SemaphoreBodies ==
    {<<write("x", Imm(1)), sem_post("q"), sem_post("q")>>,
     <<sem_wait("q"), read("x", 0)>>,
     <<sem_wait("q"), sem_post("q"), write("x", Imm(2))>>}
ThreadBodies ==
    {<<write("x", Imm(1)), spawn(2), join(2), read("x", 0)>>,
     <<label("a"), read("x", 0), join(0)>>,
     <<spawn(1), spawn(2)>>,
     <<join(1), spawn(3)>>,
     <<set(0, 1), bnz(0, "nowhere")>>}

\* Atomics mixed with plain accesses.
AtomicBodies ==
    {<<write("x", Imm(1)), atomic_store("f", Imm(1))>>,
     <<atomic_load("f", 0), bnz(0, "a"), yield, label("a"), read("x", 1)>>,
     <<atomic_rmw("f", Imm(3), 0), write("x", Imm(2))>>,
     <<cas("f", Imm(1), Imm(2), 0), read("x", 1)>>,
     <<atomic_load("x", 0), atomic_store("x", Imm(1))>>}

-----------------------------------------------------------------------------
\* Plain accesses under store buffers: the bodies of the classic litmus tests.
BufferBodies ==
    {<<write("x", Imm(1)), read("y", 0)>>,
     <<write("x", Imm(1)), write("y", Imm(1))>>,
     <<read("y", 0), write("x", Imm(2)), read("x", 1)>>,
     <<write("y", Imm(1)), fence, read("x", 0)>>}

-----------------------------------------------------------------------------
\* Loops: a spin on a flag that another thread sets and clears, a counter whose states
\* never recur, a spin lock.
LoopBodies ==
    {<<label("a"), atomic_load("f", 0), bnz(0, "a"), read("x", 1)>>,
     <<atomic_store("f", Imm(1)), write("x", Imm(1)), atomic_store("f", Imm(0))>>,
     <<label("a"), atomic_rmw("f", Imm(1), 0), bnz(0, "a")>>,
     <<set(1, 1), label("a"), try_lock("m", 0), bnz(0, "held"), bnz(1, "a"),
       label("held"), unlock("m")>>}

\* A spin on a flag beside a thread that increments it once more: the spin is unfair
\* while the other thread still has a step.
PostponedPrograms ==
    {[t \in 0 .. 1 |->
        <<<<label("a"), atomic_rmw("f", Imm(1), 0), bnz(0, "a")>>,
          <<label("a"), atomic_load("f", 0), bnz(0, "a"), read("x", 1)>>>>[t + 1]]}

\* Endless loops around a mutex, a timed wait, a semaphore, a barrier, beside each other
\* and beside threads that they postpone: always, or only now and then.
EndlessLoops ==
    <<<<set(1, 1), label("a"), lock("m"), unlock("m"), bnz(1, "a")>>,
      <<set(1, 1), lock("m"), label("a"), timedwait("c", "m", 0), bnz(1, "a")>>,
      <<set(1, 1), label("a"), sem_post("q"), sem_wait("q"), bnz(1, "a")>>,
      <<set(1, 1), label("a"), barrier_wait("b", 2), bnz(1, "a")>>>>
PostponedBodies ==
    <<<<lock("m"), signal("c"), unlock("m")>>,
      <<sem_wait("q"), barrier_wait("b", 2), write("x", Imm(1))>>>>
EndlessPrograms ==
    LET bodies == EndlessLoops \o PostponedBodies
    IN  {[t \in 0 .. 1 |-> bodies[ij[t + 1]]] :
            ij \in {k \in (DOMAIN EndlessLoops) \X (DOMAIN bodies) : k[1] <= k[2]}}

-----------------------------------------------------------------------------
\* A loop that reads x twice.  The first read is published through the atomic f, so
\* the other thread's write is ordered after it; the second read is published only if
\* the other thread takes the mutex after it, and the failed try_lock shows it did not.
RereadLoop ==
    <<label("again"), read("x", 0), bnz(2, "second"), atomic_store("f", Imm(1)),
      set(2, 1), bnz(2, "again"),
      label("second"), lock("m"), unlock("m")>>
WriteAfterFailedTry ==
    <<atomic_load("f", 0), bnz(0, "go"), set(1, 1), bnz(1, "end"),
      label("go"), try_lock("m", 0), bnz(0, "release"), write("x", Imm(1)),
      set(1, 1), bnz(1, "end"),
      label("release"), unlock("m"), label("end"), yield>>
RereadPrograms == {[t \in 0 .. 1 |-> <<RereadLoop, WriteAfterFailedTry>>[t + 1]]}
=============================================================================
