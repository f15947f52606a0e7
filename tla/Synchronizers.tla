---------------------------- MODULE Synchronizers ----------------------------
(***************************************************************************)
(* What the synchronisation objects of a checked program promise, without  *)
(* clocks, program counters, or the order in which the interpreter does    *)
(* things: the primitives of a threads library.  A step of a program does  *)
(* one of these operations, or none when it blocks nobody and releases     *)
(* nothing (a memory access, a failed attempt, a misuse that is reported). *)
(***************************************************************************)
EXTENDS Naturals, FiniteSets

CONSTANTS Threads, Nobody, Mutexes, Conditions, RwLocks, Semaphores, Barriers

VARIABLES
    owner,      \* the thread that owns a mutex, or Nobody
    sleepers,   \* the threads asleep on a condition
    returning,  \* the mutex a thread in a wait will own again, as a set
    readers,    \* the threads that share a lock
    writer,     \* the thread that has it to itself, or Nobody
    permits,    \* of a semaphore
    gathered,   \* the threads that have arrived at a barrier
    parties     \* how many a barrier gathers

objects == <<owner, sleepers, returning, readers, writer, permits, gathered, parties>>

TypeInvariant ==
    /\ owner \in [Mutexes -> Threads \cup {Nobody}]
    /\ sleepers \in [Conditions -> SUBSET Threads]
    /\ returning \in [Threads -> SUBSET Mutexes]
    /\ readers \in [RwLocks -> SUBSET Threads]
    /\ writer \in [RwLocks -> Threads \cup {Nobody}]
    /\ permits \in [Semaphores -> Nat]
    /\ gathered \in [Barriers -> SUBSET Threads]
    /\ parties \in [Barriers -> Nat]

Init ==
    /\ owner = [m \in Mutexes |-> Nobody]
    /\ sleepers = [c \in Conditions |-> {}]
    /\ returning = [t \in Threads |-> {}]
    /\ readers = [l \in RwLocks |-> {}]
    /\ writer = [l \in RwLocks |-> Nobody]
    /\ permits = [q \in Semaphores |-> 0]
    /\ gathered = [b \in Barriers |-> {}]
    /\ parties \in [Barriers -> Nat]

-----------------------------------------------------------------------------
rest_of_mutexes == <<readers, writer, permits, gathered, parties>>

Acquire(t, m) ==
    /\ owner[m] = Nobody /\ returning[t] = {}
    /\ owner' = [owner EXCEPT ![m] = t]
    /\ UNCHANGED <<sleepers, returning, rest_of_mutexes>>

Release(t, m) ==
    /\ owner[m] = t
    /\ owner' = [owner EXCEPT ![m] = Nobody]
    /\ UNCHANGED <<sleepers, returning, rest_of_mutexes>>

\* Releasing the mutex and falling asleep are one step: no signal falls between them.
Sleep(t, c, m) ==
    /\ owner[m] = t /\ returning[t] = {}
    /\ owner' = [owner EXCEPT ![m] = Nobody]
    /\ sleepers' = [sleepers EXCEPT ![c] = @ \cup {t}]
    /\ returning' = [returning EXCEPT ![t] = {m}]
    /\ UNCHANGED rest_of_mutexes

\* A signal wakes one sleeper if there is one, a broadcast all; a timeout wakes its own
\* thread.
WakeUp(c, woken) ==
    /\ woken \subseteq sleepers[c]
    /\ sleepers' = [sleepers EXCEPT ![c] = @ \ woken]
    /\ UNCHANGED <<owner, returning, rest_of_mutexes>>

Signal(c) == \E t \in sleepers[c] : WakeUp(c, {t})
Broadcast(c) == WakeUp(c, sleepers[c])
Timeout(t, c) == WakeUp(c, {t})

\* A thread that is awake leaves its wait as the owner of the mutex it had released.
Return(t, m) ==
    /\ m \in returning[t] /\ owner[m] = Nobody
    /\ \A c \in Conditions : t \notin sleepers[c]
    /\ owner' = [owner EXCEPT ![m] = t]
    /\ returning' = [returning EXCEPT ![t] = {}]
    /\ UNCHANGED <<sleepers, rest_of_mutexes>>

MutexNext ==
    \/ \E t \in Threads, m \in Mutexes :
          \/ Acquire(t, m) \/ Release(t, m) \/ Return(t, m)
          \/ \E c \in Conditions : Sleep(t, c, m)
    \/ \E c \in Conditions :
          Signal(c) \/ Broadcast(c) \/ \E t \in Threads : Timeout(t, c)

-----------------------------------------------------------------------------
rest_of_rwlocks == <<owner, sleepers, returning, permits, gathered, parties>>

Share(t, l) ==
    /\ writer[l] = Nobody /\ t \notin readers[l]
    /\ readers' = [readers EXCEPT ![l] = @ \cup {t}]
    /\ UNCHANGED <<writer, rest_of_rwlocks>>

Unshare(t, l) ==
    /\ t \in readers[l]
    /\ readers' = [readers EXCEPT ![l] = @ \ {t}]
    /\ UNCHANGED <<writer, rest_of_rwlocks>>

\* From free, or from the shared mode of t alone.
Exclude(t, l) ==
    /\ writer[l] = Nobody /\ readers[l] \subseteq {t}
    /\ writer' = [writer EXCEPT ![l] = t]
    /\ readers' = [readers EXCEPT ![l] = {}]
    /\ UNCHANGED rest_of_rwlocks

\* To free, or to the shared mode of t.
Include(t, l, kept) ==
    /\ writer[l] = t /\ kept \in {{}, {t}}
    /\ writer' = [writer EXCEPT ![l] = Nobody]
    /\ readers' = [readers EXCEPT ![l] = kept]
    /\ UNCHANGED rest_of_rwlocks

RwLockNext ==
    \E t \in Threads, l \in RwLocks :
        Share(t, l) \/ Unshare(t, l) \/ Exclude(t, l) \/ \E kept \in {{}, {t}} : Include(t, l, kept)

-----------------------------------------------------------------------------
Post(q) ==
    /\ permits' = [permits EXCEPT ![q] = @ + 1]
    /\ UNCHANGED <<owner, sleepers, returning, readers, writer, gathered, parties>>

Take(q) ==
    /\ permits[q] > 0
    /\ permits' = [permits EXCEPT ![q] = @ - 1]
    /\ UNCHANGED <<owner, sleepers, returning, readers, writer, gathered, parties>>

\* A barrier lets its threads go when the last of the parties arrives, all at once.
Arrive(t, b) ==
    /\ t \notin gathered[b]
    /\ gathered' = [gathered EXCEPT ![b] =
                       IF Cardinality(@) + 1 = parties[b] THEN {} ELSE @ \cup {t}]
    /\ UNCHANGED <<owner, sleepers, returning, readers, writer, permits, parties>>

Next ==
    \/ MutexNext
    \/ RwLockNext
    \/ \E q \in Semaphores : Post(q) \/ Take(q)
    \/ \E t \in Threads, b \in Barriers : Arrive(t, b)

Spec == Init /\ [][Next]_objects
=============================================================================
