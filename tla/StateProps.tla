----------------------------- MODULE StateProps -----------------------------
(***************************************************************************)
(* Predicates on execution states, for the invariants of the interpreter   *)
(* and for the proofs about every component that executes steps.           *)
(***************************************************************************)
EXTENDS Execution

\* Every counter stands on an action that is not a label, or at its thread's end.
PcOK(p, s) ==
    \A t \in ThreadId : s.pc[t] \in {normalize_pc(p, t, i) : i \in 0 .. Len(p[t])}

-----------------------------------------------------------------------------
(***************************************************************************)
(* Clocks and access histories.                                            *)
(***************************************************************************)
HistoryOf(m) ==
    {m.plain_accesses[i] : i \in DOMAIN m.plain_accesses}
        \cup {m.atomic_accesses[i] : i \in DOMAIN m.atomic_accesses}

Accesses(s) == UNION {HistoryOf(s.memory[x]) : x \in Addresses}

\* Every clock the state publishes for a later acquire to join.
PublishedClocks(s) ==
    {s.mutex_clock[m] : m \in Mutexes}
        \cup {s.rwlocks[l].writer_release : l \in RwLocks}
        \cup {s.rwlocks[l].reader_releases : l \in RwLocks}
        \cup {s.semaphores[q].post_releases : q \in Semaphores}
        \cup {s.barriers[b].arrival_releases : b \in Barriers}
        \cup {s.atomic_location_clock[x] : x \in Addresses}

ThreadClocks(s) == {s.thread_clock[t] : t \in ThreadId}

\* A thread's own component counts its steps; no clock claims more of a thread than that.
ClocksCount(s) ==
    /\ \A t \in ThreadId : s.thread_clock[t][t] = s.thread_steps[t]
    /\ \A c \in ThreadClocks(s) \cup PublishedClocks(s) \cup {e.clock : e \in Accesses(s)} :
          HBE(c, s.thread_steps)

\* A holder has acquired what its lock published, and a writer is alone.
HandedOff(s) ==
    /\ \A m \in Mutexes :
          LET t == s.mutex_owner[m]
          IN  t # NoThread => HBE(s.mutex_clock[m], s.thread_clock[t])
    /\ \A l \in RwLocks :
          LET r == s.rwlocks[l]
          IN  /\ \A t \in r.reader_holders : HBE(r.writer_release, s.thread_clock[t])
              /\ r.writer_holder # NoThread =>
                    /\ r.reader_holders = {}
                    /\ r.reader_releases = Zero
                    /\ HBE(r.writer_release, s.thread_clock[r.writer_holder])

-----------------------------------------------------------------------------
(***************************************************************************)
(* Threads that wait: at a condition, for its mutex, or at a barrier.      *)
(***************************************************************************)
StandsAt(p, s, t, kinds) ==
    /\ s.started[t]
    /\ has_next_action(p, s, t)
    /\ next_action(p, s, t).kind \in kinds

WaitersParked(p, s) ==
    \A c \in Conditions, t \in ThreadId :
        t \in s.condition_waiters[c] <=>
            /\ s.wait_phase[t] = "Waiting"
            /\ StandsAt(p, s, t, WaitKinds)
            /\ next_action(p, s, t).condition = c

PhasesParked(p, s) ==
    \A t \in ThreadId :
        s.wait_phase[t] # "None" =>
            /\ StandsAt(p, s, t, WaitKinds)
            /\ s.mutex_owner[next_action(p, s, t).mutex] # t

ArrivalsParked(p, s) ==
    \A b \in Barriers :
        /\ s.barriers[b].arrivals # {} =>
              Cardinality(s.barriers[b].arrivals) < s.barriers[b].parties
        /\ \A t \in s.barriers[b].arrivals :
              /\ StandsAt(p, s, t, {"BarrierWait"})
              /\ next_action(p, s, t).barrier = b
              /\ next_action(p, s, t).parties = s.barriers[b].parties
              /\ ~has_pending_store(s, t)
              /\ HBE(s.thread_clock[t], s.barriers[b].arrival_releases)

Parked(p, s) == WaitersParked(p, s) /\ PhasesParked(p, s) /\ ArrivalsParked(p, s)
=============================================================================
