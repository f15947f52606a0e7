------------------------------ MODULE ExecState ------------------------------
(***************************************************************************)
(* The interpreter's state (struct ExecutionState of src/model/checker.cpp)*)
(* and everything that only reads it: the initial state, program counters  *)
(* and labels, register operands, finished threads, and which steps are    *)
(* enabled.                                                                *)
(*                                                                         *)
(* A state is a record with the fields of ExecutionState.  The code's maps *)
(* from names are total functions here: a name the map does not hold has   *)
(* the value the code uses for it (no owner, no permit, the empty clock).  *)
(* The schedule is kept by the modules that explore and replay.            *)
(***************************************************************************)
EXTENDS VectorClock, FiniteSetsExt

NoThread == -1
OptThread == ThreadId \cup {NoThread}

MemoryModel == {"SC", "TSO", "PSO"}
WaitPhase == {"None", "Waiting", "Woken"}

MemoryAccess ==
    [clock : Clock, endpoint : ScheduleStep, is_atomic : BOOLEAN, is_write : BOOLEAN]

\* last_write is {} or {w}; reads_since_last_write holds the map's values, whose
\* keys are their endpoints' (thread, action_index).
AddressState ==
    [last_write : SUBSET MemoryAccess, reads_since_last_write : SUBSET MemoryAccess,
     plain_accesses : Seq(MemoryAccess), atomic_accesses : Seq(MemoryAccess)]

RwLockState ==
    [reader_holders : SUBSET ThreadId, writer_holder : OptThread,
     writer_release : Clock, reader_releases : Clock]

SemaphoreState == [permits : Nat, post_releases : Clock]

BarrierState ==
    [generation : Nat, parties : Nat, arrivals : SUBSET ThreadId, arrival_releases : Clock]

StoreBufferEntry == [address : Addresses, value : Value]

ExecutionState ==
    [memory_model : MemoryModel,
     pc : [ThreadId -> Nat],
     started : [ThreadId -> BOOLEAN],
     mutex_owner : [Mutexes -> OptThread],
     mutex_clock : [Mutexes -> Clock],
     rwlocks : [RwLocks -> RwLockState],
     semaphores : [Semaphores -> SemaphoreState],
     barriers : [Barriers -> BarrierState],
     condition_waiters : [Conditions -> SUBSET ThreadId],
     thread_clock : [ThreadId -> Clock],
     registers : [ThreadId -> [Register -> Value]],
     thread_steps : [ThreadId -> Nat],
     wait_phase : [ThreadId -> WaitPhase],
     memory : [Addresses -> AddressState],
     memory_values : [Addresses -> Value],
     atomic_location_clock : [Addresses -> Clock],
     store_buffers : [ThreadId -> Seq(StoreBufferEntry)],
     pso_store_buffers : [ThreadId -> [Addresses -> Seq(Value)]]]

-----------------------------------------------------------------------------
(***************************************************************************)
(* Program counters count from 0, as in the code.  A label is never a step:*)
(* normalize_pc moves a counter past the labels it stands on.              *)
(***************************************************************************)
ActionAt(p, t, index) == p[t][index + 1]

normalize_pc(p, t, index) ==
    Min({i \in index .. Len(p[t]) : i = Len(p[t]) \/ ActionAt(p, t, i).kind # "Label"})

\* Variant: the counter is left on a label.
AdvanceOntoLabel(p, s, t) == [s EXCEPT !.pc[t] = @ + 1]

advance_pc(p, s, t) == [s EXCEPT !.pc[t] = normalize_pc(p, t, @ + 1)]

has_next_action(p, s, t) == s.pc[t] < Len(p[t])
next_action(p, s, t) == ActionAt(p, t, s.pc[t])

\* The indexes resolve_label finds: {} for an unknown label, else the first one.
resolve_label(p, t, label) ==
    LET found == {i \in 0 .. Len(p[t]) - 1 :
                    /\ ActionAt(p, t, i).kind = "Label"
                    /\ ActionAt(p, t, i).label = label}
    IN  {i \in found : \A j \in found : i <= j}

\* A branch whose normalized target is its own action or an earlier one.
requires_cycle_detection(p) ==
    \E t \in ThreadId : \E i \in 0 .. Len(p[t]) - 1 :
        /\ ActionAt(p, t, i).kind = "BranchNonzero"
        /\ \E target \in resolve_label(p, t, ActionAt(p, t, i).label) :
              normalize_pc(p, t, target) <= i

-----------------------------------------------------------------------------
(***************************************************************************)
(* The initial state.                                                      *)
(***************************************************************************)
ActionsOf(p, t) == {p[t][i] : i \in DOMAIN p[t]}

initially_started_threads(p) ==
    [t \in ThreadId |->
        ~ \E u \in ThreadId \ {t} : \E a \in ActionsOf(p, u) : a.kind = "Spawn" /\ a.target = t]

\* The addresses the program names.
program_addresses(p) ==
    {a.address : a \in {b \in UNION {ActionsOf(p, t) : t \in ThreadId} : is_memory_action(b)}}
        \ {NoAddress}

\* The code numbers them in lexicographic order, for the flush steps of PSO.
AddressBefore(x, y) ==
    \E i, j \in DOMAIN AddressOrder : i < j /\ AddressOrder[i] = x /\ AddressOrder[j] = y
AddressNumber(p, x) == Cardinality({y \in program_addresses(p) : AddressBefore(y, x)})

\* The parties of a barrier are those of its first BarrierWait in thread and then
\* action order; 0 when the program does not use it.
BarrierParties(p, b) ==
    LET UsesIn(t) == {i \in 0 .. Len(p[t]) - 1 : /\ ActionAt(p, t, i).kind = "BarrierWait"
                                                 /\ ActionAt(p, t, i).barrier = b}
        users == {t \in ThreadId : UsesIn(t) # {}}
        first == Min(users)
    IN  IF users = {} THEN 0 ELSE ActionAt(p, first, Min(UsesIn(first))).parties

NoAccesses ==
    [last_write |-> {}, reads_since_last_write |-> {},
     plain_accesses |-> <<>>, atomic_accesses |-> <<>>]

FreeRwLock ==
    [reader_holders |-> {}, writer_holder |-> NoThread,
     writer_release |-> Zero, reader_releases |-> Zero]

initial_barriers(p) ==
    [b \in Barriers |-> [generation |-> 0, parties |-> BarrierParties(p, b),
                         arrivals |-> {}, arrival_releases |-> Zero]]

initial_state(p, memory_model) ==
    [memory_model |-> memory_model,
     pc |-> [t \in ThreadId |-> normalize_pc(p, t, 0)],
     started |-> initially_started_threads(p),
     mutex_owner |-> [m \in Mutexes |-> NoThread],
     mutex_clock |-> [m \in Mutexes |-> Zero],
     rwlocks |-> [l \in RwLocks |-> FreeRwLock],
     semaphores |-> [q \in Semaphores |-> [permits |-> 0, post_releases |-> Zero]],
     barriers |-> initial_barriers(p),
     condition_waiters |-> [c \in Conditions |-> {}],
     thread_clock |-> [t \in ThreadId |-> Zero],
     registers |-> [t \in ThreadId |-> [r \in Register |-> 0]],
     thread_steps |-> [t \in ThreadId |-> 0],
     wait_phase |-> [t \in ThreadId |-> "None"],
     memory |-> [x \in Addresses |-> NoAccesses],
     memory_values |-> [x \in Addresses |-> 0],
     atomic_location_clock |-> [x \in Addresses |-> Zero],
     store_buffers |-> [t \in ThreadId |-> <<>>],
     pso_store_buffers |-> [t \in ThreadId |-> [x \in Addresses |-> <<>>]]]

-----------------------------------------------------------------------------
(***************************************************************************)
(* Registers and operands.                                                 *)
(***************************************************************************)
RegisterOr0(r) == IF r = NoReg THEN 0 ELSE r

read_register(s, t, r) == s.registers[t][r]

write_register(s, t, r, v) ==
    IF r = NoReg THEN s ELSE [s EXCEPT !.registers[t][r] = v]

evaluate_operand_or(s, t, operand, default) ==
    CASE operand.kind = "None" -> default
      [] operand.kind = "Immediate" -> operand.immediate
      [] operand.kind = "Register" -> read_register(s, t, operand.reg)

-----------------------------------------------------------------------------
(***************************************************************************)
(* Store buffers, finished threads and enabled steps.                      *)
(***************************************************************************)
has_pending_store(s, t) ==
    \/ s.memory_model = "TSO" /\ s.store_buffers[t] # <<>>
    \/ s.memory_model = "PSO" /\ \E x \in Addresses : s.pso_store_buffers[t][x] # <<>>

is_finished(p, s, t) ==
    /\ s.started[t]
    /\ ~has_next_action(p, s, t)
    /\ s.store_buffers[t] = <<>>
    /\ \A x \in Addresses : s.pso_store_buffers[t][x] = <<>>

all_finished(p, s) == \A t \in ThreadId : s.started[t] => is_finished(p, s, t)

\* Variant: a fence does not wait for the thread's buffered stores.
FenceOvertakesStores(a) ==
    a.kind \notin {"Set", "Label", "BranchNonzero", "Assert", "Read", "Write", "Flush", "Yield",
                   "Fence"}

\* Actions that wait for their thread's own buffered stores to be flushed.
is_buffered_ordered_point(a) ==
    a.kind \notin {"Set", "Label", "BranchNonzero", "Assert", "Read", "Write", "Flush", "Yield"}

\* A woken Wait or TimedWait is the reacquisition of its mutex.
effective_next_action(p, s, t) ==
    LET a == next_action(p, s, t)
    IN  IF a.kind \in WaitKinds /\ s.wait_phase[t] = "Woken"
        THEN [kind |-> "Lock", mutex |-> a.mutex, destination |-> NoReg]
        ELSE a

InvalidTarget(t, a) == a.target \notin ThreadId \ {t}   \* of a Spawn or a Join

is_program_action_enabled(p, s, t) ==
    /\ s.started[t]
    /\ has_next_action(p, s, t)
    /\ LET a == next_action(p, s, t)
           k == a.kind
       IN  /\ ~(is_buffered_ordered_point(a) /\ has_pending_store(s, t))
           /\ k \notin {"Label", "Flush"}
           /\ k = "Lock" => s.mutex_owner[a.mutex] = NoThread
           /\ k = "RLock" => s.rwlocks[a.rwlock].writer_holder \in {NoThread, t}
           /\ k = "WLock" =>
                LET l == s.rwlocks[a.rwlock]
                IN  \/ l.writer_holder = t
                    \/ l.writer_holder = NoThread /\ l.reader_holders = {}
           /\ k = "Upgrade" =>
                LET l == s.rwlocks[a.rwlock]
                IN  t \in l.reader_holders => l.reader_holders = {t}
           /\ k = "SemWait" => s.semaphores[a.semaphore].permits > 0
           /\ k = "BarrierWait" =>
                LET b == s.barriers[a.barrier]
                IN  a.parties # 0 /\ a.parties = b.parties => t \notin b.arrivals
           /\ k = "Join" => InvalidTarget(t, a) \/ is_finished(p, s, a.target)
           /\ k = "Wait" => s.wait_phase[t] # "Waiting"
           /\ k \in WaitKinds /\ s.wait_phase[t] = "Woken" => s.mutex_owner[a.mutex] = NoThread

\* The flush steps of t: the one of its FIFO under TSO, one for each address with a
\* pending store under PSO.
FlushSteps(p, s, t) ==
    CASE s.memory_model = "TSO" /\ s.store_buffers[t] # <<>> -> {FlushStep(t, NoFlushAddress)}
      [] s.memory_model = "PSO" ->
           {FlushStep(t, AddressNumber(p, x)) :
              x \in {y \in program_addresses(p) : s.pso_store_buffers[t][y] # <<>>}}
      [] OTHER -> {}

enabled_steps_for_thread(p, s, t) ==
    IF ~s.started[t] THEN {}
    ELSE {u \in {SourceStep(t, s.pc[t])} : is_program_action_enabled(p, s, t)}
            \cup FlushSteps(p, s, t)

enabled_steps(p, s) == UNION {enabled_steps_for_thread(p, s, t) : t \in ThreadId}

any_enabled(p, s) ==
    \E t \in ThreadId : has_pending_store(s, t) \/ is_program_action_enabled(p, s, t)

is_flush_step(step) == step.action_index = FlushActionIndex

effective_action_for_step(p, s, step) ==
    CASE ~is_flush_step(step) -> effective_next_action(p, s, step.thread)
      [] is_flush_step(step) /\ s.memory_model = "TSO" ->
           FlushAction(Head(s.store_buffers[step.thread]).address)
      [] is_flush_step(step) /\ s.memory_model = "PSO" ->
           FlushAction(CHOOSE x \in program_addresses(p) :
                          /\ AddressNumber(p, x) = step.flush_address
                          /\ s.pso_store_buffers[step.thread][x] # <<>>)
=============================================================================
