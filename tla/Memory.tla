------------------------------- MODULE Memory -------------------------------
(***************************************************************************)
(* The memory actions of execute_enabled_step (src/model/checker.cpp):     *)
(* plain reads and writes, store buffers and their flushes, atomics, and   *)
(* the race detection done by record_read, record_write, record_atomic.    *)
(*                                                                         *)
(* An effect operator takes the state in which the stepping thread has     *)
(* already been ticked and gives the outcome of the step: the next state   *)
(* and the StepReport.  An optional report is {} or a singleton.           *)
(***************************************************************************)
EXTENDS ExecState

RaceReport == [address : Addresses, first : ScheduleStep, second : ScheduleStep]
ErrorMessage ==
    {"unlock", "rwlock mode", "rwlock reentrancy", "join", "spawn", "wait", "branch", "barrier"}
ModelErrorReport == [endpoint : ScheduleStep, message : ErrorMessage]
AssertionFailureReport == [endpoint : ScheduleStep, reg : Register]

StepReport ==
    [race : SUBSET RaceReport, error : SUBSET ModelErrorReport,
     assertion : SUBSET AssertionFailureReport, spawned_thread : OptThread]

NoReport == [race |-> {}, error |-> {}, assertion |-> {}, spawned_thread |-> NoThread]

Done(s) == [state |-> s, report |-> NoReport]
DoneWithRace(s, race) == [state |-> s, report |-> [NoReport EXCEPT !.race = race]]
ModelError(s, step, message) ==
    [state |-> s,
     report |-> [NoReport EXCEPT !.error = {[endpoint |-> step, message |-> message]}]]

-----------------------------------------------------------------------------
(***************************************************************************)
(* Race detection.  The operators ...Prior give {} or the one earlier      *)
(* access that the code reports the current one as racing with.            *)
(***************************************************************************)
Access(s, step, is_atomic, is_write) ==
    [clock |-> s.thread_clock[step.thread], endpoint |-> step,
     is_atomic |-> is_atomic, is_write |-> is_write]

ordered_by_happens_before(e, f) == HBE(e.clock, f.clock) \/ HBE(f.clock, e.clock)

KeyOf(e) == <<e.endpoint.thread, e.endpoint.action_index>>
KeyLess(e, f) ==
    \/ KeyOf(e)[1] < KeyOf(f)[1]
    \/ KeyOf(e)[1] = KeyOf(f)[1] /\ KeyOf(e)[2] < KeyOf(f)[2]

\* Variant: any write of another thread counts as unordered.
AnyForeignWrite(m, current) ==
    {w \in m.last_write : w.endpoint.thread # current.endpoint.thread}

UnorderedWrite(m, current) ==
    {w \in m.last_write : ~ordered_by_happens_before(w, current)}

\* The unordered read with the least key: the map is scanned in key order.
UnorderedRead(m, current) ==
    LET unordered == {r \in m.reads_since_last_write : ~ordered_by_happens_before(r, current)}
    IN  {r \in unordered : \A q \in unordered \ {r} : KeyLess(r, q)}

\* The first access of a history that conflicts with the current one, unordered.
UnorderedConflict(history, current) ==
    LET conflicts == {i \in DOMAIN history :
                        /\ history[i].is_write \/ current.is_write
                        /\ ~ordered_by_happens_before(history[i], current)}
    IN  {history[i] : i \in {j \in conflicts : \A k \in conflicts : j <= k}}

FirstNonempty(A, B) == IF A # {} THEN A ELSE B

ReadPrior(m, current) ==
    FirstNonempty(UnorderedWrite(m, current), UnorderedConflict(m.atomic_accesses, current))

\* Variant: a write is not compared with the plain reads since the last write.
WritePriorWithoutReads(m, current) ==
    FirstNonempty(UnorderedWrite(m, current), UnorderedConflict(m.atomic_accesses, current))

WritePrior(m, current) ==
    FirstNonempty(UnorderedWrite(m, current),
        FirstNonempty(UnorderedRead(m, current), UnorderedConflict(m.atomic_accesses, current)))

AtomicPrior(m, current) == UnorderedConflict(m.plain_accesses, current)

make_race_report(x, priors, current) ==
    {[address |-> x, first |-> e.endpoint, second |-> current.endpoint] : e \in priors}

\* emplace: an endpoint already in the map keeps its first access.
KeepFirst(reads, current) ==
    IF \E r \in reads : KeyOf(r) = KeyOf(current) THEN reads ELSE reads \cup {current}

record_read(s, x, current) ==
    LET m == s.memory[x]
    IN  DoneWithRace(
            [s EXCEPT !.memory[x] =
                [m EXCEPT !.reads_since_last_write = KeepFirst(@, current),
                          !.plain_accesses = Append(@, current)]],
            make_race_report(x, ReadPrior(m, current), current))

record_write(s, x, current) ==
    LET m == s.memory[x]
    IN  DoneWithRace(
            [s EXCEPT !.memory[x] =
                [m EXCEPT !.last_write = {current}, !.reads_since_last_write = {},
                          !.plain_accesses = Append(@, current)]],
            make_race_report(x, WritePrior(m, current), current))

record_atomic(s, x, current) ==
    LET m == s.memory[x]
    IN  DoneWithRace(
            [s EXCEPT !.memory[x] = [m EXCEPT !.atomic_accesses = Append(@, current)]],
            make_race_report(x, AtomicPrior(m, current), current))

-----------------------------------------------------------------------------
(***************************************************************************)
(* Plain accesses.  A buffered thread reads its own newest pending store.  *)
(***************************************************************************)
read_plain_value(s, t, x) ==
    LET own == {i \in DOMAIN s.store_buffers[t] : s.store_buffers[t][i].address = x}
        fifo == s.pso_store_buffers[t][x]
    IN  CASE s.memory_model = "TSO" /\ own # {} -> s.store_buffers[t][Max(own)].value
          [] s.memory_model = "PSO" /\ fifo # <<>> -> fifo[Len(fifo)]
          [] OTHER -> s.memory_values[x]

ReadEffect(s, step, a) ==
    LET t == step.thread
        r == write_register(s, t, a.destination, read_plain_value(s, t, a.address))
    IN  record_read(r, a.address, Access(r, step, FALSE, FALSE))

\* Under SC the write is visible, and checked, at once; a buffered write is checked
\* when it is flushed.
WriteEffect(s, step, a) ==
    LET t == step.thread
        v == evaluate_operand_or(s, t, a.value, 0)
        w == [s EXCEPT !.memory_values[a.address] = v]
    IN  CASE s.memory_model = "TSO" ->
               Done([s EXCEPT !.store_buffers[t] =
                        Append(@, [address |-> a.address, value |-> v])])
          [] s.memory_model = "PSO" ->
               Done([s EXCEPT !.pso_store_buffers[t][a.address] = Append(@, v)])
          [] s.memory_model = "SC" ->
               record_write(w, a.address, Access(w, step, FALSE, TRUE))

\* Variant: the flushed store stays in its buffer.
FlushKeepsEntry(s, step, a) ==
    LET t == step.thread
        x == a.address
        flushed ==
            [s EXCEPT !.memory_values[x] = IF s.memory_model = "TSO"
                                           THEN Head(s.store_buffers[t]).value
                                           ELSE Head(s.pso_store_buffers[t][x])]
    IN  record_write(flushed, x, Access(flushed, step, FALSE, TRUE))

FlushEffect(s, step, a) ==
    LET t == step.thread
        x == a.address
        popped ==
            IF s.memory_model = "TSO"
            THEN [s EXCEPT !.memory_values[x] = Head(s.store_buffers[t]).value,
                           !.store_buffers[t] = Tail(@)]
            ELSE [s EXCEPT !.memory_values[x] = Head(s.pso_store_buffers[t][x]),
                           !.pso_store_buffers[t][x] = Tail(@)]
    IN  record_write(popped, x, Access(popped, step, FALSE, TRUE))

-----------------------------------------------------------------------------
(***************************************************************************)
(* Atomics: a load acquires the location's clock, a store replaces it      *)
(* without acquiring, a read-modify-write does both, and a failed compare- *)
(* exchange only acquires.                                                 *)
(***************************************************************************)
AcquireLocation(s, t, x) ==
    [s EXCEPT !.thread_clock[t] = Join(@, s.atomic_location_clock[x])]
\* Variant: a release publishes the thread's own steps, not what it knows of others.
ReleaseOwnSteps(s, t, x) ==
    [s EXCEPT !.atomic_location_clock[x] = [Zero EXCEPT ![t] = s.thread_clock[t][t]]]

ReleaseLocation(s, t, x) ==
    [s EXCEPT !.atomic_location_clock[x] = s.thread_clock[t]]

\* Variant: addition that stops at the largest Value.
AddSaturating(v, w) == IF v + w < ValueHalf THEN v + w ELSE ValueHalf - 1

\* Signed addition wraps at the width of a Value in the build that is checked.
AddWrap(v, w) == ((v + w + ValueHalf) % (2 * ValueHalf)) - ValueHalf

AtomicLoadEffect(s, step, a) ==
    LET t == step.thread
        x == a.address
        r == write_register(AcquireLocation(s, t, x), t, a.destination, s.memory_values[x])
    IN  record_atomic(r, x, Access(r, step, TRUE, FALSE))

AtomicStoreEffect(s, step, a) ==
    LET t == step.thread
        x == a.address
        v == evaluate_operand_or(s, t, a.value, 0)
        r == ReleaseLocation([s EXCEPT !.memory_values[x] = v], t, x)
    IN  record_atomic(r, x, Access(r, step, TRUE, TRUE))

AtomicRmwEffect(s, step, a) ==
    LET t == step.thread
        x == a.address
        old == s.memory_values[x]
        addend == evaluate_operand_or(s, t, a.value, 1)
        acquired == write_register(AcquireLocation(s, t, x), t, a.destination, old)
        r == ReleaseLocation(
                [acquired EXCEPT !.memory_values[x] = AddWrap(old, addend)], t, x)
    IN  record_atomic(r, x, Access(r, step, TRUE, TRUE))

CompareExchangeEffect(s, step, a) ==
    LET t == step.thread
        x == a.address
        success == s.memory_values[x] = evaluate_operand_or(s, t, a.expected, 0)
        desired == evaluate_operand_or(s, t, a.value, 0)
        acquired == write_register(AcquireLocation(s, t, x), t, a.destination,
                                   IF success THEN 1 ELSE 0)
        r == IF success
             THEN ReleaseLocation([acquired EXCEPT !.memory_values[x] = desired], t, x)
             ELSE acquired
    IN  record_atomic(r, x, Access(r, step, TRUE, success))

-----------------------------------------------------------------------------
\* A source memory action: the counter advances first, and an action without an
\* address does nothing more.
MemoryEffect(p, s, step, a) ==
    LET n == advance_pc(p, s, step.thread)
    IN  CASE a.address = NoAddress -> Done(n)
          [] a.address # NoAddress /\ a.kind = "Read" -> ReadEffect(n, step, a)
          [] a.address # NoAddress /\ a.kind = "Write" -> WriteEffect(n, step, a)
          [] a.address # NoAddress /\ a.kind = "AtomicLoad" -> AtomicLoadEffect(n, step, a)
          [] a.address # NoAddress /\ a.kind = "AtomicStore" -> AtomicStoreEffect(n, step, a)
          [] a.address # NoAddress /\ a.kind = "AtomicRmw" -> AtomicRmwEffect(n, step, a)
          [] a.address # NoAddress /\ a.kind = "CompareExchange" ->
               CompareExchangeEffect(n, step, a)
=============================================================================
