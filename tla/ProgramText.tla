----------------------------- MODULE ProgramText -----------------------------
(***************************************************************************)
(* Constructors for the actions of ActionIR, named as the keywords of the  *)
(* program files (src/cli/program_parser.cpp), to write programs with.     *)
(***************************************************************************)
EXTENDS Integers, Sequences

None == [kind |-> "None"]
Imm(v) == [kind |-> "Immediate", immediate |-> v]
Reg(r) == [kind |-> "Register", reg |-> r]

memory_action(kind, x) ==
    [kind |-> kind, address |-> x, destination |-> -1, value |-> None, expected |-> None]
memory_read_action(kind, x, r) == [memory_action(kind, x) EXCEPT !.destination = r]
memory_write_action(kind, x, v) == [memory_action(kind, x) EXCEPT !.value = v]

read(x, r) == memory_read_action("Read", x, r)
write(x, v) == memory_write_action("Write", x, v)
atomic_load(x, r) == memory_read_action("AtomicLoad", x, r)
atomic_store(x, v) == memory_write_action("AtomicStore", x, v)
atomic_rmw(x, v, r) ==
    [memory_action("AtomicRmw", x) EXCEPT !.value = v, !.destination = r]
cas(x, e, v, r) ==
    [memory_action("CompareExchange", x) EXCEPT !.expected = e, !.value = v, !.destination = r]

lock(m) == [kind |-> "Lock", mutex |-> m, destination |-> -1]
try_lock(m, r) == [kind |-> "TryLock", mutex |-> m, destination |-> r]
unlock(m) == [kind |-> "Unlock", mutex |-> m, destination |-> -1]
wait(c, m) == [kind |-> "Wait", condition |-> c, mutex |-> m, destination |-> -1]
timedwait(c, m, r) == [kind |-> "TimedWait", condition |-> c, mutex |-> m, destination |-> r]
signal(c) == [kind |-> "Signal", condition |-> c]
broadcast(c) == [kind |-> "Broadcast", condition |-> c]

rlock(l) == [kind |-> "RLock", rwlock |-> l]
runlock(l) == [kind |-> "RUnlock", rwlock |-> l]
wlock(l) == [kind |-> "WLock", rwlock |-> l]
wunlock(l) == [kind |-> "WUnlock", rwlock |-> l]
upgrade(l) == [kind |-> "Upgrade", rwlock |-> l]
downgrade(l) == [kind |-> "Downgrade", rwlock |-> l]
sem_post(q) == [kind |-> "SemPost", semaphore |-> q]
sem_wait(q) == [kind |-> "SemWait", semaphore |-> q]
barrier_wait(b, n) == [kind |-> "BarrierWait", barrier |-> b, parties |-> n]

spawn(t) == [kind |-> "Spawn", target |-> t]
join(t) == [kind |-> "Join", target |-> t]
set(r, v) == [kind |-> "Set", destination |-> r, value |-> Imm(v)]
bnz(r, label) == [kind |-> "BranchNonzero", source_register |-> r, label |-> label]
label(name) == [kind |-> "Label", label |-> name]
assert_(r) == [kind |-> "Assert", source_register |-> r]
fence == [kind |-> "Fence"]
yield == [kind |-> "Yield"]
=============================================================================
