---------------------------- MODULE MCInterpreter ----------------------------
(***************************************************************************)
(* Constants for model-checking the interpreter on families of programs.   *)
(***************************************************************************)
EXTENDS InterpreterProps, Litmus, ProgramSuite

MCAddressOrder == <<"f", "x", "y">>

MCSyncPrograms ==
    Family(MutexBodies) \cup Family(CondBodies) \cup Family(RwLockBodies)
        \cup Family(BarrierBodies) \cup Family(SemaphoreBodies) \cup Family(ThreadBodies)
        \cup {Threads3(a, b, <<>>) : a \in RwLockMisuses, b \in RwLockBodies}

\* The program with threads that do nothing in the place of those it lacks.
Padded(p) == [t \in ThreadId |-> IF t \in DOMAIN p THEN p[t] ELSE <<>>]
\* A definition of its own, which TLC evaluates once.
MemoryPrograms ==
    {Padded(p) : p \in Family(AtomicBodies) \cup Family(BufferBodies)} \cup LitmusPrograms
MCMemoryPrograms == MemoryPrograms

MCRereadPrograms == RereadPrograms
=============================================================================
