--------------------------- MODULE MCHappensBefore ---------------------------
(***************************************************************************)
(* Constants for comparing vector clocks with happens-before.              *)
(***************************************************************************)
EXTENDS HappensBefore, ProgramSuite

MCAddressOrder == <<"f", "x", "y">>
MCPrograms ==
    Family(MutexBodies) \cup Family(CondBodies) \cup Family(RwLockBodies)
        \cup Family(BarrierBodies) \cup Family(SemaphoreBodies) \cup Family(ThreadBodies)
        \cup Family(AtomicBodies)
=============================================================================
