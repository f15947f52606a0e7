----------------------------- MODULE MCMinimizer -----------------------------
(***************************************************************************)
(* Constants for model-checking the minimizer.                             *)
(***************************************************************************)
EXTENDS PathMinimizer, ProgramSuite

MCAddressOrder == <<"f", "x", "y">>
MCBuggyPrograms == Pairs(LoopBodies) \cup Pairs(MutexBodies) \cup Pairs(CondBodies)
                      \cup Pairs(AtomicBodies) \cup Pairs(BufferBodies)
=============================================================================
