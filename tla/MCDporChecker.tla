---------------------------- MODULE MCDporChecker ---------------------------
(***************************************************************************)
(* Constants for model-checking whole checks with explore_dpor.             *)
(***************************************************************************)
EXTENDS Checker, ProgramSuite

MCAddressOrder == <<"f", "x", "y">>
MCCheckedPrograms == Pairs(LoopBodies) \cup Pairs(MutexBodies) \cup Pairs(CondBodies)
                        \cup Pairs(AtomicBodies) \cup Pairs(BufferBodies)
=============================================================================
