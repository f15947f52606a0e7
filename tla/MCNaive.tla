------------------------------- MODULE MCNaive -------------------------------
(***************************************************************************)
(* Constants for model-checking the exhaustive search.                     *)
(***************************************************************************)
EXTENDS Naive, ProgramSuite

MCAddressOrder == <<"f", "x", "y">>
MCSearchPrograms == Pairs(LoopBodies) \cup Pairs(MutexBodies) \cup Pairs(BufferBodies)
=============================================================================
