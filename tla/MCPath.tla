------------------------------- MODULE MCPath -------------------------------
(***************************************************************************)
(* Constants for model-checking paths, their lassos and their replay.      *)
(***************************************************************************)
EXTENDS Path, ProgramSuite

MCAddressOrder == <<"f", "x", "y">>
MCPathPrograms == Pairs(LoopBodies) \cup Pairs(BufferBodies) \cup Pairs(MutexBodies)
                     \cup Pairs(CondBodies) \cup EndlessPrograms
=============================================================================
