------------------------------- MODULE MCDpor -------------------------------
(***************************************************************************)
(* Constants for model-checking the reduced search.                        *)
(***************************************************************************)
EXTENDS DporProps, ProgramSuite

MCAddressOrder == <<"f", "x", "y">>
MCSyncPrograms ==
    Mixed(MutexBodies) \cup Mixed(CondBodies) \cup Mixed(RwLockBodies)
        \cup Mixed(BarrierBodies) \cup Mixed(SemaphoreBodies) \cup Mixed(ThreadBodies)
=============================================================================
