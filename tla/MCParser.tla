------------------------------ MODULE MCParser ------------------------------
(***************************************************************************)
(* Constants for model-checking the parser: lines whose names, labels and  *)
(* threads collide.                                                        *)
(***************************************************************************)
EXTENDS Parser

MCLines ==
    {Thread, lock("n"), wlock("n"), sem_wait("n"), signal("n"), wait("n", "k"), wait("k", "n"),
     barrier_wait("n", 1), barrier_wait("n", 2), barrier_wait("k", 0),
     label("here"), bnz(0, "here"), join(1), spawn(0), spawn(1), yield}
=============================================================================
