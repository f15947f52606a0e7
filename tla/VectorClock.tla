----------------------------- MODULE VectorClock -----------------------------
(***************************************************************************)
(* Vector clocks (src/model/vector_clock.cpp).  The code stores a map from *)
(* thread to count in which an absent thread counts 0; here a clock is the *)
(* total function get(_).                                                  *)
(***************************************************************************)
EXTENDS ActionIR

Clock == [ThreadId -> Nat]

\* VectorClock{}
Zero == [t \in ThreadId |-> 0]

Tick(c, t) == [c EXCEPT ![t] = @ + 1]

Join(c, d) == [t \in ThreadId |-> IF c[t] >= d[t] THEN c[t] ELSE d[t]]

\* happens_before_or_equal
HBE(c, d) == \A t \in ThreadId : c[t] <= d[t]
=============================================================================
