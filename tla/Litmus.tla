------------------------------- MODULE Litmus -------------------------------
(***************************************************************************)
(* The memory models SC, TSO and PSO as the interpreter implements them    *)
(* (store buffers, flush steps and ordered points of src/model/checker.cpp)*)
(* checked on the classic litmus tests: small programs, each with an       *)
(* outcome that some of the memory models forbid.                          *)
(***************************************************************************)
EXTENDS Interpreter, ProgramText

(***************************************************************************)
(* A test: its threads, the outcome (registers as <<thread, register,      *)
(* value>>, memory as <<address, value>>) and the models that forbid it.   *)
(***************************************************************************)
Threads(bodies) == [t \in ThreadId |-> IF t < Len(bodies) THEN bodies[t + 1] ELSE <<>>]

Test(bodies, registers, memory, forbidding) ==
    [program |-> Threads(bodies), registers |-> registers, memory |-> memory,
     forbidding |-> forbidding]

All == {"SC", "TSO", "PSO"}
Stores == {"SC", "TSO"}     \* the models that keep a thread's stores in order

X(v) == write("x", Imm(v))
Y(v) == write("y", Imm(v))

\* Store buffering, plain and with an ordered point between store and load.
StoreBuffering(between) ==
    Test(<< <<X(1)>> \o between \o <<read("y", 0)>>, <<Y(1)>> \o between \o <<read("x", 0)>> >>,
         {<<0, 0, 0>>, <<1, 0, 0>>}, {}, IF between = <<>> THEN {"SC"} ELSE All)

\* Message passing, the flag stored by the given publication.
MessagePassing(publication, forbidding) ==
    Test(<< <<X(1)>> \o publication, <<read("y", 0), read("x", 1)>> >>,
         {<<1, 0, 1>>, <<1, 1, 0>>}, {}, forbidding)

\* Two threads storing to both addresses in opposite orders.
TwoPlusTwoWrites(between, forbidding) ==
    Test(<< <<X(1)>> \o between \o <<Y(2)>>, <<Y(1)>> \o between \o <<X(2)>> >>,
         {}, {<<"x", 1>>, <<"y", 1>>}, forbidding)

LoadBuffering ==
    Test(<< <<read("x", 0), Y(1)>>, <<read("y", 0), X(1)>> >>,
         {<<0, 0, 1>>, <<1, 0, 1>>}, {}, All)

\* Reads of one address by one thread see its stores in coherence order.
ReadCoherence ==
    Test(<< <<X(1)>>, <<X(2)>>, <<read("x", 0), read("x", 1)>>, <<read("x", 0), read("x", 1)>> >>,
         {<<2, 0, 1>>, <<2, 1, 2>>, <<3, 0, 2>>, <<3, 1, 1>>}, {}, All)

\* A thread reads its own newest pending store, and its stores to one address stay in order.
OwnStore ==
    Test(<< <<X(1), X(2), read("x", 0)>> >>, {<<0, 0, 1>>}, {}, All)
OwnStoreOrder ==
    Test(<< <<X(1), X(2)>>, <<read("x", 0), read("x", 1)>> >>,
         {<<1, 0, 2>>, <<1, 1, 1>>}, {}, All)

\* A load forwarded from the buffer may overtake the flush of the same store.
Forwarding ==
    Test(<< <<X(1), read("x", 0), read("y", 1)>>, <<Y(1), X(2)>> >>,
         {<<0, 0, 1>>, <<0, 1, 0>>}, {<<"x", 1>>}, {"SC"})

\* Stores become visible to all other threads at once.
IndependentReads ==
    Test(<< <<X(1)>>, <<Y(1)>>, <<read("x", 0), read("y", 1)>>, <<read("y", 0), read("x", 1)>> >>,
         {<<2, 0, 1>>, <<2, 1, 0>>, <<3, 0, 1>>, <<3, 1, 0>>}, {}, All)
WriteToReadCausality ==
    Test(<< <<X(1)>>, <<read("x", 0), Y(1)>>, <<read("y", 0), read("x", 1)>> >>,
         {<<1, 0, 1>>, <<2, 0, 1>>, <<2, 1, 0>>}, {}, All)

\* Two additions that pass the largest Value: neither is lost, whichever comes first, and
\* the sum neither stops at the largest Value nor leaves the range.
Additions == << <<atomic_rmw("f", Imm(ValueHalf - 1), 0)>>, <<atomic_rmw("f", Imm(1), 0)>> >>
PastLargestValue(sum) == Test(Additions, {}, {<<"f", sum>>}, All)
BothFirst == Test(Additions, {<<0, 0, 0>>, <<1, 0, 0>>}, {}, All)

OrderedPoints ==
    {<<fence>>, <<atomic_rmw("f", Imm(1), -1)>>, <<lock("m"), unlock("m")>>, <<sem_post("q")>>}

Tests ==
    {StoreBuffering(<<>>)} \cup {StoreBuffering(between) : between \in OrderedPoints}
        \cup {MessagePassing(<<Y(1)>>, Stores),
              MessagePassing(<<fence, Y(1)>>, All),
              MessagePassing(<<atomic_store("y", Imm(1))>>, All),
              TwoPlusTwoWrites(<<>>, Stores), TwoPlusTwoWrites(<<fence>>, All),
              LoadBuffering, ReadCoherence, OwnStore, OwnStoreOrder, Forwarding,
              IndependentReads, WriteToReadCausality, BothFirst}
        \cup {PastLargestValue(sum) : sum \in {1, ValueHalf - 1, ValueHalf}}

LitmusPrograms == {test.program : test \in Tests}

Outcome(test) ==
    /\ \A o \in test.registers : state.registers[o[1]][o[2]] = o[3]
    /\ \A o \in test.memory : state.memory_values[o[1]] = o[2]

(***************************************************************************)
(* No execution ends in an outcome its memory model forbids: TSO and PSO   *)
(* relax SC by their store buffers only, fences, atomics and               *)
(* synchronisation drain them (is_buffered_ordered_point), and a           *)
(* read-modify-write is one step, at the largest Value too.                *)
(***************************************************************************)
NoForbiddenOutcome ==
    \A test \in Tests :
        /\ program = test.program
        /\ state.memory_model \in test.forbidding
        /\ all_finished(program, state)
        => ~Outcome(test)
=============================================================================
