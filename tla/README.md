# A TLA+ model of the DPOR model checker

The repository is a stateless model checker for small concurrent programs. It
interprets a program of up to a few threads step by step, explores its
interleavings with dynamic partial-order reduction (DPOR), and reports data
races, deadlocks, modeled errors, assertion failures and cycles. This directory
holds a model of it, the TLC configurations that check the model, and TLAPS
proofs about it. The checker itself is sequential C++: the concurrency is that
of the *interpreted* programs, and the difficult part of the code is to
interpret them with the right happens-before relation and to leave out
interleavings without losing an outcome.

Source paths below are relative to the repository root; unless another file is
named, code is in `src/model/checker.cpp`.

## 1. Inventory

| Component | State | Operations | Used by | Correct when |
|---|---|---|---|---|
| Action IR (`include/model/action.hpp`, `src/model/action.cpp`) | none | kind predicates, `may_conflict`, `independent`, the order of `ScheduleStep`s | everything | `independent` actions commute |
| Vector clocks (`vector_clock.cpp`) | map thread -> count | `tick`, `join`, `happens_before_or_equal` | interpreter, DPOR | clocks say exactly what happens before what |
| Execution state | `ExecutionState`: program counters, registers, locks, waiters, barriers, clocks, memory, store buffers, access histories | `initial_state`, `enabled_steps`, label normalisation | interpreter, searches, replay | enabledness is exactly what the primitives and the memory model allow |
| Memory and races | `AddressState` of each address, store buffers | read, write, flush, atomics, `record_*` | interpreter | forbidden outcomes never happen; races are reported exactly |
| Synchronisation | mutexes, condition waiters and wait phases, reader-writer locks, semaphores, barriers, started threads | 20 kinds of action and 2 extra phases of a wait | interpreter | edges of happens-before are neither lost nor invented; parked threads are consistent |
| Step interpreter | the above and the reports of one step | `execute_enabled_step`, `make_deadlock_report` | searches, replay | every step is one legal step; deadlock reports name the real blockers |
| Independence | none | occurrence identities, `transitions_independent(_at_node)` | DPOR | independent transitions form diamonds |
| Behavioral history | the path's fingerprints, shared by the whole recursion | `observe_path_behavioral_state`, `PathHistoryRestore` | both searches | it is the map of the current path, always |
| DPOR search | stack of `DporNode`s (backtrack, done, sleep), trace, result | `dpor_dfs` and its helpers | `explore_dpor`, `collect_dpor_schedules` | finds every class of outcome and every final state |
| Naive search | stack of calls, each with the steps still to take; the shared history, the result | `dfs`, `collect_naive_schedules_dfs` | tests, `explore_naive` | every complete schedule once, in order, up to the cap |
| Lasso classification | a replayed stem and cycle | `make_nontermination_report` | searches, replay | the cycle repeats for ever; its label is that of the repetition |
| Replay, inspection | a replayed path | `validate_replay_step`, `replay_schedule`, `replay_effective_trace`, `inspect_replay_schedule` | CLI, minimizer, exporter | a reported schedule reproduces its report, nothing else is accepted |
| Minimizer | a schedule being shortened, its target bug | `minimize_schedule_for_identities`, `minimize_result_reports` | `explore_*` | same bug, 1-minimal, ends |
| Program and schedule parser (`src/cli/program_parser.cpp`) | names, labels, references seen so far | `parse_program_stream`, `parse_schedule_file` | CLI | exactly the well-formed programs, whatever the order of lines |
| Report (`src/cli/report.cpp`) | none | `print_report`, `verdict_of`, `print_trace` | CLI | verdict, details and labels say what the schedule does |
| Command line (`src/cli/main.cpp`) | none | `run_check`, `run_replay`, option parsing | user | what `check` prints, `replay` confirms |
| Metrics, showcase exporter | counters; JSON output | | profiling, web page | (not modelled) |

The components interact by calls only. Three things are shared across calls and
therefore easy to get wrong: the state history and the vector of nodes of the
whole recursion, and the `CheckResult`. Between two runs of the tool a schedule
goes through text: `check` prints it, `replay` parses it.

**What is hard here.** Clocks that are overwritten on release rather than
joined; access histories that are trimmed on every write; a barrier's last
arrival that moves other threads; a timeout racing a signal; stores that become
visible at a separate step; independence that depends on the state; sleeping
steps that outlive the state in which they went to sleep; threads blocked at the
end of a path; paths that end early; a history restored by destructors; caps and
bounds met in the middle of a recursion; the control of the search repeated, in
code of its own, by three replay loops; reports minimized one by one, on
schedules that may then show something else. `PROJECT.json` lists each with its line
and the property that watches it.

## 2. Modules

```
ActionIR -> VectorClock -> ExecState -> Memory -> Sync -> Execution -> StateProps
                                                            |
   Interpreter (one path)          Independence <-----------+--> PathHistory -> Lasso -> Search
     |   |   |                       |       |                                            |
     |   |   HappensBefore           |       DporBacktrack                                |
     |   Litmus                      |            |        Replay = Search + Independence
   InterpreterProps <----------------+            |           |
     (+ StateProps, : Synchronizers)              |     Path, Minimizer, Report
                                                  |
   Dpor      = DporBacktrack + Search <-----------+
   DporProps = Dpor + Report (: Exploration)      PathMinimizer = Path + Minimizer
   Naive     = Report + its search (: Exploration)
   Checker   = DporProps + Minimizer + Report     ProgramText -> ProgramSuite, Parser

Proofs (TLAPS):
   StateProps -> InterpreterTypes -> StepProofs
   StepProofs + InterpreterProps    = InterpreterProofs -> AccessProofs
   StepProofs + Report + Minimizer  = ReplayLemmas
   ReplayLemmas + PathMinimizer     = ReplayProofs
   ReplayLemmas + Naive             = NaiveProofs
   ReplayLemmas + Checker           = SearchProofs
```

(An arrow or line downwards is EXTENDS, a colon a refinement, INSTANCE of an abstract
specification.) `ProgramText` has a constructor for each keyword of the program
files, `ProgramSuite` the programs the runs explore, and the `MC*` modules the
constants.

| Module | Models |
|---|---|
| `ActionIR` | `action.hpp`, `action.cpp` |
| `VectorClock` | `vector_clock.cpp`; the sparse map is a total function, 0 where absent |
| `ExecState` | the structs of the execution state, `initial_state`, enabledness, ordered points, labels, registers |
| `Memory` | memory and atomic actions, flushes, `record_read/write/atomic` |
| `Sync` | all synchronisation actions and their modeled errors; thread-local actions |
| `Execution` | `execute_enabled_step`, `record_step_report`, `make_deadlock_report` |
| `StateProps` | no code: predicates on execution states, shared by the properties and the proofs |
| `Interpreter` | one execution: one TLA+ action per kind of step (a wait has a park, a timeout and a reacquire action) |
| `Independence` | occurrence identities, `transitions_independent`, `transitions_independent_at_node` |
| `PathHistory` | the behavioral fingerprint and the history of a path |
| `DporBacktrack` | initial backtrack sets, backtracks of a transition, disabled repairs, inherited sleep sets |
| `Lasso` | `validate_replay_step`, `make_nontermination_report` |
| `Search` | what the two searches share: the parameters of a call, the `CheckResult` and how it is filled |
| `Dpor` | `dpor_dfs` as a machine over the stack of frames (`explore_dpor`, `collect_dpor_schedules`) |
| `Naive` | `dfs` as such a machine (`explore_naive`, `collect_naive_schedules`) |
| `Exploration` | *abstract*: what either search promises about its counts, schedules and reports; what a replay shows is its parameter |
| `Replay` | `replay_schedule`, `replay_effective_trace` and `inspect_replay_schedule`; bug identities |
| `Path` | one path of `dfs` with its schedule and result; the properties of lassos, replays and of a renderer that believes an inspection |
| `Minimizer` | the loop of the minimizer, one step per candidate and replay |
| `PathMinimizer` | the minimizer on the reports of every path |
| `Report` | `report.cpp`, schedule files, `run_replay` |
| `Checker` | a whole run of the tool: the search of `explore_dpor`, `minimize_result_reports`, `run_check`, and a user who replays the printed schedule |
| `Synchronizers` | *abstract*: mutexes, conditions, reader-writer locks, semaphores and barriers as a threads library promises them |
| `Parser` | `parse_program_stream` line by line, and the constructor's own check |

**State.** `state` is the C++ `ExecutionState` as a record with the same field
names. Maps with absent keys are total functions with the value the code reads
for an absent key. `std::optional` is the empty or a one-element set in reports
and histories, `NoThread`, `NoReg` or `NoOperand` elsewhere. `condition_waiters`
and `reader_holders` are sets: the code keeps them sorted and free of
duplicates. `state.schedule` is not kept; in `Dpor` it is the trace.

**Abstractions.**
- A `Value` is an integer of `-ValueHalf .. ValueHalf - 1`; `AtomicRmw` wraps.
  `old_value + addend` on `int64_t` is undefined on overflow in C++; the builds of
  the repository wrap, and the model does what they do.
- `kFlushActionIndex` is the constant `FlushActionIndex`, at least the length of
  every thread.
- The behavioral fingerprint, an injective byte string in the code, is the record
  of the encoded fields.
- A modeled error is its endpoint and a message out of a small set, without the
  wording. The constructor's rejection of ill-formed programs is the assumption
  `ProgramsAssumption`.
- `Dpor` makes a step of what a frame does between two recursive calls; `call` holds
  the node a call is about to push, already built. Steps of
  the backtrack set that are disabled or asleep are passed over in the same step
  as the next one taken (`Passed`), as the loop's `continue` does.
- `result` in `Dpor` and `Naive` is what the search has found; `Checker` then sets
  `exploration_capped` and minimizes the reports, as `explore_*` do.
  `terminal_schedules` and `schedules` are the lists of the `collect_*` functions,
  whose control is the same as that of the searches.
- An exception is the absence of a value: a replay, an inspection or a report is a
  set with one element, or empty where the code throws. In `Checker` an exception
  leaves no next step, so TLC's deadlock check shows that none is thrown.
- `replay_schedule`, `replay_effective_trace` and `inspect_replay_schedule` are loops
  over the schedule. The first two, which validate and stop alike, share
  one loop that carries the result and the effective trace; it is a recursive function
  over the number of steps taken, the third a fold.
- A report is the record of its verdict, its other kinds, its details, the labels
  of its trace and its schedule lines as sequences of numbers. Wording, counters
  and the text of actions are left out.
- A line of a program is the action its words make; the words themselves, and
  the digits of numbers, are not modelled.

Definitions marked *Variant* are single-point changes of the definition that
follows them, each a mistake one could make in that code. They are not part of
any specification; substituting one for its original makes the property that
watches it fail.

## 3. What is checked

| Run | Programs and bounds | States | Shows |
|---|---|---|---|
| `sync_paths` | three threads, all families of synchronisation bodies and lock misuses; SC and TSO | 86 168 | `TypeOK`, `ClockInv`, `EpochInv`, `HandoffInv`, `ParkedInv`, `DeadlockExplained`, `Diamond`, `PublicationMonotone`, `Progress`, `ImplementsSynchronizers` |
| `memory_models` | three threads, atomics mixed with plain accesses, store-buffer bodies, and 21 litmus tests of up to four threads; SC, TSO, PSO | 360 780 | `EpochInv`, `RaceSound`, `RaceComplete`, `Diamond`, `NoForbiddenOutcome`, `Progress` |
| `hb_exact` | three threads, all synchronisation and atomic families; SC | 638 010 | `ClocksExact` |
| `dpor_sync` | three threads that do not all run the same body, all synchronisation families; SC | 233 595 | `SameKinds`, `SameTerminals` |
| `dpor_check` | two threads: spin loops, a counting loop, a spin lock, mutexes, conditions, atomics, store buffers; SC, TSO, PSO; step bound 7, caps 0, 3, 2000; from the search to the replayed report | 48 041 | `SameKinds`, `SameTerminals`, `HistoryExact`, `SleepCovered`, `ImplementsExploration`, `VerdictReplays`, `PhasesRendered` |
| `paths` | two threads: the same without atomics, and endless loops around a mutex, a timed wait, a semaphore and a barrier beside each other and beside threads they postpone; SC, TSO, PSO; step bound 6 | 59 871 | `CycleRepeats`, `FairnessExact`, `ReplayExact`, `NoContinuation`, `EffectsExplain` |
| `minimize` | two threads: loops, mutexes, conditions, atomics, store buffers; SC, TSO; step bound 6 | 250 304 | `SameBug`, `OneMinimal`, `Terminates` |
| `naive` | two threads: loops, mutexes, store buffers; SC, TSO, PSO; step bound 5, caps 0, 3, 1000 | 60 059 | `ExactSearch`, `ImplementsExploration` |
| `parser` | all files of up to 5 of 16 lines whose names, labels and threads collide | 64 306 | `ParsesPrograms` |
| `reread_race`, `cycle_classes`, `replay_bound` | one or a few programs each | | violate a property (section 5) |

The properties in words:

- **ClockInv**: a thread's own component counts its steps, and no clock anywhere
  in the state is ahead of the thread it speaks of.
- **EpochInv**: clocks are causally closed. One that knows the step of an access
  knows all that the access knew, so comparing clocks means comparing
  concurrency.
- **HandoffInv**, **PublicationMonotone**: why `Unlock`, `WUnlock` and `Downgrade`
  may overwrite the published clock.
- **ClocksExact**: against a definition of happens-before without clocks (the
  transitive closure of program order and the edges of `INVARIANTS.md`), in both
  directions.
- **ParkedInv**: waiter lists, wait phases, barrier arrivals, program counters and
  mutex owners agree.
- **RaceSound**, **RaceComplete**: the trimmed access records against all pairs of
  the full history.
- **DeadlockExplained**: every started, unfinished thread is named once with
  something that does block it; a thread that sleeps at a condition is named with the
  mutex it has given up.
- **Progress**: in programs without backward branches a rank computed from
  fingerprinted fields only grows, so leaving out cycle detection
  (`requires_cycle_detection`) is sound.
- **NoForbiddenOutcome**: the litmus outcomes that SC, TSO or PSO forbid, and the loss
  of one of two read-modify-writes, in either order, when their sum passes the largest
  value. The code adds two `int64_t`; that the sum wraps is what the builds do and is
  an assumption of the model, not something the run finds out.
- **Diamond**: independent transitions do not disable or change one another, and
  both orders give the same state and reports.
- **SameKinds**, **SameTerminals**: DPOR against all interleavings: classes of
  outcomes, and behavioral states at the ends of complete executions.
- **HistoryExact**, **SleepCovered**: the shared history is the map of the current
  path; a sleeping step was taken at a frame of the stack and commutes with
  everything since.
- **ExactSearch**: the schedules of the exhaustive search are, in lexicographic
  order and each once, all there are, or the first of them up to the cap.
- **CycleRepeats**, **FairnessExact**: from the state in which a reported cycle
  closes, which differs from the one in which it began in clocks and histories, its
  steps are enabled again and close it again; the label is that of weak and strong
  fairness of the repetition, judged on the second turn.
- **ReplayExact**, **NoContinuation**: a schedule of the search replays to the very
  result of the path, and with any step appended it is rejected: any action of a
  thread, and any flush with or without an address, also of stores still pending at an
  error, a bound or a cycle. TLC appends the steps that name an action or an address of
  the program; the theorem is about all.
- **EffectsExplain**: a renderer that starts from zeros and applies the inspected
  effects arrives at the registers, memory and buffers of the state.
- **SameBug**, **OneMinimal**, **Terminates**: of the minimizer.
- **VerdictReplays**: what `check` prints, given to `replay`, gives the same verdict,
  details and schedule, unless the search was capped. **PhasesRendered**: the labels
  of waits in the trace say what the steps do, in programs without loops.
- **ParsesPrograms**: a file is accepted exactly if it is well-formed as a whole, a
  file refused early has no well-formed extension by a line, and the constructor
  refuses nothing the parser accepts.

**Refinements.** `ImplementsExploration`: `Naive` and `Dpor` (with `schedules <-
terminal_schedules`) implement `Exploration`: they count different complete
executions, up to the cap, by what a replay of each shows, keep the first report of
a kind with a schedule that replays to it, and overlook no bug of an execution they
count; in `Checker` also the minimizations that follow the search implement it,
each replacing a report by one of the same bug with a schedule that is not longer and
replays to it. Which executions are counted is left open there; that is what `ExactSearch`,
`SameKinds` and `SameTerminals` are for. `ImplementsSynchronizers`: the objects of
the interpreter are those of `Synchronizers`, with the mutex a waiting thread
will own again taken from the action at which it stands. A step that does not
change an object is a stutter there, so the refinement says that no step does
something the objects forbid, not that an operation has an effect; `Diamond`,
`ParkedInv` and `Progress` look at the latter.

**Bounds and why they suffice.** `StepBound` 8 is above the number of steps of
any thread without loops (bodies have at most five actions, each store one flush
and each wait one or two further phases), so no path of those programs is cut.
Three threads are the smallest number with two waiters and a waker, an upgrade
against two readers, or a barrier generation completed while another thread is
about to arrive. The bodies of each family are combined in every way, with
correct and incorrect uses of an object in the same program. `ValueHalf` 4 makes
additions of 3 wrap; the loops use 16 so that the counter of a step-bounded path
does not recur. In `dpor_check` the bound of 7 is met, cycles are cut, and the caps
make the recursion unwind at the first call, in its middle, and not at all. The
exploration is compared with the reference only when the cap was not met.
`dpor_sync` leaves out programs of three equal bodies for time. The runs on paths,
minimizations and whole checks use pairs of threads: what they look at (the control
of the replay loops, the passes over the threads, the priorities of reports) needs
two threads for a removal in one to allow one in the other. Their step bound is
below the length of the loops, so that bounded paths, cycles, errors, deadlocks
and clean ends all occur. Five lines are enough for two threads with a label, a
branch, a spawn or two uses of a name in either order.

**Deadlock and fairness.** In the interpreter runs a behaviour ends where the
path ends: at a terminal state of the interpreted program (finished or
deadlocked), an error or the bound; TLC's deadlock check is therefore off there.
In all other runs it is on: a search, a minimization, a check or a parse never gets
stuck before it returns. Fairness is assumed once, for `Terminates`: `MSpec` has
`WF_place(GoesOn)`, where `place` is the phase, the thread of the pass and whether
a replay is pending. The minimizer is a loop of a single thread that nothing
suspends; every step of it changes `place`, and the deadlock check shows that a
step is always possible. The interpreter's scheduling of the modelled threads is
adversarial by design and has no fairness.

**Agreement with the program.** For the programs of the mutex, condition
variable, reader-writer lock, barrier, semaphore and thread families under SC, the
atomic and store-buffer pairs under all three memory models, and the loops under
SC and TSO with step bounds 5 and 8, `schedules_explored` of the model's search
was compared with what the compiled `dpor check` prints, and was equal for every
program compared. The number depends on every backtrack and sleep decision, so
this is strong evidence that `Dpor` makes the decisions of the code.

## 4. What is proved

For every set of programs, every number of threads, registers and objects, every
value width, memory model and step bound:

| Module | Theorem | Statement |
|---|---|---|
| `InterpreterProofs` | `TypeCorrect` | `Spec => []TypeOK` |
| | `ClocksCorrect` | `Spec => []ClockInv` |
| | `ParkedCorrect` | `Spec => []ParkedInv` |
| | `HandoffCorrect` | `Spec => []HandoffInv` |
| | `SynchronizersImplemented` | `Spec => ImplementsSynchronizers` |
| | `PublicationsGrow` | `Spec => PublicationMonotone` |
| | `DeadlocksExplained` | `Spec => []DeadlockExplained` |
| `AccessProofs` | `RacesAreRaces` | `Spec => []RaceSound` |
| | `ClocksCausallyClosed` | `Spec => []EpochInv` |
| | `RacesFound` | `Spec => [](~requires_cycle_detection(program) => RaceComplete)` |
| `ReplayProofs` | `ReplayIsExact` | `Spec => []ReplayExact` |
| | `NothingFollows` | `Spec => [](NoContinuation /\ (ended => \A step \in ScheduleStep : RefusedNext(step)))` |
| | `CyclesRepeat` | `Spec => []CycleRepeats` |
| | `FairnessIsExact` | `Spec => []FairnessExact` |
| | `BugKept` | `MSpec => []SameBug` |
| | `NothingToDrop` | `MSpec => []OneMinimal` |
| `NaiveProofs` | `NaiveImplementsExploration` | `Spec => ImplementsExploration` |
| | `SearchIsExact` | `Spec => []ExactSearch` |
| `SearchProofs` | `SearchHistory` | `Spec => []HistoryExact` |
| | `SearchSleeps` | `Spec => []SleepCovered` |
| | `CheckImplementsExploration` | `CSpec => ImplementsExploration` |
| | `CheckKeepsBugs` | `CSpec => []SameBug` |

(`Spec` is that of `Interpreter` in the first two modules, that of `Path` in
`ReplayProofs`, that of `Naive` in `NaiveProofs` and that of `Dpor` in `SearchProofs`;
`MSpec` is that of `PathMinimizer`, `CSpec` that of `Checker`: the search, then the
minimizations, then the printed report.) Assumptions: `SizesAssumption`, `NamesAssumption`,
`ProgramsAssumption` (`ActionIR`), `BoundAssumption` (`Interpreter`) and
`SearchAssumption` (`Search`, for replay and search): positive sizes, distinct
nonempty address names, programs made of well-formed actions and shorter than the
flush index.

**One step** (`InterpreterTypes`, `StepProofs`). The interpreter, the searches and
the replay loops all execute steps by `execute_enabled_step`, so what a step does is
proved once, about that operator, without reference to a specification. `Sound(p, s)`
is the predicate every such step keeps (`StepSound`): the state is *counted* for its
own `thread_steps` (`CountedState(p, n)`: every field has its type, every clock
is below `n`, a thread's own component equals `n`'s), parked threads are where the
waiter and arrival sets say, holders have acquired what their lock published, and
only the buffers of the current memory model hold stores (`Buffered`). None of the
parts is inductive alone:

- Types need `Parked`: the last arrival of a barrier advances the counters of the
  other participants, which stays in range only because they stand at a
  `BarrierWait`; a wake writes into the register named by the action at which the
  woken thread stands.
- `Parked` needs the clocks: a generation has accumulated the clocks of its
  arrivals, and stays so because a parked thread takes no step. It could still
  flush, which would tick its clock; `Parked` therefore says that arrivals have
  no pending store, which holds because `BarrierWait` is an ordered point.
- `HandedOff` needs that clocks only grow and that only the holder releases.

`InterpreterTypes` has the lemmas on clocks, counters, labels, operands and on what
each effect of `Memory` and `Sync` returns. They are stated for any pair `n` in
`Counts` of a step count and a set of clocks that contains zero and is closed under
`Join`; with all clocks below the count they give
type correctness, with the causally closed clocks they give `EpochInv`, from the
same lemmas. `StepProofs` groups the effects by what they leave alone (`LocalStep`,
`OwnStep`) so that most kinds of step share one argument, and treats parking, waking,
barriers and spawning separately. `InterpreterProofs` turns this into the invariant
`IInv` of `Interpreter`.

**Synchronisation objects** (`InterpreterProofs`). The refinement has one lemma per
family: from `IInv`, a step of the family is the abstract operation of its object and
leaves the other objects alone. It needs `Parked`, because the mapping reads the mutex
a waiting thread will own again from the action at which it stands, and a wake must
find the thread there. `PublicationsGrow` follows from `HandedOff`: what an `Unlock`
writes over was acquired by the unlocking thread. For `DeadlocksExplained` each
reason for which `enabled_steps` gives a thread nothing is matched with the blocker
`make_deadlock_report` derives; `Buffered` excludes threads that are stuck with a
store nobody flushes.

**Races** (`AccessProofs`). A step records no access and reports no race, or records
one access with the clock its thread has after the step, and compares it with what
`AddressState` kept (`Records`). `RacesAreRaces` follows by looking at the two
endpoints. `EpochInv` is strengthened by *every access has a positive component of
its own thread* (`Stamped`), so that the zero clock knows no access. `RacesFound`
needs why the trimmed records suffice (`Covered`: as long as no race was reported,
every plain access happens before the last write or is a read that is kept) and that
the key of a kept read is met once (`Keyed`; `Passed`: the thread of a kept read
stands beyond it, and in a program without backward branches counters only move
forward). That hypothesis
is the code's own predicate `requires_cycle_detection`; without it the statement is
false (run `reread_race`).

**Replay and minimizer** (`ReplayLemmas`, `ReplayProofs`). `PathInv` says that the replay loop, run
on the schedule so far, stands where the path stands: the same state, history,
schedule and result, or ended with the path's result (`Matches`). The loop is the one function
that satisfies its recursion (`ReplayLoopIs`), so extending the
schedule by a step extends the loop by `ReplayStep` and leaves its earlier values
alone (`ReplayExtends`): no induction over the schedule is needed, the induction is
that over the steps of the path. The proof needs that the path's history has one
entry for each fingerprint (`Unambiguous`), so that search and replay report the
same cycle, and that `any_enabled`, a loop over threads and addresses in the code,
agrees with `enabled_steps` being nonempty (`AnyEnabled`), which is where
`Buffered` is used again. For the minimizer, `Minimizing` says that the schedule kept shows the
target, that the candidate tried is that schedule without one step, and that in a
pass that has removed nothing yet no thread already passed has a step to give
(`Needed`); a pass that changes nothing therefore ends with a 1-minimal schedule. That the
initial replay succeeds is `PathInv`.

**Lassos** (`ReplayProofs`). A fingerprint leaves out clocks, access histories, step
counts and barrier generations, so a closed cycle is not a repeated state. What makes it
an endless execution is that the fingerprint decides its own future: two states are
`Alike` when they have equal fingerprints (`AlikeFingerprint`), and then they enable the
same steps, and each of these steps fails in both or leads to states alike (`AlikeStep`,
one lemma per family of effects; the parties of a barrier, which the code does not
encode either, are those the program names). `Executes` says what `Retrace` accepts
(`RetraceReplays`, `RetraceExecutes`), `TurnAgain` that a second turn of the cycle goes
through states alike those of the first, step by step. `CyclesRepeat` follows, and
`FairnessIsExact`, because a label looks only at what the states of a turn enable. The
invariant `LassoInv` adds that a reported lasso was made on some schedule with a start
inside it.

**Reduced search** (`SearchProofs`). `SearchInv` describes the stack between any two
steps of `dpor_dfs`: there is a frame below every transition of the trace and one
more, open or about to be called; each is the node of a state that is `Sound`, the
transition taken at it is in its `done` set, and what sleeps at it or at the coming
call is covered (`Covers`) by a frame at which it was done. While a frame is open it
only *evolves* (`Evolves`): its state and its transitions stay, `done` grows, and
what falls asleep is done. Backtrack points and repairs, whichever steps they choose
and at whichever frames, even only wake steps (`Woken`; `RepairsWake` and
`DisabledWakes` are inductions over the loops, by a least counterexample), so the
argument needs nothing of `enabler_heads` or of the rounds of
`initialize_dpor_backtrack`. Independence at a node looks at what does not evolve
(`SameIndependence`), so a covered step stays covered. `SearchHistory` is the third
part of `SearchInv`: `Observed` adds the position one past the path and `Restored`
removes just that position, because the trace and the stack have the lengths the
invariant says, and a state already on the path cuts it instead of being added.
`Sound` is needed because the next step, the least of the candidates, must
exist and be one of `enabled_steps`.

**The searches implement `Exploration`** (`ReplayLemmas`, `NaiveProofs`, `SearchProofs`).
Both searches are walks over a tree of paths, and two facts about the path on which a
walk stands carry the refinement. `Standing`: for every prefix of the path, the replay
of this prefix stands at the state of the frame with the history of the path up to it,
and has reported nothing of a kind of which the search has no report (`Carries`). It
is `PathInv`'s argument, applied to each prefix, because the search returns to any of
them; it gives that the leaf the search counts is what the replay of its schedule
counts, and that the first report of a kind is the one the replay of its schedule
shows. `Distinct`: each schedule counted leaves the path at some frame by a step that
this frame has already taken, so a leaf below a fresh step differs from all of them.
For `dfs` the steps taken are those no longer in `rest` (`NaiveInv`), for `dpor_dfs`
the `done` set, which no backtrack point, repair or wakeup takes a step out of
(`Evolves`, `ExploreInv`). Nothing about which steps the reduction chooses is needed:
whatever it chooses, it counts no execution twice and reports nothing a replay would
not.

**The exhaustive search is exact** (`NaiveProofs`). What `dfs` counts is compared with
`Executions`, the set of all complete schedules built level by level without a search
order. `ExecutionsAre` replaces this construction by a statement about one schedule
(`IsComplete`: some states lead through it, every step but the last one goes on, and the
last one ends it or nothing is enabled); the levels are counted by `CountUp`, an
induction by a least counterexample, and their number suffices because a step that goes
on is below the step bound of its thread (`OpensBounded`). `ExactInv` then says of every
complete execution that it has been counted, or is `Pending` (it is the path itself, or
leaves the path by a step still in the `rest` of the frame there), or was left out by the
cap and comes after all that has been counted. It is kept because the path follows an
execution step by step (`CompleteFollows`): when the frame takes its least step, the
executions through this step are the one that ends with it, or those that the new frame
awaits. The order comes with it: all that has been counted leaves the path `Behind` the
step taken there, all that is pending lies ahead of it (`CountedFirst`). The history of the
search must be that of the path for this (`Remembered`), since a cycle found too early or
too late would end another execution than `Executions` does.

**A whole check** (`SearchProofs`). After the search, `CheckInv` adds to `ExploreInv`
that every report of the result is the one its own schedule replays to (`Reported`),
the minimizer's `Minimizing`, and that the minimization under way is that of the report
at the head of `kinds`, with a schedule no longer than the report's (`ForReport`). The
search establishes `Reported` because a report is kept with the schedule at which it
was made (`ReplayReports`: what a replay reports first it reports with the prefix it
has read, by a least counterexample over the prefixes), and taking over a minimized
report keeps it, because the last replay of the minimizer made that report. Hence each
`minimized_*_report` gets a schedule that shows its bug, `minimize_schedule_for_identities`
never ends in its `logic_error` (`CheckKeepsBugs`), and the replacement is a `Shorten`
step of `Exploration`: the same bug, a schedule that is not longer and replays to it.

**Model-checked only.**
- `ClocksExact`, `Diamond`, `Progress`, `EffectsExplain`, `NoForbiddenOutcome`: not attempted. `Diamond` compares two orders of every pair of
  effects; `ClocksExact` is about a transitive closure, `Progress` about sums.
- The other properties of the searches and of whole checks (`SameKinds`,
  `SameTerminals`, `VerdictReplays`, `PhasesRendered`) and
  `ParsesPrograms`. `VerdictReplays` says that a minimized schedule shows no bug of a
  more important kind than the one printed, which holds only because the search would
  have met that bug: it rests on completeness. Completeness of the
  reduction needs `Diamond` and induction over what recursive definitions compute (the
  rounds of `initialize_dpor_backtrack`, the chains of `enabler_heads`, `Explore`), which
  is out of reach of the installed provers.
- `Terminates`: liveness under fairness is out of reach, as is ENABLED.

## 5. Disagreements found

The first three are runs of the project; each was reproduced with the compiled tool.

**A missed race** (`reread_race`). `record_read` keeps the reads of an address since its last write in a map keyed
by (thread, action index) and inserts with `emplace` (line 2126), which does
nothing when the key exists. If a loop executes the same read twice, only the
first access is kept. A write that is ordered after the first read but not
after the second is then compared with the first one's clock and no race is
reported, although `INVARIANTS.md:210` says "Conflicting memory accesses
unordered by happens-before are races." Run `reread_race` gives such a path: the
first read is published through an atomic flag, the second happens while the
other thread's failed `try_lock` shows the reader in its critical section. The
compiled checker, given the same program, also misses that race. `memory_models`
shows that without repeated reads detection is complete.

**A missed class of cycles** (`cycle_classes`). `INVARIANTS.md:372-375`: the gates
compare the three fairness classes of cycles, and "a missing class is a soundness
failure, not an expectation to weaken silently". Where a cycle closes `dpor_dfs` cuts
the path and keeps the siblings of that node (line 3564). For a spin on a flag next
to a thread that increments it once, the interleavings contain a cycle
of a class that the reduced search never meets. Existence of a cycle as such
is preserved (`SameKinds`).

**Replay has its own step bound** (`replay_bound`). `adr/0008-cli.md:73`: "For a
reproducing bug schedule, replay must produce the same verdict and bug details as
check." `run_replay` (`src/cli/main.cpp:166`) always uses `kDefaultStepBound`; a
schedule found with a larger `--step-bound` is rejected.

Three smaller disagreements were met on the way and are not kept as runs:

- After a search that met its cap, the minimized schedule of an assertion failure may
  have lost the synchronisation that ordered two accesses and replay to the verdict
  `race`, which the search never saw. `VerdictReplays` therefore speaks of searches
  below their cap.
- `print_trace` labels every occurrence of a wait but the first "(reacquire)"
  (`src/cli/report.cpp:214`), so a wait that a loop executes again falls asleep under
  the wrong label; and it drops the label of a wait that is the endpoint of any error
  found, also when the verdict is another bug (`is_selected_error_endpoint`, line 28),
  where the report of the replay prints it. `PhasesRendered` therefore speaks of
  programs without loops, and of the labels that are printed.
- `parse_size_token` (`src/cli/main.cpp:48`) refuses a number that "is too large" by
  comparing a `uint64_t` with the largest `size_t`, which on a 64-bit build it cannot
  exceed; `--max-schedules 18446744073709551617` means 1.

## 6. Not modelled

- Splitting lines into words, comments, operand counts, numbers and signed literals (the library's
  `std::stoll`), the text of actions and of messages, `render_program`: conversions
  between text and actions that no property here is about.
- The scan of the command line for options and their numbers.
- Exploration metrics: counters that decide nothing.
- The showcase exporter (`showcase/`): it turns the results of `inspect_schedule` and the
  `collect_*` functions into JSON; the former are modelled, the output is not.
- The tests' own oracles (Mazurkiewicz classes): the model's references replace them.

## 7. Plan

Done: the interpreter, both searches, lassos, replay and inspection, the minimizer,
the composition from search to replayed report, the parser's control, two abstract
specifications and their refinements, twenty-two theorems. What is left:

1. `EffectsExplain`, with the replay loop's argument for the inspection loop.
2. `Progress` for every program without backward branches, from `Forward`.
3. `Diamond`, family by family: it is the premise of a proof that the reduction is
   complete.
