----------------------------- MODULE Exploration -----------------------------
(***************************************************************************)
(* What a search of the schedules of a program promises, whichever it      *)
(* takes and in which order: it counts different complete executions, up   *)
(* to its cap, and of each only what a replay of its schedule shows; of    *)
(* every kind of bug it keeps the first it meets, with a schedule whose    *)
(* replay shows this very bug, and may later only shorten this schedule;   *)
(* and it overlooks no bug of an execution it counts.  What a replay shows *)
(* is a parameter.  Naive, and Dpor with the minimizations that follow it, *)
(* are shown to implement it.                                              *)
(***************************************************************************)
EXTENDS Naturals, Sequences, Functions

CONSTANTS
    Programs, MemoryModels, ScheduleCaps,
    ReplayOf(_, _, _),   \* {the result of the replay} of a schedule of a program, or {}
    FoundOf(_),          \* the reports of a result: of each kind none, or one with its schedule
    identities_of(_),    \* the bugs of a result, of each kind
    ReportKinds,         \* the kinds of reports
    BugKinds,            \* those whose schedules are shortened
    CountFields             \* the counters of a result

VARIABLES
    program, memory_model, max_schedules,
    result,              \* what has been counted and found
    schedules            \* the schedules counted so far

params == <<program, memory_model, max_schedules>>
evars == <<params, result, schedules>>

Init ==
    /\ program \in Programs
    /\ memory_model \in MemoryModels
    /\ max_schedules \in ScheduleCaps
    /\ \A counter \in CountFields : result[counter] = 0
    /\ \A kind \in ReportKinds : FoundOf(result)[kind] = {}
    /\ schedules = <<>>

\* Nothing is counted.
CountNothing ==
    /\ UNCHANGED schedules
    /\ \A counter \in CountFields : result'[counter] = result[counter]

\* The complete execution s is counted.
Count(s) ==
    /\ result.schedules_explored < max_schedules
    /\ s \notin Range(schedules)
    /\ schedules' = Append(schedules, s)
    /\ \E r \in ReplayOf(program, s, memory_model) :
          /\ r.schedules_explored = 1
          /\ \A counter \in CountFields : result'[counter] = result[counter] + r[counter]
          /\ \A kind \in ReportKinds :
                FoundOf(r)[kind] # {} => FoundOf(result')[kind] # {}

\* The first bug of a kind is kept, and what a replay of its schedule shows is this bug.
Find(kind) ==
    /\ FoundOf(result)[kind] = {}
    /\ \E found \in FoundOf(result')[kind] :
       \E r \in ReplayOf(program, found.schedule, memory_model) :
          FoundOf(r)[kind] = FoundOf(result')[kind]

\* Afterwards the report of a bug may be replaced by one of the same bug with a shorter
\* schedule, whose replay shows it too.
Shorten(kind) ==
    /\ kind \in BugKinds
    /\ UNCHANGED schedules
    /\ identities_of(result')[kind] = identities_of(result)[kind]
    /\ \A old \in FoundOf(result)[kind] : \E found \in FoundOf(result')[kind] :
          /\ Len(found.schedule) <= Len(old.schedule)
          /\ \E r \in ReplayOf(program, found.schedule, memory_model) :
                FoundOf(r)[kind] = FoundOf(result')[kind]

Next ==
    /\ UNCHANGED params
    /\ CountNothing \/ \E s \in Range(schedules') : Count(s)
    /\ \A kind \in ReportKinds :
          FoundOf(result')[kind] = FoundOf(result)[kind] \/ Find(kind) \/ Shorten(kind)

Spec == Init /\ [][Next]_evars
=============================================================================
