------------------------------ MODULE Minimizer ------------------------------
(***************************************************************************)
(* The schedule minimizer of src/model/checker.cpp: the last step of one   *)
(* thread after the other is dropped from a schedule as long as a replay   *)
(* still shows the bugs it was found with.                                 *)
(*                                                                         *)
(* A component: its caller begins a minimization with FirstPass, or with   *)
(* Given, and takes the schedule over when the phase is one of Ends.       *)
(***************************************************************************)
EXTENDS Replay

VARIABLES
    phase,           \* "off", "given", "passing", "trying", "finishing"; at last "done",
                     \* "unchanged", or "failed" for the logic_error
    target,          \* const BugIdentitySet& target
    minimized,       \* Schedule minimized
    changed,         \* bool changed
    tid,             \* tid_index of the pass
    candidate,       \* Schedule candidate, or the schedule otherwise to be replayed
    pending,         \* the replay of candidate has not been made yet
    replayed         \* {CheckResult replayed}, {} for a rejected schedule

mvars == <<phase, target, minimized, changed, tid, candidate, pending, replayed>>

MinimizerInit ==
    /\ phase = "off" /\ target = NoBug /\ minimized = <<>> /\ changed = FALSE /\ tid = 0
    /\ candidate = <<>> /\ pending = FALSE /\ replayed = {}

\* Ask for the replay of s, and go on in phase next.
Ask(next, s) ==
    /\ phase' = next
    /\ candidate' = s
    /\ pending' = TRUE
    /\ UNCHANGED replayed

\* replay_schedule for whoever asked.
Replayed ==
    /\ pending /\ pending' = FALSE
    /\ replayed' = replay_schedule(program, candidate, StepBound, memory_model)
    /\ UNCHANGED <<phase, target, minimized, changed, tid, candidate>>

\* The first pass for the given bugs, over the schedule they were found with.
FirstPass(bugs, from) ==
    /\ phase' = "passing"
    /\ target' = bugs
    /\ minimized' = from
    /\ changed' = FALSE /\ tid' = 0
    /\ UNCHANGED <<candidate, pending, replayed>>

\* minimize_schedule replays the given schedule first.
Given(s) == Ask("given", s) /\ UNCHANGED <<target, minimized, changed, tid>>

\* A lasso, and a schedule without a bug, are returned as they are.
Unminimizable(r) == r.first_nontermination # {} \/ identities_of(r) = NoBug

GivenReplayed ==
    /\ phase = "given" /\ ~pending
    /\ \E r \in replayed :
          \/ /\ Unminimizable(r)
             /\ phase' = "unchanged"
             /\ UNCHANGED <<target, minimized, changed, tid, candidate, pending, replayed>>
          \/ ~Unminimizable(r) /\ FirstPass(identities_of(r), candidate)

-----------------------------------------------------------------------------
is_report_endpoint(step, bugs) ==
    \/ \E race \in bugs.race : step \in race.endpoints
    \/ step \in bugs.error
    \/ \E failure \in bugs.assertion : step = failure.endpoint

\* {} or {the position of the last step of t}.
last_step_index_for_thread(s, t) ==
    {i \in DOMAIN s : s[i].thread = t /\ \A j \in i + 1 .. Len(s) : s[j].thread # t}

\* The schedules without the last step of t; a report's endpoint is not tried.
Shortened(s, t, bugs) ==
    {RemoveAt(s, i) : i \in {j \in last_step_index_for_thread(s, t) :
                               ~is_report_endpoint(s[j], bugs)}}

\* Variant: a candidate need only replay.
Replays(bugs) == replayed # {}

Shows(bugs) == \E r \in replayed : reproduces_identities(r, bugs)

Skip ==
    /\ phase = "passing" /\ tid < NumThreads
    /\ Shortened(minimized, tid, target) = {}
    /\ tid' = tid + 1
    /\ UNCHANGED <<phase, target, minimized, changed, candidate, pending, replayed>>

Try ==
    /\ phase = "passing" /\ tid < NumThreads
    /\ \E shorter \in Shortened(minimized, tid, target) : Ask("trying", shorter)
    /\ UNCHANGED <<target, minimized, changed, tid>>

\* Variant: a rejected candidate is also a change.
RetryAnyway == changed' = TRUE /\ UNCHANGED minimized

Reject == UNCHANGED <<minimized, changed>>

\* Variant: a removal does not start another pass.
OnePass == minimized' = candidate /\ UNCHANGED changed

Accept == minimized' = candidate /\ changed' = TRUE

\* The candidate is kept if its replay shows the bugs.
Tried ==
    /\ phase = "trying" /\ ~pending
    /\ \/ Shows(target) /\ Accept
       \/ ~Shows(target) /\ Reject
    /\ phase' = "passing" /\ tid' = tid + 1
    /\ UNCHANGED <<target, candidate, pending, replayed>>

NextPass ==
    /\ phase = "passing" /\ tid = NumThreads /\ changed
    /\ changed' = FALSE /\ tid' = 0
    /\ UNCHANGED <<phase, target, minimized, candidate, pending, replayed>>

\* The minimized schedule is replayed for the report it makes.
AskFinal ==
    /\ phase = "passing" /\ tid = NumThreads /\ ~changed
    /\ Ask("finishing", minimized)
    /\ UNCHANGED <<target, minimized, changed, tid>>

Confirm ==
    /\ phase = "finishing" /\ ~pending
    /\ phase' = IF Shows(target) THEN "done" ELSE "failed"
    /\ UNCHANGED <<target, minimized, changed, tid, candidate, pending, replayed>>

Minimize ==
    \/ GivenReplayed \/ Skip \/ Try \/ Replayed \/ Tried \/ NextPass \/ AskFinal \/ Confirm

Ends == {"done", "unchanged", "failed"}

\* A minimization is a loop of one thread, which goes on as long as it is not over.  Every
\* step of Minimize moves the place in the loop, and no other step does once it has begun.
place == <<phase, tid, pending>>
GoesOn ==
    /\ phase \notin Ends \cup {"off"}
    /\ phase' \in Ends \cup {"given", "passing", "trying", "finishing"}
    /\ tid' \in 0 .. NumThreads
    /\ pending' \in BOOLEAN

-----------------------------------------------------------------------------
\* A minimized report shows the same bug as the report it replaces: the final replay
\* never fails, and it reports the same race, deadlock, error or assertion failure,
\* with the schedule that was minimized.
SameBug ==
    /\ phase # "failed"
    /\ phase = "done" => \A r \in replayed : \A kind \in BugKinds :
          target[kind] # {} => identities_of(r)[kind] = target[kind]

\* The result is 1-minimal: without the last step of any thread, endpoints of the report
\* excepted, the schedule is rejected or shows another bug.  A pass that removed a
\* step must be followed by another one, because a removal may allow a removal in a
\* thread that comes earlier.
OneMinimal ==
    phase = "done" =>
        \A t \in ThreadId : \A shorter \in Shortened(minimized, t, target) :
            \A r \in replay_schedule(program, shorter, StepBound, memory_model) :
                \E kind \in BugKinds : target[kind] # {} /\ identities_of(r)[kind] # target[kind]

\* Every minimization comes to an end.
Terminates == phase # "off" ~> phase \in Ends
=============================================================================
