------------------------------- MODULE Parser -------------------------------
(***************************************************************************)
(* parse_program_stream of src/cli/program_parser.cpp, which reads a       *)
(* program line by line, and the constructor of ModelChecker               *)
(* (src/model/checker.cpp), which looks at the program once more.          *)
(*                                                                         *)
(* A line is Thread, or the action its words make (ProgramText); blank     *)
(* lines, comments and words that make no action are left out.  What is    *)
(* known so far is what the code's maps and vectors hold, without the line *)
(* numbers it puts in messages.                                            *)
(***************************************************************************)
EXTENDS ProgramText, FiniteSets, SequencesExt

CONSTANTS
    Lines,      \* the lines a file may have
    MaxLines    \* bound on the length of a file

ASSUME ParserAssumption == MaxLines \in Nat

VARIABLES
    text,       \* the lines read so far
    threads,    \* program.threads
    used,       \* the names in mutex_first_use, rwlock_first_use, ...
    parties,    \* barrier_first_use: the parties of each barrier
    status      \* "reading", "parsed", or "error" for a ParseError

vars == <<text, threads, used, parties, status>>

Thread == [kind |-> "thread:"]

-----------------------------------------------------------------------------
(***************************************************************************)
(* Names.  A mutex, a reader-writer lock, a semaphore and a barrier must   *)
(* not share a name, nor a barrier and a condition.                        *)
(***************************************************************************)
Namespaces == {"mutex", "rwlock", "semaphore", "condition", "barrier"}

\* The name an action uses in a namespace: {} or {name}.
NamesIn(space, a) == IF space \in DOMAIN a THEN {a[space]} ELSE {}
NamesOf(f, space) == UNION {NamesIn(space, f[i]) : i \in DOMAIN f}

Collides(space) ==
    [mutex |-> {"rwlock", "semaphore", "barrier"},
     rwlock |-> {"mutex", "semaphore", "barrier"},
     semaphore |-> {"mutex", "rwlock", "barrier"},
     condition |-> {"barrier"},
     barrier |-> {"mutex", "rwlock", "semaphore", "condition"}][space]

NameCollision(a) ==
    \E space \in Namespaces : \E other \in Collides(space) :
        NamesIn(space, a) \cap used[other] # {}

OtherParties(a) ==
    /\ a.kind = "BarrierWait"
    /\ a.barrier \in DOMAIN parties /\ parties[a.barrier] # a.parties

DuplicateLabel(a) ==
    /\ a.kind = "Label" /\ threads # <<>>
    /\ \E i \in DOMAIN Last(threads) : Last(threads)[i] = a

\* The errors of one action line; parse_action itself rejects a barrier of no parties.
LineError(a) ==
    \/ a.kind = "BarrierWait" /\ a.parties = 0
    \/ threads = <<>>
    \/ NameCollision(a)
    \/ OtherParties(a)
    \/ DuplicateLabel(a)

-----------------------------------------------------------------------------
(***************************************************************************)
(* References to threads and labels, which are checked at the end of the   *)
(* file.  A place is a thread and the position of an action in it.         *)
(***************************************************************************)
Places(kind) ==
    {<<t, i>> \in (1 .. Len(threads)) \X (1 .. MaxLines) :
        i \in DOMAIN threads[t] /\ threads[t][i].kind = kind}
ActionOf(place) == threads[place[1]][place[2]]

BadJoin == \E place \in Places("Join") : ActionOf(place).target >= Len(threads)

BadBranch ==
    \E place \in Places("BranchNonzero") :
        ~ \E other \in Places("Label") :
            other[1] = place[1] /\ ActionOf(other).label = ActionOf(place).label

\* Variant: a thread may be spawned twice.
SpawnTargetsOnly ==
    \E place \in Places("Spawn") :
        ActionOf(place).target >= Len(threads) \/ ActionOf(place).target = place[1] - 1

BadSpawn ==
    \E place \in Places("Spawn") :
        \/ ActionOf(place).target >= Len(threads)
        \/ ActionOf(place).target = place[1] - 1
        \/ \E other \in Places("Spawn") \ {place} :
              ActionOf(other).target = ActionOf(place).target

-----------------------------------------------------------------------------
Init ==
    /\ text = <<>> /\ threads = <<>>
    /\ used = [space \in Namespaces |-> {}]
    /\ parties = <<>>
    /\ status = "reading"

ReadThread ==
    /\ status = "reading" /\ Len(text) < MaxLines
    /\ Thread \in Lines
    /\ text' = Append(text, Thread)
    /\ threads' = Append(threads, <<>>)
    /\ UNCHANGED <<used, parties, status>>

ReadAction(a) ==
    /\ ~LineError(a)
    /\ threads' = [threads EXCEPT ![Len(threads)] = Append(@, a)]
    /\ used' = [space \in Namespaces |-> used[space] \cup NamesIn(space, a)]
    /\ parties' = IF a.kind = "BarrierWait" THEN parties @@ (a.barrier :> a.parties) ELSE parties
    /\ UNCHANGED status

RejectAction(a) ==
    /\ LineError(a)
    /\ status' = "error"
    /\ UNCHANGED <<threads, used, parties>>

ReadLine ==
    /\ status = "reading" /\ Len(text) < MaxLines
    /\ \E a \in Lines \ {Thread} :
          /\ text' = Append(text, a)
          /\ ReadAction(a) \/ RejectAction(a)

EndOfFile ==
    /\ status = "reading"
    /\ status' = IF threads = <<>> \/ BadJoin \/ BadBranch \/ BadSpawn THEN "error" ELSE "parsed"
    /\ UNCHANGED <<text, threads, used, parties>>

Next == ReadThread \/ ReadLine \/ EndOfFile

Spec == Init /\ [][Next \/ (status # "reading" /\ UNCHANGED vars)]_vars

-----------------------------------------------------------------------------
(***************************************************************************)
(* ModelChecker::ModelChecker: the names of the program, all together.     *)
(***************************************************************************)
AllNames(space) ==
    UNION {NamesOf(threads[t], space) : t \in DOMAIN threads}

constructor_accepts ==
    /\ AllNames("mutex") \cap AllNames("rwlock") = {}
    /\ AllNames("semaphore") \cap (AllNames("mutex") \cup AllNames("rwlock")) = {}
    /\ AllNames("barrier") \cap
          UNION {AllNames(space) : space \in {"mutex", "rwlock", "semaphore", "condition"}} = {}

-----------------------------------------------------------------------------
(***************************************************************************)
(* The reference: when a whole file is a program, whatever the order of    *)
(* its lines.                                                              *)
(***************************************************************************)
ThreadOf(f, i) == Cardinality({j \in 1 .. i : f[j] = Thread}) - 1
ThreadsOf(f) == Cardinality({j \in DOMAIN f : f[j] = Thread})
Of(f, kind) == {i \in DOMAIN f : f[i].kind = kind}

WellFormed(f) ==
    /\ f # <<>> /\ f[1] = Thread
    /\ \A space, other \in {"mutex", "rwlock", "semaphore", "barrier"} :
          space # other => NamesOf(f, space) \cap NamesOf(f, other) = {}
    /\ NamesOf(f, "condition") \cap NamesOf(f, "barrier") = {}
    /\ \A i \in Of(f, "BarrierWait") :
          /\ f[i].parties > 0
          /\ \A j \in Of(f, "BarrierWait") :
                f[i].barrier = f[j].barrier => f[i].parties = f[j].parties
    /\ \A i, j \in Of(f, "Label") :
          i # j /\ ThreadOf(f, i) = ThreadOf(f, j) => f[i].label # f[j].label
    /\ \A i \in Of(f, "BranchNonzero") : \E j \in Of(f, "Label") :
          ThreadOf(f, i) = ThreadOf(f, j) /\ f[i].label = f[j].label
    /\ \A i \in Of(f, "Join") \cup Of(f, "Spawn") : f[i].target < ThreadsOf(f)
    /\ \A i \in Of(f, "Spawn") :
          /\ f[i].target # ThreadOf(f, i)
          /\ \A j \in Of(f, "Spawn") \ {i} : f[i].target # f[j].target

\* The lines that have become threads and actions.
Kept == FlattenSeq([t \in DOMAIN threads |-> <<Thread>> \o threads[t]])

\* A file is parsed exactly when it is a program, and every line of it is then an action
\* of the thread above it: checking names, barriers and labels against what has been read,
\* and threads and branches at the end, misses nothing and refuses nothing for the order
\* of its lines.  A file refused before its end could not have become a program, and the
\* constructor, which checks the names on its own, refuses no parsed program.
ParsesPrograms ==
    /\ status = "parsed" => WellFormed(text) /\ text = Kept /\ constructor_accepts
    /\ status = "error" => ~WellFormed(text)
    /\ status = "error" /\ text # Kept =>
          \A line \in Lines : ~WellFormed(Append(text, line))
=============================================================================
