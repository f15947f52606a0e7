--------------------------- MODULE PathMinimizer ---------------------------
(***************************************************************************)
(* Minimizations of the reports of every path.  Path makes the reports; a  *)
(* minimization takes over when it begins: of a report for its own bug, as *)
(* minimize_result_reports does, or of the schedule of the path for all    *)
(* the bugs its replay shows, as minimize_schedule does                    *)
(* (src/model/checker.cpp).                                                *)
(***************************************************************************)
EXTENDS Path, Minimizer

MInit == Init /\ MinimizerInit

\* minimized_race_report and its siblings, for a report the path has just made.
MinimizeReport ==
    \E kind \in BugKinds : \E found \in FirstOfKind(result)[kind] :
        /\ found.schedule = schedule
        /\ FirstPass([NoBug EXCEPT ![kind] = identities_of(result)[kind]], schedule)

MNext ==
    \/ phase = "off" /\ (Walk \/ Returned) /\ UNCHANGED mvars
    \/ phase = "off" /\ (MinimizeReport \/ Given(schedule)) /\ UNCHANGED vars
    \/ Minimize /\ UNCHANGED vars
    \/ phase \in Ends /\ UNCHANGED <<vars, mvars>>

MSpec == MInit /\ [][MNext]_<<vars, mvars>> /\ WF_place(GoesOn)
=============================================================================
