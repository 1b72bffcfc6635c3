--------------------------- MODULE MCResultsPage ---------------------------
(***************************************************************************)
(* Budgets for TLC: either the page stays with the run it shows, which     *)
(* changes twice, with a click and a fault; or it moves to the other run,  *)
(* with a click while one of them changes, or without while both do; or    *)
(* findings are selected and filtered, once while the run's findings       *)
(* change, or more often in runs that do not.  A run that does not change  *)
(* is at rest.                                                             *)
(***************************************************************************)
EXTENDS ResultsPage

MCShown == CHOOSE r \in Runs : TRUE

(* The first finding of the shown run comes with its first change, and what *)
(* a filter hides is one of two with the same range, or both.               *)
MCFindings ==
  {[run |-> r, n |-> n, range |-> IF n = 3 THEN "there" ELSE "here",
    since |-> IF r = MCShown /\ n = 1 THEN 1 ELSE 0] : r \in Runs, n \in 1 .. 3}
MCFilters == {{}, {f \in MCFindings : f.n = 1}, {f \in MCFindings : f.range = "here"}}

MCBudgets ==
  {[changes |-> [r \in Runs |-> IF r = MCShown THEN 2 ELSE 0],
    faults |-> 1, clicks |-> 1, picks |-> 0, moves |-> 0],
   [changes |-> [r \in Runs |-> IF r = MCShown THEN 1 ELSE 0],
    faults |-> 0, clicks |-> 1, picks |-> 0, moves |-> 1],
   [changes |-> [r \in Runs |-> IF r = MCShown THEN 0 ELSE 1],
    faults |-> 0, clicks |-> 1, picks |-> 0, moves |-> 1],
   [changes |-> [r \in Runs |-> 1], faults |-> 0, clicks |-> 0, picks |-> 0, moves |-> 1],
   [changes |-> [r \in Runs |-> IF r = MCShown THEN 1 ELSE 0],
    faults |-> 1, clicks |-> 0, picks |-> 1, moves |-> 0],
   [changes |-> [r \in Runs |-> 0], faults |-> 1, clicks |-> 0, picks |-> 3, moves |-> 1]}

MCQuietBudget ==
  {[changes |-> [r \in Runs |-> 2], faults |-> 0, clicks |-> 0, picks |-> 0, moves |-> 0]}
=============================================================================
