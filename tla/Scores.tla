------------------------------- MODULE Scores -------------------------------
(***************************************************************************)
(* Either result of a manuscript, of a run of the server or of a pass of   *)
(* the CLI, scored against the manuscript's truth file and aggregated with *)
(* runs scored earlier.                                                    *)
(***************************************************************************)
EXTENDS Proofreading, Evaluation

CONSTANTS Truth,     \* the entries of the truth file
          Earlier    \* runs scored before: [conditions, model, status, findings]

Entries == ResolveTruthEntries(Main.text, Truth)

(* As many errors are counted as detected as any pairing of findings with   *)
(* errors allows, for a run of the server and for a pass of the CLI, and    *)
(* the counts of the report fit together (maximumMatching, scoreFindingSet).*)
DetectionIsMaximum ==
  /\ AtRest /\ Accepted(Exported) =>
       LET shown == Adapted(Exported).findings IN
       Detects([k \in DOMAIN shown |-> shown[k].finding], Entries)
  /\ pipe.pc = "done" =>
       Detects([k \in DOMAIN pipe.findings |-> pipe.findings[k].finding], Entries)

(* A result among the earlier ones, as far as aggregating looks at them     *)
Scored(r) == [conditions |-> r.conditions, model |-> r.model, status |-> r.status,
              score |-> ScoreRun(r.findings, Entries)]

Together(result, mode) ==
  LET this == [conditions |-> mode, model |-> "known", status |-> result.status,
               findings |-> result.findings]
  IN [i \in 1 .. Len(Earlier) + 1 |->
        Scored(IF i \in DOMAIN Earlier THEN Earlier[i] ELSE this)]

(* Every finding is scored once: withdrawn, kept, not rechecked, or held    *)
(* back by an allowed word; and aggregated with earlier runs no detection   *)
(* is lost or counted twice.  (Of a run that was stopped, a finding whose   *)
(* suppression a retry has lifted may be scored as none of these.)          *)
(* (scoreRun, aggregateRuns)                                                *)
ScoresAddUp ==
  /\ AtRest /\ Accepted(Exported) =>
       LET result == Adapted(Exported) IN
       /\ run.status # "stopped" => AddsUp(result.findings, Entries)
       /\ Aggregates(Together(result, IF run.recheckOn THEN "split-recheck" ELSE "split"))
  /\ pipe.pc = "done" =>
       /\ AddsUp(PipelineResult.findings, Entries)
       /\ Aggregates(Together(PipelineResult, pipe.mode))
=============================================================================
