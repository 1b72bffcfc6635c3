----------------------------- MODULE RunExport -----------------------------
(***************************************************************************)
(* What is made of a run of the server afterwards: its tables are          *)
(* exported, and the CLI adapts the export to the form its own results     *)
(* have, a record of Pipeline's ResultOf.  FindingStore leaves out the     *)
(* counts of attempts, so none are exported here.                          *)
(***************************************************************************)
EXTENDS FindingStore, Pipeline, SequencesExt

-----------------------------------------------------------------------------
(* GET /api/runs/:id/export *)

(* listFindings: by start, null last; ids stand for the rest of the order.  *)
ExportedBefore(d, f, g) ==
  LET r == d.finding[f].at
      q == d.finding[g].at
  IN \/ r # NoRange /\ q = NoRange
     \/ r # NoRange /\ q # NoRange /\ r[1] < q[1]
     \/ (r = NoRange <=> q = NoRange) /\ (r # NoRange => r[1] = q[1]) /\ f < g

Rows(d, f) ==
  Picked([i \in DOMAIN d.candidate |-> [index |-> i, row |-> d.candidate[i]]], Sources(d, f))

ExportedFinding(d, f) ==
  [id         |-> f,
   made       |-> d.finding[f],
   judgment   |-> d.judgment[f],
   recheck    |-> IF f \in DOMAIN d.recheck THEN d.recheck[f] ELSE "none",
   candidates |-> Rows(d, f)]

(* buildRunExport, whatever the run's status; finding 0 stands for none.    *)
BuildRunExport(d, r) ==
  LET ids == Sorted(DOMAIN d.finding, LAMBDA f, g : ExportedBefore(d, f, g))
  IN [run        |-> r,
      unit       |-> d.unit,
      findings   |-> [k \in DOMAIN ids |-> ExportedFinding(d, ids[k])],
      rechecks   |-> {[finding |-> f, status |-> d.recheck[f]] : f \in DOMAIN d.recheck},
      unlocated  |-> Rows(d, 0)]

-----------------------------------------------------------------------------
(* adaptExportToResult *)

(* A run that has not ended is refused; so is one the server's restart      *)
(* ended, a reason that results do not know.                                *)
Ended(ex) == ex.run.status \in {"completed", "partially-failed", "stopped"}

StopMakesSense(ex) ==
  IF ex.run.status = "stopped" THEN ex.run.reason \notin {"none", "backend-restarted"}
  ELSE ex.run.reason = "none"

RechecksOf(ex, id) == {u \in ex.rechecks : u.finding = id}

(* The summary shown with a finding and the row of its unit are the same,   *)
(* and no unit is without its finding.                                      *)
RechecksAgree(ex) ==
  /\ \A u \in ex.rechecks : u.status # "running"
  /\ \A u \in ex.rechecks : \E k \in DOMAIN ex.findings : ex.findings[k].id = u.finding
  /\ \A k \in DOMAIN ex.findings :
       {u.status : u \in RechecksOf(ex, ex.findings[k].id)}
         = IF ex.findings[k].recheck = "none" THEN {} ELSE {ex.findings[k].recheck}

CandidatesOf(ex) ==
  FlattenSeq([k \in DOMAIN ex.findings |-> ex.findings[k].candidates]) \o ex.unlocated

CandidatesAgree(ex) ==
  LET all == CandidatesOf(ex) IN
  /\ \A i, j \in DOMAIN all : i # j => all[i].index # all[j].index
  /\ \A i \in DOMAIN all : all[i].row.unit \in DOMAIN ex.unit
  /\ \A i \in DOMAIN ex.unlocated : ex.unlocated[i].row.cand.locate = "outside-target"

FindingAgrees(ex, k) ==
  LET f == ex.findings[k]
      Locates == {f.candidates[i].row.cand.locate : i \in DOMAIN f.candidates}
  IN IF f.made.locate = "located"
     THEN /\ f.made.at # NoRange
          /\ Locates = {"located"}
          /\ f.recheck # "unlocated"
     ELSE Len(f.candidates) = 1 /\ Locates = {f.made.locate}

Accepted(ex) ==
  /\ Ended(ex)
  /\ StopMakesSense(ex)
  /\ \A u \in CheckUnits : ex.unit[u] # "running"
  /\ RechecksAgree(ex)
  /\ CandidatesAgree(ex)
  /\ \A k \in DOMAIN ex.findings : FindingAgrees(ex, k)

MutantNoUnitMeansDisabled(ex, f) == IF f.recheck = "none" THEN "disabled" ELSE f.recheck

(* buildRecheckInput: a finding without a unit is not taken for one whose   *)
(* recheck is switched off; the run may have stopped before it was issued.  *)
RecheckInput(ex, f) ==
  CASE f.recheck # "none" -> f.recheck
    [] f.recheck = "none" /\ ~ex.run.recheckOn -> "disabled"
    [] f.recheck = "none" /\ ex.run.recheckOn ->
         IF f.made.suppressed THEN "suppressed" ELSE "pending"

AdaptedFinding(ex, f) ==
  [finding |->
     [target |-> f.made.target, at |-> f.made.at, fix |-> f.made.fix,
      category |-> f.made.category, verdict |-> f.made.verdict,
      perspectives |-> {f.candidates[i].row.unit[2] : i \in DOMAIN f.candidates},
      size |-> Len(f.candidates), suppressed |-> f.made.suppressed],
   status |-> RecheckInput(ex, f)]

AdaptedRow(r) == [unit |-> r.row.unit, cand |-> r.row.cand]

PlacedIn(ex) == {k \in DOMAIN ex.findings : ex.findings[k].made.locate = "located"}

Adapted(ex) ==
  LET located == Picked(ex.findings, PlacedIn(ex))
      failed  == Picked(ex.findings, DOMAIN ex.findings \ PlacedIn(ex))
      units   == Sorted(CheckUnits, LAMBDA u, w : u[1] < w[1] \/ (u[1] = w[1] /\ u[2] < w[2]))
  IN ResultOf(ex.run.status,
              [i \in DOMAIN units |-> [unit |-> units[i], status |-> ex.unit[units[i]]]],
              [k \in DOMAIN located |-> AdaptedFinding(ex, located[k])],
              [k \in DOMAIN failed |-> AdaptedRow(failed[k].candidates[1])]
                \o [k \in DOMAIN ex.unlocated |-> AdaptedRow(ex.unlocated[k])],
              Len(CandidatesOf(ex)))
=============================================================================
