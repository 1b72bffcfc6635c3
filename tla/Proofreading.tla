---------------------------- MODULE Proofreading ----------------------------
(***************************************************************************)
(* The whole way of a manuscript: it is planned, checked either by the     *)
(* server into its tables or by the CLI in memory, the tables are exported *)
(* and adapted to a result like the CLI's.  A behaviour takes one way or    *)
(* the other.                                                              *)
(*                                                                         *)
(* sample is the manuscript with its settings.  The promises of the text   *)
(* algorithms are about every sample; Main, the one whose plan gives the   *)
(* constants of checking, is also checked.                                 *)
(***************************************************************************)
EXTENDS RunExport, TextPlan

CONSTANTS Samples,   \* manuscripts to plan: [text, settings]
          Main       \* the one that is checked

ASSUME ProofreadingAssumption ==
  /\ Main \in Samples
  /\ \A s \in Samples : s.text \in Seq(Units) /\ s.settings \in Settings
                         /\ ValidSettings(s.settings)

VARIABLE sample

proofreading == <<vars, pipe, sample>>

ProofreadingInit ==
  /\ Init
  /\ PipeInit
  /\ sample \in Samples

OnServer ==
  /\ sample = Main
  /\ pipe.pc = "off"
  /\ Next
  /\ UNCHANGED <<pipe, sample>>

OnCommandLine ==
  /\ sample = Main
  /\ run.status = "absent"
  /\ PipeNext
  /\ UNCHANGED <<vars, sample>>

ProofreadingSpec ==
  ProofreadingInit /\ [][OnServer \/ OnCommandLine]_proofreading

-----------------------------------------------------------------------------
(* Properties *)

Planned == run.status = "absent" /\ pipe.pc = "off"

(* The targets of a manuscript tile it in whole graphemes, as long as the   *)
(* settings say and cut at a paragraph wherever one is within reach, and    *)
(* no short rest is left over (planTargets).                                *)
PlanTilesText == Planned => Tiles(sample.text, sample.settings)

(* A recheck is shown at least what the check saw, and what is sent is      *)
(* within the limit or refused (buildCheckInput, buildRecheckInput).        *)
RecheckSeesCheck == Planned => Nests(sample.text, sample.settings)

(* A passage quoted word for word is located where it stands, or called     *)
(* ambiguous if the hints fit another place too, never put at a wrong place *)
(* and never lost (locateQuote).                                            *)
QuotesAreFound == Planned => Finds(sample.text, sample.settings)

(* A passage quoted with other newlines or composed characters is traced to *)
(* its place by the diagnosis, and where that names a range the range reads *)
(* so (diagnoseQuote).                                                      *)
MisquotesAreTraced == Planned => Traced(sample.text, sample.settings)

-----------------------------------------------------------------------------

AtRest   == loop.pc = "off" /\ run.status # "absent"
Exported == BuildRunExport(disk, run)

(* All answers that were saved, and what one merge of them would have made  *)
SavedRows(t) ==
  FlattenSeq([p \in Perspectives |->
    [i \in 1 .. (IF disk.unit[<<t, p>>] = "done" THEN Len(given[<<t, p>>]) ELSE 0) |->
       [unit |-> <<t, p>>, cand |-> given[<<t, p>>][i]]]])

AllSaved == FlattenSeq([t \in Targets |-> SavedRows(t)])
AtOnce   == FlattenSeq([t \in Targets |-> Merged(t, SavedRows(t))])

(* What the adapter tells of a recheck: switched off for all findings or    *)
(* for none, held back where the finding is; only a run that was stopped    *)
(* has one still due, or one held back though a retry has lifted the        *)
(* finding's suppression.                                                   *)
RechecksAreTold(findings) ==
  \A e \in ToSet(findings) :
    /\ e.status = "disabled" <=> ~run.recheckOn
    /\ e.finding.suppressed /\ run.recheckOn => e.status = "suppressed"
    /\ e.status = "pending" \/ (e.status = "suppressed" /\ ~e.finding.suppressed) =>
         run.status = "stopped"

(* Whatever stops, retries and restarts the run went through, its export is *)
(* adapted to the result one pass over the same answers gives: the same     *)
(* findings with the same sources and suppressions, their rechecks, the     *)
(* same unlocated remarks, the same counts.  Only runs that have not ended, *)
(* and runs a restart ended, are refused (buildRunExport,                   *)
(* adaptExportToResult).                                                    *)
ExportIsPipelineResult ==
  AtRest =>
    LET result == Adapted(Exported)
        shown  == [k \in DOMAIN result.findings |-> result.findings[k].finding]
        loose  == Picked(AllSaved, DOMAIN AllSaved \ LocatedIn(AllSaved))
        Times(seq, x) == Number(seq, LAMBDA y : y = x)
    IN /\ Accepted(Exported) <=>
            run.status # "recovery-waiting" /\ run.reason # "backend-restarted"
       /\ Accepted(Exported) =>
            /\ RechecksAreTold(result.findings)
            /\ \A f \in ToSet(shown) \cup ToSet(AtOnce) : Times(shown, f) = Times(AtOnce, f)
            /\ \A r \in ToSet(loose) \cup ToSet(result.unlocated) :
                 Times(loose, r) = Times(result.unlocated, r)
            /\ result.totals.candidates = Len(AllSaved)
            /\ result.totals.located = Len(AllSaved) - Len(loose)
=============================================================================
