------------------------------ MODULE Pipeline ------------------------------
(***************************************************************************)
(* runPipeline: a manuscript checked in one pass, in memory, as the CLI    *)
(* does it.  Targets in order, perspectives in order, then the findings of *)
(* the target are merged and rechecked.  The first reason to stop is kept; *)
(* nothing is sent after it, and everything that was not sent is recorded  *)
(* as pending.                                                             *)
(*                                                                         *)
(* The executor's part is here too: one retry, the model looked up before  *)
(* every attempt, and which error stops the run.  The CLI gives no abort   *)
(* signal, so nothing is interrupted.  In full-text mode the manuscript is *)
(* one target; the model's answers for it are those for the first target.  *)
(***************************************************************************)
EXTENDS Merging

CONSTANTS Modes,         \* of "split", "split-recheck" and "full-text"
          Limits,        \* limits an input may be given
          LongChecks,    \* per mode and limit, targets whose check input is over it
          LongRechecks,  \* per limit, targets whose recheck input is over it
          SettingsMayBe, \* whether the chunk settings may be valid
          MaxTroubles    \* bound: attempts that fail

ASSUME PipelineAssumption ==
  /\ Modes \subseteq {"split", "split-recheck", "full-text"}
  /\ LongChecks \in [Modes \X Limits -> SUBSET Targets]
  /\ LongRechecks \in [Limits -> SUBSET Targets]
  /\ SettingsMayBe \subseteq BOOLEAN
  /\ MaxTroubles \in Nat

VARIABLE pipe

NoPipe ==
  [pc        |-> "off",     \* off target unit check finding recheck done
   mode      |-> "split",
   limit     |-> 0,
   target    |-> 1,
   persp     |-> 1,
   attempts  |-> 0,         \* attempts of the request under way ...
   retried   |-> FALSE,     \* ... and whether its one retry is used up
   requests  |-> 0,         \* executor.requestCount
   candidates |-> 0,       \* candidateCount
   troubles  |-> 0,         \* bound counter
   stop      |-> "none",    \* the first reason to stop
   rows      |-> <<>>,      \* candidates of the target, with their units
   merged    |-> <<>>,      \* findings of the target, to be rechecked
   units     |-> <<>>,      \* check units as settled: status, attempts
   findings  |-> <<>>,      \* the same, or the verdict of a recheck done
   unlocated |-> <<>>]

PipeInit == pipe = NoPipe

PipeTargets == IF pipe.mode = "full-text" THEN 1 ELSE NumTargets
PipeUnit    == <<pipe.target, pipe.persp>>
Later(p)    == IF p.target < (IF p.mode = "full-text" THEN 1 ELSE NumTargets)
               THEN [p EXCEPT !.pc = "target", !.target = @ + 1]
               ELSE [p EXCEPT !.pc = "done"]

(* All perspectives of the target settled alike, without a request          *)
AllAlike(p, status) ==
  [p EXCEPT !.units = @ \o [q \in Perspectives |->
     [unit |-> <<p.target, q>>, status |-> status, attempts |-> 0]]]

StartPipeline ==
  /\ pipe.pc = "off"
  /\ \E mode \in Modes, limit \in Limits, valid \in SettingsMayBe :
       pipe' = IF valid THEN [NoPipe EXCEPT !.pc = "target", !.mode = mode, !.limit = limit]
               ELSE [NoPipe EXCEPT !.pc = "done", !.mode = mode, !.stop = "settings"]

SkipTarget ==
  /\ pipe.pc = "target"
  /\ pipe.stop # "none"
  /\ pipe' = Later(AllAlike(pipe, "pending"))

(* The first check is never shortened: the settings are to be corrected.    *)
RefuseTarget ==
  /\ pipe.pc = "target"
  /\ pipe.stop = "none"
  /\ pipe.target \in LongChecks[pipe.mode, pipe.limit]
  /\ pipe' = Later([AllAlike(pipe, "failed") EXCEPT !.stop = "settings"])

OpenTarget ==
  /\ pipe.pc = "target"
  /\ pipe.stop = "none"
  /\ pipe.target \notin LongChecks[pipe.mode, pipe.limit]
  /\ pipe' = [pipe EXCEPT !.pc = "unit", !.persp = 1, !.rows = <<>>]

SettleUnit(p, status, halt) ==
  [p EXCEPT !.pc = "unit", !.persp = @ + 1,
            !.stop = IF @ = "none" THEN halt ELSE @,
            !.units = Append(@, [unit |-> <<p.target, p.persp>>, status |-> status,
                                 attempts |-> p.attempts])]

MutantForgetsAttempts(p, pc) == [p EXCEPT !.pc = pc, !.retried = FALSE]

(* The executor begins a request with nothing sent and nothing retried.     *)
Request(p, pc) == [p EXCEPT !.pc = pc, !.attempts = 0, !.retried = FALSE]

SkipPerspective ==
  /\ pipe.pc = "unit"
  /\ pipe.persp \in Perspectives
  /\ pipe.stop # "none"
  /\ pipe' = SettleUnit([pipe EXCEPT !.attempts = 0], "pending", "none")

SendCheck ==
  /\ pipe.pc = "unit"
  /\ pipe.persp \in Perspectives
  /\ pipe.stop = "none"
  /\ pipe' = Request(pipe, "check")

(* partitionCandidates                                                      *)
LocatedIn(rows) == {i \in DOMAIN rows : IsLocated(rows[i].cand)}

(* The findings of a target's rows, each a candidate with its unit          *)
Merged(target, rows) ==
  LET located == Picked(rows, LocatedIn(rows))
      found   == MergeCandidates([i \in DOMAIN located |-> located[i].cand])
  IN [k \in DOMAIN found |->
        [target |-> target, at |-> found[k].at, fix |-> found[k].fix,
         category |-> found[k].category, verdict |-> found[k].verdict,
         perspectives |-> {located[i].unit[2] : i \in found[k].sources},
         size |-> Cardinality(found[k].sources),
         suppressed |-> Suppressed(found[k].category, found[k].at, found[k].fix)]]

(* Nothing located by an earlier perspective is thrown away on a stop.      *)
MergeTarget ==
  /\ pipe.pc = "unit"
  /\ pipe.persp \notin Perspectives
  /\ pipe' = [pipe EXCEPT
       !.pc = "finding",
       !.unlocated = @ \o Picked(pipe.rows, DOMAIN pipe.rows \ LocatedIn(pipe.rows)),
       !.merged = Merged(pipe.target, pipe.rows)]

NextTarget ==
  /\ pipe.pc = "finding"
  /\ pipe.merged = <<>>
  /\ pipe' = Later(pipe)

SettleFinding(p, status, halt) ==
  [p EXCEPT !.pc = "finding", !.merged = Tail(@),
            !.stop = IF @ = "none" THEN halt ELSE @,
            !.findings = Append(@, [finding |-> Head(p.merged), status |-> status,
                                    attempts |-> p.attempts])]

(* runRecheck and executeRecheckUnit, where nothing is sent: a recheck whose *)
(* input is too long fails by itself and stops nothing.                      *)
Unsent(p) ==
  CASE p.mode # "split-recheck" -> "disabled"
    [] p.mode = "split-recheck" /\ Head(p.merged).suppressed -> "suppressed"
    [] p.mode = "split-recheck" /\ ~Head(p.merged).suppressed /\ p.stop # "none" -> "pending"
    [] OTHER -> IF p.target \in LongRechecks[p.limit] THEN "failed" ELSE "none"

LeaveFinding ==
  /\ pipe.pc = "finding"
  /\ pipe.merged # <<>>
  /\ Unsent(pipe) # "none"
  /\ pipe' = SettleFinding([pipe EXCEPT !.attempts = 0], Unsent(pipe), "none")

SendRecheck ==
  /\ pipe.pc = "finding"
  /\ pipe.merged # <<>>
  /\ Unsent(pipe) = "none"
  /\ pipe' = Request(pipe, "recheck")

-----------------------------------------------------------------------------
(* One request *)

Settle(p, status, halt) ==
  IF p.pc = "check" THEN SettleUnit(p, status, halt) ELSE SettleFinding(p, status, halt)

Troubled(p) == [p EXCEPT !.troubles = @ + 1]
Sent(p)     == [p EXCEPT !.attempts = @ + 1, !.requests = @ + 1]

(* ensureLoaded, before each attempt: no list of models, the model not in   *)
(* it, or one of a kind that generates nothing (haltForEnsureLoadedError).  *)
ModelUnavailable ==
  /\ pipe.pc \in {"check", "recheck"}
  /\ pipe.troubles < MaxTroubles
  /\ \E halt \in {"connection-lost", "model-not-loaded", "settings"} :
       pipe' = Settle(Troubled(pipe), "pending", halt)

(* Ends of an attempt without a value: an answer that cannot be read or is  *)
(* cut short, an error status, a broken connection, no answer in time, a    *)
(* model unloaded meanwhile, an input over the model's limit.               *)
ChatErrors == {"malformed", "refused", "broken", "timeout", "unloaded", "too-long"}
Retryable  == {"malformed", "refused"}

(* haltForChatError; only executeCheckUnit stops for an input too long.     *)
HaltFor(error, pc) ==
  CASE error \in {"refused", "broken"} -> "connection-lost"
    [] error = "timeout"               -> "recovery-needed"
    [] error = "unloaded"              -> "model-not-loaded"
    [] error = "malformed"             -> "none"
    [] error = "too-long"              -> IF pc = "check" THEN "settings" ELSE "none"

Retry ==
  /\ pipe.pc \in {"check", "recheck"}
  /\ ~pipe.retried
  /\ pipe.troubles < MaxTroubles
  /\ pipe' = [Troubled(Sent(pipe)) EXCEPT !.retried = TRUE]

(* isPendingFailure, as the CLI has it: a request that ended unconfirmed is *)
(* failed, not pending.                                                     *)
GiveUp ==
  /\ pipe.pc \in {"check", "recheck"}
  /\ pipe.troubles < MaxTroubles
  /\ \E error \in IF pipe.retried THEN ChatErrors ELSE ChatErrors \ Retryable :
       pipe' = Settle(Troubled(Sent(pipe)),
                      IF error = "unloaded" THEN "pending" ELSE "failed",
                      HaltFor(error, pipe.pc))

CheckAnswered ==
  /\ pipe.pc = "check"
  /\ \E answer \in AnswersTo[PipeUnit] :
       pipe' = [SettleUnit(Sent(pipe), "done", "none") EXCEPT
                  !.candidates = @ + Len(answer),
                  !.rows = @ \o [i \in DOMAIN answer |->
                                   [unit |-> PipeUnit, cand |-> answer[i]]]]

RecheckAnswered ==
  /\ pipe.pc = "recheck"
  /\ \E verdict \in RecheckVerdicts :
       pipe' = SettleFinding(Sent(pipe), verdict, "none")

PipeNext ==
  \/ StartPipeline
  \/ SkipTarget
  \/ RefuseTarget
  \/ OpenTarget
  \/ SkipPerspective
  \/ SendCheck
  \/ MergeTarget
  \/ NextTarget
  \/ LeaveFinding
  \/ SendRecheck
  \/ ModelUnavailable
  \/ Retry
  \/ GiveUp
  \/ CheckAnswered
  \/ RecheckAnswered

-----------------------------------------------------------------------------
(* The result *)

(* finish: the counts by which "nothing found" is told from "failed"        *)
Totals(units, findings, unlocated, candidates) ==
  LET OfUnits(s)    == Number(units, LAMBDA u : u.status = s)
      OfRechecks(S) == Number(findings, LAMBDA f : f.status \in S)
      OfLocate(l)   == Number(unlocated, LAMBDA r : r.cand.locate = l)
  IN [units      |-> [s \in {"done", "failed", "pending"} |-> OfUnits(s)],
      candidates |-> candidates,
      located    |-> SumOf([i \in DOMAIN findings |-> findings[i].finding.size]),
      unlocated  |-> [l \in LocateFailures |-> OfLocate(l)],
      findings   |-> Len(findings),
      suppressed |-> Number(findings, LAMBDA f : f.finding.suppressed),
      rechecks   |-> [s \in {"done", "failed", "pending", "suppressed", "disabled"} |->
                        OfRechecks(IF s = "done" THEN RecheckVerdicts ELSE {s})]]

AnyFailure(units, findings) ==
  \/ \E i \in DOMAIN units : units[i].status = "failed"
  \/ \E i \in DOMAIN findings : findings[i].status = "failed"

ResultOf(status, units, findings, unlocated, candidates) ==
  [status |-> status, findings |-> findings, unlocated |-> unlocated,
   totals |-> Totals(units, findings, unlocated, candidates)]

PipelineResult ==
  ResultOf(CASE pipe.stop # "none" -> "stopped"
             [] pipe.stop = "none" /\ AnyFailure(pipe.units, pipe.findings) -> "partially-failed"
             [] OTHER -> "completed",
           pipe.units, pipe.findings, pipe.unlocated, pipe.candidates)

-----------------------------------------------------------------------------
(* Properties *)

AttemptsOf(seq) == SumOf([i \in DOMAIN seq |-> seq[i].attempts])

(* However a pass ends, its result accounts for everything: each unit is    *)
(* settled once and in order, every request sent is an attempt of some unit *)
(* or recheck, every remark of an answer that was read is in a finding or   *)
(* among the unlocated, a pass that is not stopped leaves nothing pending,  *)
(* and from the first unit that a stop left pending on nothing was sent     *)
(* (runPipeline's totals, pendingUnit and stop).                            *)
PipelineAccounts ==
  pipe.pc = "done" /\ pipe.units # <<>> =>
    LET total == PipelineResult.totals
        Waits(x) == x.status = "pending" /\ x.attempts = 0
    IN /\ Len(pipe.units) = PipeTargets * NumPerspectives
       /\ \A t \in 1 .. PipeTargets, p \in Perspectives :
            pipe.units[(t - 1) * NumPerspectives + p].unit = <<t, p>>
       /\ pipe.requests = AttemptsOf(pipe.units) + AttemptsOf(pipe.findings)
       /\ total.candidates = total.located + Len(pipe.unlocated)
       /\ total.units["pending"] + total.rechecks["pending"] > 0 => pipe.stop # "none"
       /\ pipe.stop = "none" =>
            total.rechecks["disabled"] \in IF pipe.mode = "split-recheck" THEN {0}
                                           ELSE {total.findings}
       /\ \A i, j \in DOMAIN pipe.units :
            i < j /\ Waits(pipe.units[i]) =>
              pipe.units[j].status = "pending" /\ pipe.units[j].attempts = 0
       /\ \A i \in DOMAIN pipe.units, j \in DOMAIN pipe.findings :
            Waits(pipe.units[i]) /\ pipe.units[i].unit[1] <= pipe.findings[j].finding.target =>
              pipe.findings[j].attempts = 0
       /\ \A i, j \in DOMAIN pipe.findings :
            i < j /\ Waits(pipe.findings[i]) => pipe.findings[j].attempts = 0
=============================================================================
