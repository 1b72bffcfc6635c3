---------------------------- MODULE FindingStore ----------------------------
(***************************************************************************)
(* What the server stores of one check run: the candidates of the answers, *)
(* the findings they are merged into one at a time, the author's judgment  *)
(* of each finding and the unit that rechecks it.                          *)
(*                                                                         *)
(* RunControl has the run's control in full (queue, gates, versions) and   *)
(* treats the findings as given.  Here it is the other way about: requests *)
(* end in one of the ways the loop tells apart, and every table write is   *)
(* that of the code.  The answer of a check unit is saved in one           *)
(* transaction whose steps are single candidates: db is what the process   *)
(* reads within it, disk what is committed.                                *)
(***************************************************************************)
EXTENDS Merging

CONSTANTS RecheckSettings,  \* values of runs.recheck_enabled
          MaxLaunches,      \* bound: start, resumptions and retries
          Judgeable         \* bound: findings the author may judge

ASSUME StoreAssumption ==
  /\ RecheckSettings \in SUBSET BOOLEAN
  /\ MaxLaunches \in Nat
  /\ Judgeable \subseteq Nat

VARIABLES
  db,       \* the tables as the process reads them, an open transaction included
  disk,     \* the tables as committed
  run,      \* the runs row: status, stop reason, recheck_enabled
  loop,     \* the run loop; pc "off" = not running
  launches, \* bound counter
  given     \* history: per check unit, the answer last received whole

vars == <<db, disk, run, loop, launches, given>>

-----------------------------------------------------------------------------
(* Types *)

UnitStatus == {"pending", "running", "done", "failed"}

(* A recheck unit that is done is shown by its verdict.                     *)
NotApplicable == {"disabled", "unlocated", "suppressed"}
RecheckStatus == {"pending", "running", "failed"} \cup NotApplicable \cup RecheckVerdicts

(* A finding's id is the index of the candidate that created it.            *)
Finding ==
  [target     : Targets,
   unit       : CheckUnits,          \* the unit saved when it was created
   locate     : {"located", "not-found", "ambiguous"},
   at         : Ranges \cup {NoRange},
   fix        : Fixes \cup {NoFix},
   key        : Key,
   category   : Categories,
   verdict    : Verdicts,
   suppressed : BOOLEAN]

(* finding = 0: the candidate lay outside its target and made no finding.   *)
CandidateRow == [unit : CheckUnits, cand : Candidate, finding : Nat]

(* finding, judgment and recheck are partial functions of finding ids.      *)
TablesOK(d) ==
  /\ DOMAIN d = {"unit", "candidate", "finding", "judgment", "recheck"}
  /\ d.unit \in [CheckUnits -> UnitStatus]
  /\ d.candidate \in Seq(CandidateRow)
  /\ DOMAIN d.finding \subseteq 1 .. Len(d.candidate)
  /\ d.finding \in [DOMAIN d.finding -> Finding]
  /\ d.judgment \in [DOMAIN d.finding -> {"undecided", "adopt"}]
  /\ DOMAIN d.recheck \subseteq DOMAIN d.finding
  /\ d.recheck \in [DOMAIN d.recheck -> RecheckStatus]

RunStatus == {"absent", "running", "completed", "partially-failed", "stopped",
              "recovery-waiting"}
Halt == {"none", "aborted", "failure", "unconfirmed"}
Pc   == {"off", "scan", "sent", "save", "settle", "recheck", "resent", "finish"}

Loop == [pc      : Pc,
         target  : Targets,
         persp   : 1 .. NumPerspectives + 1,
         settled : BOOLEAN,         \* the target is in settledTargets
         stopReq : BOOLEAN,         \* gate.stopRequested
         halt    : Halt,
         rest    : Seq(Candidate),  \* of the answer being saved, what is left
         job     : Nat]             \* the finding being rechecked

NoLoop == [pc |-> "off", target |-> 1, persp |-> 1, settled |-> FALSE,
           stopReq |-> FALSE, halt |-> "none", rest |-> <<>>, job |-> 0]

TypeOK ==
  /\ TablesOK(db)
  /\ TablesOK(disk)
  /\ run \in [status : RunStatus, reason : Halt \cup {"internal-error", "backend-restarted"},
              recheckOn : BOOLEAN]
  /\ loop \in Loop
  /\ launches \in 0 .. MaxLaunches
  /\ given \in [CheckUnits -> Seq(Candidate)]

NoTables == [unit |-> [u \in CheckUnits |-> "pending"], candidate |-> <<>>,
             finding |-> <<>>, judgment |-> <<>>, recheck |-> <<>>]

Init ==
  /\ db = NoTables
  /\ disk = NoTables
  /\ \E on \in RecheckSettings :
       run = [status |-> "absent", reason |-> "none", recheckOn |-> on]
  /\ loop = NoLoop
  /\ launches = 0
  /\ given = [u \in CheckUnits |-> <<>>]

-----------------------------------------------------------------------------
(* Table operations *)

Write(d) == db' = d /\ disk' = d        \* a statement that commits by itself

(* nextCandidateIndex *)
NextIndex(d) == Len(d.candidate) + 1

(* insertCandidate *)
WithCandidate(d, u, c, f) ==
  [d EXCEPT !.candidate = Append(@, [unit |-> u, cand |-> c, finding |-> f])]

(* insertFinding: the judgment is created with its finding, undecided.      *)
WithFinding(d, id, finding) ==
  [d EXCEPT
    !.finding  = [f \in DOMAIN @ \cup {id} |-> IF f = id THEN finding ELSE @[f]],
    !.judgment = [f \in DOMAIN @ \cup {id} |-> IF f = id THEN "undecided" ELSE @[f]]]

(* claimUnit, finishCheckUnit                                               *)
WithUnit(d, u, status) == [d EXCEPT !.unit[u] = status]

(* insertRecheckUnit, claimRecheckUnit, finishRecheckUnit                   *)
WithRecheck(d, f, status) ==
  [d EXCEPT !.recheck = [g \in DOMAIN @ \cup {f} |-> IF g = f THEN status ELSE @[g]]]

(* updateFindingAggregate, updateFindingSuppression                         *)
WithAggregate(d, f, category, verdict) ==
  LET made == d.finding[f] IN
  [d EXCEPT !.finding[f] =
    [made EXCEPT !.category = category, !.verdict = verdict,
                 !.suppressed = Suppressed(category, made.at, made.fix)]]

(* findFindingByMergeKey                                                    *)
FoundByKey(d, key) == {f \in DOMAIN d.finding : key # NoKey /\ d.finding[f].key = key}

(* listCandidatesForFinding                                                 *)
Sources(d, f) == {i \in DOMAIN d.candidate : d.candidate[i].finding = f}

-----------------------------------------------------------------------------
(* Merging one candidate into the run *)

AggregateCategory(cs) ==
  IF \A c, e \in cs : c.category = e.category
  THEN (CHOOSE c \in cs : TRUE).category ELSE "unclear"

AggregateVerdict(cs) ==
  IF \A c \in cs : c.verdict = "likely-error" THEN "likely-error" ELSE "confirm-with-author"

(* createFinding *)
CreateFinding(d, u, c) ==
  WithCandidate(
    WithFinding(d, NextIndex(d),
      [target |-> u[1], unit |-> u, locate |-> "located", at |-> c.at, fix |-> c.fix,
       key |-> MergeKey(c), category |-> c.category, verdict |-> c.verdict,
       suppressed |-> Suppressed(c.category, c.at, c.fix)]),
    u, c, NextIndex(d))

MutantAggregatesWithStored(d, u, c, f) ==
  LET category == IF c.category = d.finding[f].category THEN c.category ELSE "unclear"
  IN WithAggregate(WithCandidate(d, u, c, f), f, category, c.verdict)

(* attachToFinding: category, verdict and suppression are computed anew     *)
(* from every candidate of the finding, this one included.                  *)
AttachToFinding(d, u, c, f) ==
  LET members  == {d.candidate[i].cand : i \in Sources(d, f)} \cup {c}
  IN WithAggregate(WithCandidate(d, u, c, f), f,
                   AggregateCategory(members), AggregateVerdict(members))

(* mergeCandidateIntoRun *)
MergeCandidateIntoRun(d, u, c) ==
  LET found == FoundByKey(d, MergeKey(c))
  IN IF found = {} THEN CreateFinding(d, u, c)
     ELSE AttachToFinding(d, u, c, CHOOSE f \in found : TRUE)

(* saveUnlocatedCandidate: never merged; a quote that stands outside the    *)
(* target makes no finding.                                                 *)
SaveUnlocatedCandidate(d, u, c) ==
  IF c.locate = "outside-target" THEN WithCandidate(d, u, c, 0)
  ELSE WithCandidate(
         WithFinding(d, NextIndex(d),
           [target |-> u[1], unit |-> u, locate |-> c.locate, at |-> NoRange,
            fix |-> c.fix, key |-> NoKey, category |-> c.category,
            verdict |-> c.verdict, suppressed |-> FALSE]),
         u, c, NextIndex(d))

(* saveUnlocated: the recheck unit of such a finding is closed from the     *)
(* start.                                                                   *)
SaveUnlocated(d, u, c) ==
  LET saved == SaveUnlocatedCandidate(d, u, c) IN
  IF NextIndex(d) \in DOMAIN saved.finding
  THEN WithRecheck(saved, NextIndex(d), IF run.recheckOn THEN "unlocated" ELSE "disabled")
  ELSE saved

SavedCandidate(d, u, c) ==
  IF IsLocated(c) THEN MergeCandidateIntoRun(d, u, c) ELSE SaveUnlocated(d, u, c)

-----------------------------------------------------------------------------
(* The run loop *)

Unit == <<loop.target, loop.persp>>
Yielded == loop.pc \in {"off", "sent", "resent"}

ResetRunning(d) ==
  [d EXCEPT !.unit = [u \in CheckUnits |-> IF @[u] = "running" THEN "pending" ELSE @[u]],
            !.recheck = [f \in DOMAIN @ |-> IF @[f] = "running" THEN "pending" ELSE @[f]]]

Launch ==
  /\ launches < MaxLaunches
  /\ launches' = launches + 1
  /\ loop' = [NoLoop EXCEPT !.pc = "scan"]
  /\ run' = [run EXCEPT !.status = "running", !.reason = "none"]

StartRun ==
  /\ run.status = "absent"
  /\ Launch
  /\ UNCHANGED <<db, disk, given>>

ResumeRun ==
  /\ loop.pc = "off"
  /\ run.status \in {"stopped", "recovery-waiting"}
  /\ Launch
  /\ UNCHANGED <<db, disk, given>>

(* retryFailedUnits: failed units go back to pending, in the transaction    *)
(* that claims the run.  A unit that is done is never run again.            *)
RetryFailedUnits ==
  /\ loop.pc = "off"
  /\ run.status \in {"partially-failed", "stopped"}
  /\ \E us \in SUBSET {u \in CheckUnits : db.unit[u] = "failed"},
        fs \in SUBSET {f \in DOMAIN db.recheck : db.recheck[f] = "failed"} :
       /\ us # {} \/ fs # {}
       /\ Write([db EXCEPT
            !.unit = [u \in CheckUnits |-> IF u \in us THEN "pending" ELSE @[u]],
            !.recheck = [f \in DOMAIN @ |-> IF f \in fs THEN "pending" ELSE @[f]]])
  /\ Launch
  /\ UNCHANGED given

StopRun ==
  /\ Yielded
  /\ loop.pc # "off"
  /\ ~loop.stopReq
  /\ loop' = [loop EXCEPT !.stopReq = TRUE]
  /\ UNCHANGED <<db, disk, run, launches, given>>

(* PUT /findings/:id/judgment, at any moment the loop awaits                *)
Judge ==
  /\ Yielded
  /\ \E f \in DOMAIN db.judgment \cap Judgeable :
       /\ db.judgment[f] = "undecided"
       /\ Write([db EXCEPT !.judgment[f] = "adopt"])
  /\ UNCHANGED <<run, loop, launches, given>>

(* Before every unit the stop request is looked at.                         *)
StopBeforeUnit ==
  /\ loop.pc = "scan"
  /\ loop.persp \in Perspectives
  /\ loop.stopReq
  /\ loop' = [loop EXCEPT !.pc = "finish", !.halt = "aborted"]
  /\ UNCHANGED <<db, disk, run, launches, given>>

SkipUnit ==
  /\ loop.pc = "scan"
  /\ loop.persp \in Perspectives
  /\ ~loop.stopReq
  /\ db.unit[Unit] # "pending"
  /\ loop' = [loop EXCEPT !.persp = @ + 1]
  /\ UNCHANGED <<db, disk, run, launches, given>>

ClaimUnit ==
  /\ loop.pc = "scan"
  /\ loop.persp \in Perspectives
  /\ ~loop.stopReq
  /\ db.unit[Unit] = "pending"
  /\ Write(WithUnit(db, Unit, "running"))
  /\ loop' = [loop EXCEPT !.pc = "sent"]
  /\ UNCHANGED <<run, launches, given>>

EndOfPerspectives ==
  /\ loop.pc = "scan"
  /\ loop.persp = NumPerspectives + 1
  /\ loop' = [loop EXCEPT !.pc = "settle"]
  /\ UNCHANGED <<db, disk, run, launches, given>>

(* The ways a request ends without an answer that can be read: the unit's   *)
(* next status and the halt.  A request still waiting for its turn ends     *)
(* pending when a stop is requested.                                        *)
Endings ==
  {<<"failed", "none">>, <<"failed", "failure">>, <<"pending", "unconfirmed">>}
  \cup (IF loop.stopReq THEN {<<"pending", "aborted">>} ELSE {})

(* An answer that can be read opens the transaction that saves it.          *)
AnswerUnit ==
  /\ loop.pc = "sent"
  /\ \E a \in AnswersTo[Unit] :
       /\ loop' = [loop EXCEPT !.pc = "save", !.rest = a]
       /\ given' = [given EXCEPT ![Unit] = a]
  /\ UNCHANGED <<db, disk, run, launches>>

LoseUnit ==
  /\ loop.pc = "sent"
  /\ \E e \in Endings :
       /\ Write(WithUnit(db, Unit, e[1]))
       /\ loop' = [loop EXCEPT !.pc = IF e[2] = "none" THEN "settle" ELSE "finish",
                               !.halt = e[2]]
  /\ UNCHANGED <<run, launches, given>>

(* saveCheckUnitOutcome: one candidate, in the order of the answer ...      *)
SaveCandidate ==
  /\ loop.pc = "save"
  /\ loop.rest # <<>>
  /\ db' = SavedCandidate(db, Unit, Head(loop.rest))
  /\ loop' = [loop EXCEPT !.rest = Tail(@)]
  /\ UNCHANGED <<disk, run, launches, given>>

(* ... and at the end the unit's status, and the commit.                    *)
CommitUnit ==
  /\ loop.pc = "save"
  /\ loop.rest = <<>>
  /\ Write(WithUnit(db, Unit, "done"))
  /\ loop' = [loop EXCEPT !.pc = "settle"]
  /\ UNCHANGED <<run, launches, given>>

MutantKeepsHalf == ResetRunning(db)
RolledBack      == ResetRunning(disk)

(* An exception while saving rolls the transaction back; the run is stopped *)
(* and its running units are put back in the handler of internal errors.    *)
SavingFails ==
  /\ loop.pc = "save"
  /\ Write(RolledBack)
  /\ run' = [run EXCEPT !.status = "stopped", !.reason = "internal-error"]
  /\ loop' = NoLoop
  /\ UNCHANGED <<launches, given>>

Advance(l) ==
  CASE l.persp \in Perspectives -> [l EXCEPT !.pc = "scan", !.persp = @ + 1]
    [] l.persp \notin Perspectives /\ l.target < NumTargets ->
         [l EXCEPT !.pc = "scan", !.target = @ + 1, !.persp = 1, !.settled = FALSE]
    [] OTHER -> [l EXCEPT !.pc = "finish"]

Unfinished(t) == \E p \in Perspectives : db.unit[<<t, p>>] \in {"pending", "running"}

SettleNothing ==
  /\ loop.pc = "settle"
  /\ loop.settled \/ Unfinished(loop.target)
  /\ loop' = Advance(loop)
  /\ UNCHANGED <<db, disk, run, launches, given>>

OfTarget(t) == {f \in DOMAIN db.finding : db.finding[f].target = t}

FreshRecheck(f) ==
  CASE ~run.recheckOn -> "disabled"
    [] run.recheckOn /\ db.finding[f].locate # "located" -> "unlocated"
    [] run.recheckOn /\ db.finding[f].locate = "located" /\ db.finding[f].suppressed ->
         "suppressed"
    [] OTHER -> "pending"

MutantIssuesAnew(f) == FreshRecheck(f)

(* A unit that exists is left alone, unless it was closed as suppressed and *)
(* a later merge lifted the suppression.                                    *)
IssuedRecheck(f) ==
  CASE f \notin DOMAIN db.recheck -> FreshRecheck(f)
    [] f \in DOMAIN db.recheck /\ db.recheck[f] = "suppressed" /\ run.recheckOn
         /\ db.finding[f].locate = "located" /\ ~db.finding[f].suppressed -> "pending"
    [] OTHER -> db.recheck[f]

(* issueRechecks, one transaction for the target                            *)
IssueRechecks ==
  /\ loop.pc = "settle"
  /\ ~loop.settled
  /\ ~Unfinished(loop.target)
  /\ Write([db EXCEPT !.recheck =
       [f \in DOMAIN @ \cup OfTarget(loop.target) |->
          IF f \in OfTarget(loop.target) THEN IssuedRecheck(f) ELSE @[f]]])
  /\ loop' = [loop EXCEPT !.pc = "recheck", !.settled = TRUE]
  /\ UNCHANGED <<run, launches, given>>

PendingRechecks == {f \in OfTarget(loop.target) : db.recheck[f] = "pending"}

(* listFindingsForTarget: by start, then by the time they were saved, which *)
(* all findings of one save share; their ids are random.                    *)
ListedBefore(f, g) ==
  \/ db.finding[f].at[1] < db.finding[g].at[1]
  \/ db.finding[f].at[1] = db.finding[g].at[1]
     /\ db.finding[f].unit # db.finding[g].unit /\ f < g

RechecksDone ==
  /\ loop.pc = "recheck"
  /\ PendingRechecks = {}
  /\ loop' = Advance(loop)
  /\ UNCHANGED <<db, disk, run, launches, given>>

StopBeforeRecheck ==
  /\ loop.pc = "recheck"
  /\ PendingRechecks # {}
  /\ loop.stopReq
  /\ loop' = [loop EXCEPT !.pc = "finish", !.halt = "aborted"]
  /\ UNCHANGED <<db, disk, run, launches, given>>

ClaimRecheck ==
  /\ loop.pc = "recheck"
  /\ ~loop.stopReq
  /\ \E f \in PendingRechecks :
       /\ \A g \in PendingRechecks : ~ListedBefore(g, f)
       /\ Write(WithRecheck(db, f, "running"))
       /\ loop' = [loop EXCEPT !.pc = "resent", !.job = f]
  /\ UNCHANGED <<run, launches, given>>

(* saveRecheckOutcome *)
SaveRecheck ==
  /\ loop.pc = "resent"
  /\ \E e \in Endings \cup {<<v, "none">> : v \in RecheckVerdicts} :
       /\ Write(WithRecheck(db, loop.job, e[1]))
       /\ loop' = [loop EXCEPT !.pc = IF e[2] = "none" THEN "recheck" ELSE "finish",
                               !.halt = e[2], !.job = 0]
  /\ UNCHANGED <<run, launches, given>>

AnyFailed == \/ \E u \in CheckUnits : db.unit[u] = "failed"
             \/ \E f \in DOMAIN db.recheck : db.recheck[f] = "failed"

FinalizeRun ==
  /\ loop.pc = "finish"
  /\ run' = [run EXCEPT
       !.reason = loop.halt,
       !.status = CASE loop.halt = "unconfirmed" -> "recovery-waiting"
                    [] loop.halt \in {"aborted", "failure"} -> "stopped"
                    [] OTHER -> IF AnyFailed THEN "partially-failed" ELSE "completed"]
  /\ loop' = NoLoop
  /\ UNCHANGED <<db, disk, launches, given>>

(* The process is killed at any step and reconciles at its next start: a    *)
(* request in flight leaves the run waiting for the user's confirmation.    *)
Restart ==
  /\ loop.pc # "off"
  /\ Write(ResetRunning(disk))
  /\ run' = IF (\E u \in CheckUnits : disk.unit[u] = "running")
               \/ (\E f \in DOMAIN disk.recheck : disk.recheck[f] = "running")
            THEN [run EXCEPT !.status = "recovery-waiting", !.reason = "backend-restarted"]
            ELSE [run EXCEPT !.status = "stopped", !.reason = "backend-restarted"]
  /\ loop' = NoLoop
  /\ UNCHANGED <<launches, given>>

Next ==
  \/ StartRun
  \/ ResumeRun
  \/ RetryFailedUnits
  \/ StopRun
  \/ Judge
  \/ StopBeforeUnit
  \/ SkipUnit
  \/ ClaimUnit
  \/ EndOfPerspectives
  \/ AnswerUnit
  \/ LoseUnit
  \/ SaveCandidate
  \/ CommitUnit
  \/ SavingFails
  \/ SettleNothing
  \/ IssueRechecks
  \/ RechecksDone
  \/ StopBeforeRecheck
  \/ ClaimRecheck
  \/ SaveRecheck
  \/ FinalizeRun
  \/ Restart

Spec == Init /\ [][Next]_vars

-----------------------------------------------------------------------------
(* Properties *)

Cands(d) == [i \in DOMAIN d.candidate |-> d.candidate[i].cand]

(* Merging one candidate at a time as the units finish, in whatever order   *)
(* answers, retries, crashes and resumptions bring them, leaves the         *)
(* findings a single merge of all saved candidates gives: each is the group *)
(* of its first candidate, with that group's category, verdict and          *)
(* suppression, and no located candidate is without one                     *)
(* (mergeCandidateIntoRun against mergeCandidates).                         *)
GroupsOf(d) ==
  /\ \A i \in DOMAIN d.candidate :
       IsLocated(d.candidate[i].cand) => d.candidate[i].finding \in DOMAIN d.finding
  /\ \A f \in DOMAIN d.finding :
       LET made == d.finding[f] IN
       made.locate = "located" =>
         /\ f \in Heads(Cands(d))
         /\ [sources |-> Sources(d, f), at |-> made.at, fix |-> made.fix,
             category |-> made.category, verdict |-> made.verdict]
              = MergedFinding(Cands(d), f)
         /\ made.suppressed = Suppressed(made.category, made.at, made.fix)

FindingsAreGroups == GroupsOf(disk)

(* The candidates of unit u in the table are the answer, saved as one block *)
(* after the first n candidates.                                            *)
SavedAfter(d, u, n, answer) ==
  /\ {i \in DOMAIN d.candidate : d.candidate[i].unit = u} = n + 1 .. n + Len(answer)
  /\ \A k \in DOMAIN answer : d.candidate[n + k].cand = answer[k]

(* A unit that is done has the candidates of its answer saved once, in      *)
(* their order and without another unit's among them, and no other unit has *)
(* any: no crash, rollback, retry or resumption leaves part of an answer or *)
(* saves it twice (saveCheckUnitOutcome).                                   *)
AnswersSavedOnce ==
  \A u \in CheckUnits :
    \E n \in 0 .. Len(disk.candidate) :
      SavedAfter(disk, u, n, IF disk.unit[u] = "done" THEN given[u] ELSE <<>>)

(* What the author has seen of a finding is never taken back: it stays with *)
(* its place and correction, its candidates only increase, its category can *)
(* only become unclear and its suppression only be lifted, a judgment made  *)
(* and a recheck's verdict stay (merging, retries and restarts).            *)
Grown(d, e) ==
  \A f \in DOMAIN d.finding :
    LET old == d.finding[f]
        new == e.finding[f]
    IN /\ f \in DOMAIN e.finding
       /\ <<new.target, new.locate, new.at, new.fix>>
            = <<old.target, old.locate, old.at, old.fix>>
       /\ Sources(d, f) \subseteq Sources(e, f)
       /\ new.category \in {old.category, "unclear"}
       /\ new.suppressed => old.suppressed
       /\ d.judgment[f] # "undecided" => e.judgment[f] = d.judgment[f]
       /\ f \in DOMAIN d.recheck /\ d.recheck[f] \in RecheckVerdicts
            => f \in DOMAIN e.recheck /\ e.recheck[f] = d.recheck[f]

FindingsOnlyGrow == [][Grown(disk, disk')]_vars
=============================================================================
