----------------------------- MODULE RunControl -----------------------------
(***************************************************************************)
(* The server's control of check runs: the orchestrator and its registry,  *)
(* the run loop, the executor, the stop gate, the recovery gate and the    *)
(* request queue, over the rows the database keeps for a run.              *)
(*                                                                         *)
(* JavaScript runs one segment at a time and yields only at an await.  A   *)
(* step of this module is one such segment, cut at every database commit,  *)
(* since the process may be killed between two commits of one segment.     *)
(*                                                                         *)
(* The data of a run (text, findings' wording, timings, tokens, messages)  *)
(* is left out.  What is kept of it: which units and findings a run has,   *)
(* and which of the outcomes the code tells apart a request ended with.    *)
(***************************************************************************)
EXTENDS Naturals, Sequences, SequencesExt

CONSTANTS Runs,             \* ids of the check runs that may be started
          NumTargets,       \* check targets (chunks of the manuscript) of a run
          NumPerspectives,  \* perspectives each target is checked under
          NumFindings,      \* findings a target may come to have
          RecheckSettings,  \* values of runs.recheck_enabled a run may start with
          Endpoints,        \* LM Studio URLs the user may configure
          Versions          \* prompt and rule versions of the program's builds

ASSUME ConstantsAssumption ==
  /\ NumTargets \in Nat \ {0}
  /\ NumPerspectives \in Nat \ {0}
  /\ NumFindings \in Nat
  /\ RecheckSettings \in SUBSET BOOLEAN
  /\ Endpoints # {}
  /\ Versions # {}

Targets      == 1 .. NumTargets
Perspectives == 1 .. NumPerspectives
Findings     == 1 .. NumFindings
CheckUnits   == Targets \X Perspectives
Slots        == Targets \X Findings       \* a finding and its recheck unit

VARIABLES
  \* what the database keeps
  row,        \* the runs table: status, stop columns and what the run pins
  check,      \* check_units: the status of each unit of each run
  finding,    \* findings: located, suppressed by an allowed word, or unlocated
  recheck,    \* recheck_units: the status of the unit of each finding
  endpoint,   \* the configured LM Studio URL (settings table and client)
  \* what the process keeps in memory
  phase,      \* the process is down, reconciling at startup, or serving
  version,    \* the versions compiled into the running build
  gate,       \* RecoveryGate.blockedRunIds
  queue,      \* RequestQueue: runs holding a seat, the head has the turn
  loop,       \* per run: its run loop with its stop gate; pc "off" = not in the registry
  \* history, never read by the program
  orphans,    \* runs with a request LM Studio may still be generating for
  forgotten   \* orphans whose row had no trace of the request at a crash

dbVars      == <<row, check, finding, recheck>>
unitVars    == <<check, finding, recheck>>
processVars == <<phase, version>>
historyVars == <<orphans, forgotten>>
vars == <<dbVars, endpoint, processVars, gate, queue, loop, historyVars>>

-----------------------------------------------------------------------------
(* Types *)

RunStatus == {"absent", "running", "completed", "partially-failed", "stopped",
              "recovery-waiting", "deleted"}

(* A failed check unit whose failure is input-too-long is kept apart.       *)
CheckStatus   == {"none", "pending", "running", "done", "failed", "tooLong"}
RecheckStatus == {"none", "pending", "running", "done", "failed",
                  "disabled", "unlocated", "suppressed"}
FindingState  == {"none", "open", "suppressed", "unlocated"}

(* generation_unconfirmed is not a field: every write sets it to whether    *)
(* the status becomes recovery-waiting.                                     *)
Row == [status    : RunStatus,
        settings  : BOOLEAN,    \* stop_reason = "settings"
        stopAt    : BOOLEAN,    \* stop_requested_at is set
        confirmed : BOOLEAN,    \* recovery_confirmed_at is set
        recheckOn : BOOLEAN,
        endpoint  : Endpoints,
        version   : Versions]

Halt == {"none", "stop", "settings", "unconfirmed"}

Pc == {"off", "start", "scan", "queued", "ensure", "chat", "resolved",
       "settle", "recheck", "finish"}

(* The job 0 is the check unit of the position, f the recheck of finding f. *)
Loop == [pc      : Pc,
         target  : Targets,
         persp   : 1 .. NumPerspectives + 1,
         settled : BOOLEAN,     \* the position's target is in settledTargets
         job     : 0 .. NumFindings,
         retried : BOOLEAN,
         stopReq : BOOLEAN,     \* gate.stopRequested
         result  : {"pending", "done", "failed", "tooLong"},
         halt    : Halt]

NoLoop == [pc |-> "off", target |-> 1, persp |-> 1, settled |-> FALSE, job |-> 0,
           retried |-> FALSE, stopReq |-> FALSE, result |-> "pending", halt |-> "none"]

(* Type correctness of every table and of every variable of the process.    *)
TypeOK ==
  /\ row \in [Runs -> Row]
  /\ check \in [Runs -> [CheckUnits -> CheckStatus]]
  /\ finding \in [Runs -> [Slots -> FindingState]]
  /\ recheck \in [Runs -> [Slots -> RecheckStatus]]
  /\ endpoint \in Endpoints
  /\ phase \in {"down", "starting", "up"}
  /\ version \in Versions
  /\ gate \in SUBSET Runs
  /\ queue \in Seq(Runs)
  /\ loop \in [Runs -> Loop]
  /\ orphans \in SUBSET Runs
  /\ forgotten \in SUBSET Runs

Init ==
  /\ endpoint \in Endpoints
  /\ version \in Versions
  /\ row = [r \in Runs |->
             [status |-> "absent", settings |-> FALSE, stopAt |-> FALSE,
              confirmed |-> FALSE, recheckOn |-> FALSE,
              endpoint |-> endpoint, version |-> version]]
  /\ check = [r \in Runs |-> [u \in CheckUnits |-> "none"]]
  /\ finding = [r \in Runs |-> [s \in Slots |-> "none"]]
  /\ recheck = [r \in Runs |-> [s \in Slots |-> "none"]]
  /\ phase = "up"
  /\ gate = {}
  /\ queue = <<>>
  /\ loop = [r \in Runs |-> NoLoop]
  /\ orphans = {}
  /\ forgotten = {}

-----------------------------------------------------------------------------
(* Helpers *)

Registered(r) == loop[r].pc # "off"

(* A loop between two commits of one synchronous segment lets nobody in.    *)
Yielded(r) == loop[r].pc \notin {"settle", "recheck", "finish"}
Serving    == phase = "up" /\ \A r \in Runs : Yielded(r)
MayStep(r) == phase = "up" /\ \A q \in Runs \ {r} : Yielded(q)

(* Definitions named Mutant... are deliberate mistakes: a run's property     *)
(* must fail when the one takes the place of the definition below it.       *)
MutantAbortsOnlyWhenQueued(r) == loop[r].stopReq /\ loop[r].pc = "queued"

(* The stop gate aborts its signal at once, except that a request in flight *)
(* is granted recoveryConfirmMs; the signal is aborted when it settles.     *)
SignalAborted(r) == loop[r].stopReq /\ loop[r].pc # "chat"

Unit(r) == <<loop[r].target, loop[r].persp>>
Slot(r) == <<loop[r].target, loop[r].job>>

HasRunningUnit(r) ==
  \/ \E u \in CheckUnits : check[r][u] = "running"
  \/ \E s \in Slots : recheck[r][s] = "running"

StaleVersion(r) == row[r].version # version
MutantConnectionIgnored(r) == FALSE
OtherEndpoint(r) == row[r].endpoint # endpoint

(* launch: a fresh stop gate and a registry entry; the loop starts after    *)
(* one await.                                                               *)
Launch(r) == loop' = [loop EXCEPT ![r] = [NoLoop EXCEPT !.pc = "start"]]

(* claimRun with clearStopState *)
ClaimRun(r) ==
  row' = [row EXCEPT ![r].status = "running", ![r].settings = FALSE,
                     ![r].stopAt = FALSE, ![r].confirmed = FALSE]

(* finishRun: entering recovery-waiting withdraws an earlier confirmation.  *)
FinishRow(r, status, settings) ==
  [row EXCEPT ![r].status = status, ![r].settings = settings,
              ![r].confirmed = @ /\ status # "recovery-waiting"]

MutantAlwaysStopped(unconfirmed) == "stopped"

StatusForUnconfirmed(unconfirmed) ==
  IF unconfirmed THEN "recovery-waiting" ELSE "stopped"

MutantResetsChecksOnly(r) ==
  /\ check' = [check EXCEPT ![r] =
       [u \in CheckUnits |-> IF @[u] = "running" THEN "pending" ELSE @[u]]]
  /\ UNCHANGED <<finding, recheck>>

(* resetRunningUnits *)
ResetRunningUnits(r) ==
  /\ check' = [check EXCEPT ![r] =
       [u \in CheckUnits |-> IF @[u] = "running" THEN "pending" ELSE @[u]]]
  /\ recheck' = [recheck EXCEPT ![r] =
       [s \in Slots |-> IF @[s] = "running" THEN "pending" ELSE @[s]]]
  /\ UNCHANGED finding

-----------------------------------------------------------------------------
(* The user's operations, each one a synchronous handler *)

(* startRun.  The plan rejects the settings as a whole (no unit is created) *)
(* or finds targets whose input is too long; either way the run is stored   *)
(* stopped and is never launched.                                           *)
StartRun(r) ==
  /\ Serving
  /\ row[r].status = "absent"
  /\ \E recheckOn \in RecheckSettings, valid \in BOOLEAN, long \in SUBSET Targets :
       LET planned == valid /\ long = {} IN
       /\ valid \/ long = {}
       /\ row' = [row EXCEPT ![r] =
            [status |-> IF planned THEN "running" ELSE "stopped",
             settings |-> ~planned, stopAt |-> FALSE, confirmed |-> FALSE,
             recheckOn |-> recheckOn, endpoint |-> endpoint, version |-> version]]
       /\ check' = [check EXCEPT ![r] =
            [u \in CheckUnits |-> CASE ~valid -> "none"
                                    [] valid /\ u[1] \in long -> "tooLong"
                                    [] OTHER -> "pending"]]
       /\ IF planned THEN Launch(r) ELSE UNCHANGED loop
  /\ UNCHANGED <<finding, recheck, endpoint, processVars, gate, queue, historyVars>>

(* stopRun: accepted only for a registered run, and once.                   *)
StopRun(r) ==
  /\ Serving
  /\ Registered(r)
  /\ ~loop[r].stopReq
  /\ row' = [row EXCEPT ![r].stopAt = TRUE]
  /\ loop' = [loop EXCEPT ![r].stopReq = TRUE]
  /\ UNCHANGED <<unitVars, endpoint, processVars, gate, queue, historyVars>>

(* markRecoveryConfirmed: the time is written first, then the gate opens.   *)
MarkRecoveryConfirmed(r) ==
  /\ row' = [row EXCEPT ![r].confirmed = @ \/ row[r].status = "recovery-waiting"]
  /\ gate' = gate \ {r}
  /\ orphans' = orphans \ {r}
  /\ forgotten' = forgotten \ {r}

(* confirmRecovery: the user vouches that nothing is being generated for r. *)
ConfirmRecovery(r) ==
  /\ Serving
  /\ row[r].status \notin {"absent", "deleted"}
  /\ ~Registered(r)
  /\ MarkRecoveryConfirmed(r)
  /\ UNCHANGED <<unitVars, endpoint, processVars, queue, loop>>

(* resumeRun.  Resuming a recovery-waiting run is the user's confirmation,  *)
(* and stays one when the resumption itself is refused.                     *)
ResumeRun(r) ==
  /\ Serving
  /\ ~Registered(r)
  /\ row[r].status \in {"stopped", "recovery-waiting"}
  /\ ~row[r].settings
  /\ \/ /\ StaleVersion(r) \/ OtherEndpoint(r)
        /\ row[r].status = "recovery-waiting"
        /\ MarkRecoveryConfirmed(r)
        /\ UNCHANGED loop
     \/ /\ ~StaleVersion(r) /\ ~OtherEndpoint(r)
        /\ ClaimRun(r)
        /\ Launch(r)
        /\ IF row[r].status = "recovery-waiting"
           THEN /\ gate' = gate \ {r}
                /\ orphans' = orphans \ {r}
                /\ forgotten' = forgotten \ {r}
           ELSE UNCHANGED <<gate, historyVars>>
  /\ UNCHANGED <<unitVars, endpoint, processVars, queue>>

MutantTooLongRetryable(r) == {u \in CheckUnits : check[r][u] \in {"failed", "tooLong"}}

(* The units retryFailedUnits may put back: failed ones, never a check unit *)
(* whose input was too long.                                                *)
RetryableChecks(r)   == {u \in CheckUnits : check[r][u] = "failed"}
RetryableRechecks(r) == {s \in Slots : recheck[r][s] = "failed"}

(* retryFailedUnits, for all failed units or for those the user names       *)
RetryFailedUnits(r) ==
  /\ Serving
  /\ ~Registered(r)
  /\ row[r].status \in {"partially-failed", "stopped"}
  /\ ~StaleVersion(r)
  /\ ~OtherEndpoint(r)
  /\ \E cs \in SUBSET RetryableChecks(r), rs \in SUBSET RetryableRechecks(r) :
       /\ cs # {} \/ rs # {}
       /\ check' = [check EXCEPT ![r] =
            [u \in CheckUnits |-> IF u \in cs THEN "pending" ELSE @[u]]]
       /\ recheck' = [recheck EXCEPT ![r] =
            [s \in Slots |-> IF s \in rs THEN "pending" ELSE @[s]]]
  /\ ClaimRun(r)
  /\ Launch(r)
  /\ UNCHANGED <<finding, endpoint, processVars, gate, queue, historyVars>>

(* DELETE /runs/:id *)
DeleteRun(r) ==
  /\ Serving
  /\ row[r].status \notin {"absent", "deleted", "running", "recovery-waiting"}
  /\ ~Registered(r)
  /\ r \notin gate
  /\ row' = [row EXCEPT ![r].status = "deleted"]
  /\ check' = [check EXCEPT ![r] = [u \in CheckUnits |-> "none"]]
  /\ finding' = [finding EXCEPT ![r] = [s \in Slots |-> "none"]]
  /\ recheck' = [recheck EXCEPT ![r] = [s \in Slots |-> "none"]]
  /\ UNCHANGED <<endpoint, processVars, gate, queue, loop, historyVars>>

(* PUT /settings/connection *)
ChangeConnection ==
  /\ Serving
  /\ \A r \in Runs : ~Registered(r)
  /\ endpoint' \in Endpoints \ {endpoint}
  /\ UNCHANGED <<dbVars, processVars, gate, queue, loop, historyVars>>

-----------------------------------------------------------------------------
(* The run loop *)

(* The loop reads its rows and stands before its first unit.                *)
BeginLoop(r) ==
  /\ MayStep(r)
  /\ loop[r].pc = "start"
  /\ loop' = [loop EXCEPT ![r].pc = "scan"]
  /\ UNCHANGED <<dbVars, endpoint, processVars, gate, queue, historyVars>>

(* The stop request is looked at before every unit, settled ones included.  *)
StopBeforeUnit(r) ==
  /\ MayStep(r)
  /\ loop[r].pc = "scan"
  /\ loop[r].persp \in Perspectives
  /\ loop[r].stopReq
  /\ loop' = [loop EXCEPT ![r].pc = "finish", ![r].halt = "stop"]
  /\ UNCHANGED <<dbVars, endpoint, processVars, gate, queue, historyVars>>

(* claimUnitChecked fails on a unit that is not pending: the loop passes on.*)
SkipUnit(r) ==
  /\ MayStep(r)
  /\ loop[r].pc = "scan"
  /\ loop[r].persp \in Perspectives
  /\ ~loop[r].stopReq
  /\ check[r][Unit(r)] # "pending"
  /\ loop' = [loop EXCEPT ![r].persp = @ + 1]
  /\ UNCHANGED <<dbVars, endpoint, processVars, gate, queue, historyVars>>

(* The unit is claimed in the database and its request takes a seat.        *)
ClaimUnit(r) ==
  /\ MayStep(r)
  /\ loop[r].pc = "scan"
  /\ loop[r].persp \in Perspectives
  /\ ~loop[r].stopReq
  /\ check[r][Unit(r)] = "pending"
  /\ check' = [check EXCEPT ![r][Unit(r)] = "running"]
  /\ queue' = Append(queue, r)
  /\ loop' = [loop EXCEPT ![r].pc = "queued", ![r].job = 0, ![r].retried = FALSE]
  /\ UNCHANGED <<row, finding, recheck, endpoint, processVars, gate, historyVars>>

(* After the last perspective the loop settles the target once more.        *)
EndOfPerspectives(r) ==
  /\ MayStep(r)
  /\ loop[r].pc = "scan"
  /\ loop[r].persp = NumPerspectives + 1
  /\ loop' = [loop EXCEPT ![r].pc = "settle"]
  /\ UNCHANGED <<dbVars, endpoint, processVars, gate, queue, historyVars>>

(* Where the loop stands once settleTarget has returned normally            *)
Advance(l) ==
  CASE l.persp \in Perspectives ->
         [l EXCEPT !.pc = "scan", !.persp = @ + 1]
    [] l.persp \notin Perspectives /\ l.target < NumTargets ->
         [l EXCEPT !.pc = "scan", !.target = @ + 1, !.persp = 1, !.settled = FALSE]
    [] OTHER -> [l EXCEPT !.pc = "finish"]

(* settleTarget leaves a target alone that it settled before, or that has a *)
(* unit still to be done.                                                   *)
Unfinished(r, t) ==
  \E p \in Perspectives : check[r][<<t, p>>] \in {"pending", "running"}

SettleNothing(r) ==
  /\ MayStep(r)
  /\ loop[r].pc = "settle"
  /\ loop[r].settled \/ Unfinished(r, loop[r].target)
  /\ loop' = [loop EXCEPT ![r] = Advance(@)]
  /\ UNCHANGED <<dbVars, endpoint, processVars, gate, queue, historyVars>>

MutantNeverReopens(r, s) ==
  LET f == finding[r][s] IN
  IF recheck[r][s] # "none" \/ f = "none" THEN recheck[r][s]
  ELSE IF ~row[r].recheckOn THEN "disabled"
  ELSE IF f \in {"unlocated", "suppressed"} THEN f ELSE "pending"

(* issueRechecks, for one finding: create its unit, or reopen the unit of a *)
(* finding whose suppression a later merge lifted.                          *)
IssuedRecheck(r, s) ==
  LET f == finding[r][s]
      new == CASE ~row[r].recheckOn -> "disabled"
               [] row[r].recheckOn /\ f \in {"unlocated", "suppressed"} -> f
               [] OTHER -> "pending"
  IN CASE f = "none" -> "none"
       [] f # "none" /\ recheck[r][s] = "none" -> new
       [] recheck[r][s] = "suppressed" /\ row[r].recheckOn /\ f = "open" -> "pending"
       [] OTHER -> recheck[r][s]

IssueRechecks(r) ==
  /\ MayStep(r)
  /\ loop[r].pc = "settle"
  /\ ~loop[r].settled
  /\ ~Unfinished(r, loop[r].target)
  /\ recheck' = [recheck EXCEPT ![r] =
       [s \in Slots |-> IF s[1] = loop[r].target THEN IssuedRecheck(r, s) ELSE @[s]]]
  /\ loop' = [loop EXCEPT ![r].pc = "recheck", ![r].settled = TRUE]
  /\ UNCHANGED <<row, check, finding, endpoint, processVars, gate, queue, historyVars>>

(* runRechecks: the pending recheck units of the target, one at a time      *)
PendingRechecks(r) ==
  {f \in Findings : recheck[r][<<loop[r].target, f>>] = "pending"}

RechecksDone(r) ==
  /\ MayStep(r)
  /\ loop[r].pc = "recheck"
  /\ PendingRechecks(r) = {}
  /\ loop' = [loop EXCEPT ![r] = Advance(@)]
  /\ UNCHANGED <<dbVars, endpoint, processVars, gate, queue, historyVars>>

StopBeforeRecheck(r) ==
  /\ MayStep(r)
  /\ loop[r].pc = "recheck"
  /\ PendingRechecks(r) # {}
  /\ loop[r].stopReq
  /\ loop' = [loop EXCEPT ![r].pc = "finish", ![r].halt = "stop"]
  /\ UNCHANGED <<dbVars, endpoint, processVars, gate, queue, historyVars>>

(* A recheck whose input would be too long fails without taking a seat.     *)
ClaimRecheck(r) ==
  /\ MayStep(r)
  /\ loop[r].pc = "recheck"
  /\ ~loop[r].stopReq
  /\ \E f \in PendingRechecks(r) :
       /\ \A g \in PendingRechecks(r) : f <= g
       /\ recheck' = [recheck EXCEPT ![r][<<loop[r].target, f>>] = "running"]
       /\ \/ /\ queue' = Append(queue, r)
             /\ loop' = [loop EXCEPT ![r].pc = "queued", ![r].job = f,
                                     ![r].retried = FALSE]
          \/ /\ loop' = [loop EXCEPT ![r].pc = "resolved", ![r].job = f,
                                     ![r].result = "failed"]
             /\ UNCHANGED queue
  /\ UNCHANGED <<row, check, finding, endpoint, processVars, gate, historyVars>>

-----------------------------------------------------------------------------
(* The request: queue, executor, LM Studio *)

(* The job ends with the unit's next status and the loop's reason to halt.  *)
Resolve(r, result, halt) ==
  loop' = [loop EXCEPT ![r].pc = "resolved", ![r].result = result, ![r].halt = halt]

(* An abort while the request waits for its turn cancels the seat; runOne's *)
(* own check of the signal ends the same way.                               *)
CancelQueued(r) ==
  /\ MayStep(r)
  /\ loop[r].pc = "queued"
  /\ SignalAborted(r)
  /\ \E i \in DOMAIN queue : queue[i] = r /\ queue' = RemoveAt(queue, i)
  /\ Resolve(r, "pending", "stop")
  /\ UNCHANGED <<dbVars, endpoint, processVars, gate, historyVars>>

MutantAnySeat(r) == \E i \in DOMAIN queue : queue[i] = r
HasTurn(r) == queue # <<>> /\ Head(queue) = r

MutantWaitsForGate(r) ==
  /\ MayStep(r)
  /\ loop[r].pc = "queued"
  /\ HasTurn(r)
  /\ ~SignalAborted(r)
  /\ gate = {}
  /\ loop' = [loop EXCEPT ![r].pc = "ensure"]
  /\ UNCHANGED <<dbVars, endpoint, processVars, gate, queue, historyVars>>

(* runOne begins: nothing is sent while the recovery gate is closed.        *)
TakeTurn(r) ==
  /\ MayStep(r)
  /\ loop[r].pc = "queued"
  /\ HasTurn(r)
  /\ ~SignalAborted(r)
  /\ \/ /\ gate # {}
        /\ queue' = Tail(queue)
        /\ Resolve(r, "pending", "stop")
     \/ /\ gate = {}
        /\ loop' = [loop EXCEPT ![r].pc = "ensure"]
        /\ UNCHANGED queue
  /\ UNCHANGED <<dbVars, endpoint, processVars, gate, historyVars>>

(* ensureLoaded answers, fails (any error, an abort included), or names a   *)
(* model that cannot generate.                                              *)
EnsureLoaded(r) ==
  /\ MayStep(r)
  /\ loop[r].pc = "ensure"
  /\ \/ /\ ~SignalAborted(r)
        /\ loop' = [loop EXCEPT ![r].pc = "chat"]
        /\ UNCHANGED queue
     \/ /\ \E halt \in {"stop", "settings"} : Resolve(r, "pending", halt)
        /\ queue' = Tail(queue)
  /\ UNCHANGED <<dbVars, endpoint, processVars, gate, historyVars>>

(* The answers of LM Studio that end a job, as the unit's next status and   *)
(* the halt.  A malformed, truncated or refused answer ends it only when    *)
(* the one retry has been used.                                             *)
Answers(r) ==
  {<<"done", "none">>,                      \* parsed
   <<"pending", "stop">>,                   \* the model is not loaded after all
   IF loop[r].job = 0 THEN <<"tooLong", "settings">> ELSE <<"failed", "none">>}
  \cup (IF loop[r].retried
        THEN {<<"failed", "none">>,         \* malformed or truncated
              <<"failed", "stop">>}         \* refused with an HTTP status
        ELSE {})

ChatAnswered(r) ==
  /\ MayStep(r)
  /\ loop[r].pc = "chat"
  /\ \E a \in Answers(r) : Resolve(r, a[1], a[2])
  /\ queue' = Tail(queue)
  /\ UNCHANGED <<dbVars, endpoint, processVars, gate, historyVars>>

(* The retry: endRequest has aborted the signal if a stop was requested     *)
(* while the request was in flight, and then nothing is sent again.         *)
RetryChat(r) ==
  /\ MayStep(r)
  /\ loop[r].pc = "chat"
  /\ ~loop[r].retried
  /\ \/ /\ loop[r].stopReq
        /\ Resolve(r, "failed", "stop")
        /\ queue' = Tail(queue)
     \/ /\ ~loop[r].stopReq
        /\ loop' = [loop EXCEPT ![r].pc = "ensure", ![r].retried = TRUE]
        /\ UNCHANGED queue
  /\ UNCHANGED <<dbVars, endpoint, processVars, gate, historyVars>>

MutantGateClosesLater(r) ==
  /\ MayStep(r)
  /\ loop[r].pc = "chat"
  /\ Resolve(r, "pending", "unconfirmed")
  /\ queue' = Tail(queue)
  /\ orphans' = orphans \cup {r}
  /\ forgotten' = forgotten \ {r}
  /\ UNCHANGED <<dbVars, endpoint, processVars, gate>>

(* The request ends without an answer: the hard limit, a connection lost    *)
(* without a status, or the abort once the stop's grace has run out.        *)
(* finish() closes the gate before the next job of the queue begins.        *)
ChatLost(r) ==
  /\ MayStep(r)
  /\ loop[r].pc = "chat"
  /\ Resolve(r, "pending", "unconfirmed")
  /\ queue' = Tail(queue)
  /\ gate' = gate \cup {r}
  /\ orphans' = orphans \cup {r}
  /\ forgotten' = forgotten \ {r}
  /\ UNCHANGED <<dbVars, endpoint, processVars>>

-----------------------------------------------------------------------------
(* Saving and settling *)

(* What merging one more located candidate makes of a finding: a new one is *)
(* open or suppressed; the category of a suppressed one may become unclear, *)
(* which lifts the suppression for good.                                    *)
Merged(f) ==
  CASE f = "none"       -> FindingState
    [] f = "suppressed" -> {"suppressed", "open"}
    [] OTHER            -> {f}

(* Where the loop goes after saving, its job forgotten                      *)
AfterSave(l, next) ==
  [l EXCEPT !.pc = IF l.halt = "none" THEN next ELSE "finish",
            !.job = 0, !.result = "pending", !.retried = FALSE]

(* saveCheckUnitOutcome: findings, the closed recheck unit of an unlocated  *)
(* finding and the unit's status, in one transaction.                       *)
SaveCheck(r) ==
  /\ MayStep(r)
  /\ loop[r].pc = "resolved"
  /\ loop[r].job = 0
  /\ check' = [check EXCEPT ![r][Unit(r)] = loop[r].result]
  /\ \E new \in [Findings -> FindingState] :
       LET found(s) == loop[r].result = "done" /\ s[1] = loop[r].target IN
       /\ \A f \in Findings : new[f] \in Merged(finding[r][<<loop[r].target, f>>])
       /\ finding' = [finding EXCEPT ![r] =
            [s \in Slots |-> IF found(s) THEN new[s[2]] ELSE @[s]]]
       /\ recheck' = [recheck EXCEPT ![r] =
            [s \in Slots |-> IF found(s) /\ @[s] = "none" /\ new[s[2]] = "unlocated"
                             THEN IF row[r].recheckOn THEN "unlocated" ELSE "disabled"
                             ELSE @[s]]]
  /\ loop' = [loop EXCEPT ![r] = AfterSave(@, "settle")]
  /\ UNCHANGED <<row, endpoint, processVars, gate, queue, historyVars>>

(* saveRecheckOutcome *)
SaveRecheck(r) ==
  /\ MayStep(r)
  /\ loop[r].pc = "resolved"
  /\ loop[r].job # 0
  /\ recheck' = [recheck EXCEPT ![r][Slot(r)] = loop[r].result]
  /\ loop' = [loop EXCEPT ![r] = AfterSave(@, "recheck")]
  /\ UNCHANGED <<row, check, finding, endpoint, processVars, gate, queue, historyVars>>

AnyFailed(r) ==
  \/ \E u \in CheckUnits : check[r][u] \in {"failed", "tooLong"}
  \/ \E s \in Slots : recheck[r][s] = "failed"

(* finalizeRun, then the registry entry goes                                *)
FinalizeRun(r) ==
  LET halt == loop[r].halt
      status == IF halt # "none" THEN StatusForUnconfirmed(halt = "unconfirmed")
                ELSE IF AnyFailed(r) THEN "partially-failed" ELSE "completed"
  IN /\ MayStep(r)
     /\ loop[r].pc = "finish"
     /\ row' = FinishRow(r, status, halt = "settings")
     /\ gate' = IF halt = "unconfirmed" THEN gate \cup {r} ELSE gate
     /\ loop' = [loop EXCEPT ![r] = NoLoop]
     /\ UNCHANGED <<unitVars, endpoint, processVars, queue, historyVars>>

(* The database throws anywhere in the loop.  settleInternalError puts the  *)
(* run to rest; when that transaction fails too, the row stays running with *)
(* no loop behind it until the next start.                                  *)
InternalError(r) ==
  /\ MayStep(r)
  /\ loop[r].pc \notin {"off", "queued", "ensure", "chat"}
  /\ \/ /\ row' = FinishRow(r, StatusForUnconfirmed(r \in gate), FALSE)
        /\ ResetRunningUnits(r)
     \/ UNCHANGED dbVars
  /\ loop' = [loop EXCEPT ![r] = NoLoop]
  /\ UNCHANGED <<endpoint, processVars, gate, queue, historyVars>>

-----------------------------------------------------------------------------
(* The process: killed or shut down at any time, started again *)

(* Shutting down does not wait for the runs.  A request in flight is left   *)
(* to LM Studio; it is forgotten when the row is running and no unit is.    *)
Crash ==
  LET inFlight == {r \in Runs : loop[r].pc = "chat"}
      left == orphans \cup inFlight
  IN /\ phase # "down"
     /\ phase' = "down"
     /\ gate' = {}
     /\ queue' = <<>>
     /\ loop' = [r \in Runs |-> NoLoop]
     /\ orphans' = left
     /\ forgotten' = (forgotten \ inFlight) \cup
          {r \in left : row[r].status = "running" /\ ~HasRunningUnit(r)}
     /\ UNCHANGED <<dbVars, endpoint, version>>

(* The next start may be that of another build.                             *)
Boot ==
  /\ phase = "down"
  /\ phase' = "starting"
  /\ version' \in Versions
  /\ UNCHANGED <<dbVars, endpoint, gate, queue, loop, historyVars>>

(* reconcileRun: one transaction for each run found running                 *)
ReconcileRun(r) ==
  /\ phase = "starting"
  /\ row[r].status = "running"
  /\ row' = FinishRow(r, StatusForUnconfirmed(HasRunningUnit(r)), FALSE)
  /\ ResetRunningUnits(r)
  /\ UNCHANGED <<endpoint, processVars, gate, queue, loop, historyVars>>

MutantConfirmationsForgotten ==
  /\ phase = "starting"
  /\ \A r \in Runs : row[r].status # "running"
  /\ gate' = {r \in Runs : row[r].status = "recovery-waiting"}
  /\ phase' = "up"
  /\ UNCHANGED <<dbVars, endpoint, version, queue, loop, historyVars>>

(* reconcileOnStartup closes the gate, then the server listens.             *)
Listen ==
  /\ phase = "starting"
  /\ \A r \in Runs : row[r].status # "running"
  /\ gate' = {r \in Runs : row[r].status = "recovery-waiting" /\ ~row[r].confirmed}
  /\ phase' = "up"
  /\ UNCHANGED <<dbVars, endpoint, version, queue, loop, historyVars>>

-----------------------------------------------------------------------------
UserStep(r) ==
  \/ StartRun(r) \/ StopRun(r) \/ ConfirmRecovery(r) \/ ResumeRun(r)
  \/ RetryFailedUnits(r) \/ DeleteRun(r)

LoopStep(r) ==
  \/ BeginLoop(r) \/ StopBeforeUnit(r) \/ SkipUnit(r) \/ ClaimUnit(r)
  \/ EndOfPerspectives(r) \/ SettleNothing(r) \/ IssueRechecks(r)
  \/ RechecksDone(r) \/ StopBeforeRecheck(r) \/ ClaimRecheck(r)
  \/ SaveCheck(r) \/ SaveRecheck(r) \/ FinalizeRun(r)

RequestStep(r) ==
  \/ CancelQueued(r) \/ TakeTurn(r) \/ EnsureLoaded(r) \/ ChatAnswered(r)
  \/ RetryChat(r) \/ ChatLost(r)

Next ==
  \/ \E r \in Runs : UserStep(r) \/ LoopStep(r) \/ RequestStep(r)
                     \/ InternalError(r) \/ ReconcileRun(r)
  \/ ChangeConnection \/ Crash \/ Boot \/ Listen

Spec == Init /\ [][Next]_vars

(* The event loop keeps running what is ready, every request to LM Studio   *)
(* has a hard time limit, and a started process gets to listen.  A callback *)
(* that is ready stays in the event loop's queue while the segment of       *)
(* another run holds the thread, hence SF.  Nothing is assumed of the user, *)
(* of the answers, of failures or of restarts.                              *)
Fairness ==
  /\ \A r \in Runs : SF_vars(LoopStep(r) \/ RequestStep(r))
  /\ \A r \in Runs : WF_vars(ReconcileRun(r))
  /\ WF_vars(Listen)

FairSpec == Spec /\ Fairness

-----------------------------------------------------------------------------
(* Properties *)

InHand == {"queued", "ensure", "chat", "resolved"}

(* A run's loop, its unit in the database and the queue agree: the unit a   *)
(* loop has in hand is running in the database, no other unit of the run    *)
(* is, and a unit is running only in a running run.  This is what lets the  *)
(* next start recognise a request that was cut off (orchestrator.ts         *)
(* resetRunningUnits).                                                      *)
UnitsInHand ==
  \A r \in Runs :
    LET runningChecks   == {u \in CheckUnits : check[r][u] = "running"}
        runningRechecks == {s \in Slots : recheck[r][s] = "running"}
        held == loop[r].pc \in InHand
    IN /\ HasRunningUnit(r) => row[r].status = "running"
       /\ Registered(r) =>
            /\ runningChecks = IF held /\ loop[r].job = 0 THEN {Unit(r)} ELSE {}
            /\ runningRechecks = IF held /\ loop[r].job # 0 THEN {Slot(r)} ELSE {}

(* The invariant of the queue and the executor: at most one job loads the   *)
(* model or waits for an answer in the whole process, retries included.     *)
OneRequestAtATime ==
  \A r, q \in Runs :
    loop[r].pc \in {"ensure", "chat"} /\ loop[q].pc \in {"ensure", "chat"} => r = q

(* No generation is requested while an earlier request may still be         *)
(* generating, unless the row had lost every trace of it at a crash         *)
(* (spec 8.2, recovery-waiting; executor.ts runOne, orchestrator.ts         *)
(* reconcileOnStartup).                                                     *)
NoSendWhileUnconfirmed ==
  (\E r \in Runs : loop[r].pc = "chat") => orphans \subseteq forgotten

(* What docs/reference/invariants.md states, without that exception         *)
NoSendAfterLostGeneration ==
  (\E r \in Runs : loop[r].pc = "chat") => orphans = {}

(* While serving, the gate is closed exactly for the recovery-waiting runs  *)
(* the user has not confirmed, and for runs still on their way there: it    *)
(* never stays closed for a run nobody can confirm or whose row is gone.    *)
GateMatchesRows ==
  phase = "up" =>
    \A r \in Runs :
      /\ row[r].status = "recovery-waiting" => (r \in gate <=> ~row[r].confirmed)
      /\ r \in gate => row[r].status \in {"running", "recovery-waiting"}

(* A run says completed only when every unit was checked and every open     *)
(* finding rechecked, and partially-failed only when something failed and   *)
(* nothing is left to do, whatever crashes, stops, resumptions and retries  *)
(* came before (loop.ts issueRechecks, finalizeRun).                        *)
FinishedMeansFinished ==
  \A r \in Runs :
    LET Left(s) == \/ finding[r][s] # "none" /\ recheck[r][s] = "none"
                   \/ recheck[r][s] \in {"pending", "running"}
                   \/ /\ finding[r][s] = "open" /\ row[r].recheckOn
                      /\ recheck[r][s] \notin {"done", "failed"}
    IN /\ row[r].status = "completed" =>
            /\ \A u \in CheckUnits : check[r][u] = "done"
            /\ \A s \in Slots : ~Left(s) /\ recheck[r][s] # "failed"
       /\ row[r].status = "partially-failed" =>
            /\ AnyFailed(r)
            /\ \A u \in CheckUnits : check[r][u] \in {"done", "failed", "tooLong"}
            /\ \A s \in Slots : ~Left(s)

(* A registered run works with the connection and under the versions its    *)
(* row pins, through resumptions, restarts and changes of the settings      *)
(* (orchestrator.ts resumeRun, settings.ts PUT).                            *)
WorksAsPinned ==
  \A r \in Runs :
    Registered(r) => row[r].endpoint = endpoint /\ row[r].version = version

(* The stop the row shows for a live run is the stop its gate knows: a run  *)
(* claimed again starts without the stop of its last life.                  *)
StopShownIsStopKnown ==
  \A r \in Runs : Registered(r) => row[r].stopAt = loop[r].stopReq

(* Once a stop was requested no further request of the run is sent: not the *)
(* queued one, not the retry (recovery.ts endRequest).                      *)
StopIsHonoured ==
  [][\A r \in Runs :
       loop[r].stopReq /\ loop'[r].pc = "chat" => loop[r].pc = "chat"]_vars

(* Work that is settled stays settled until the run is deleted: a unit done *)
(* is never requested again, and neither is one whose input was too long.   *)
SettledStaysSettled ==
  [][\A r \in Runs : row'[r].status # "deleted" =>
       /\ \A u \in CheckUnits :
            check[r][u] \in {"done", "tooLong"} => check'[r][u] = check[r][u]
       /\ \A s \in Slots :
            /\ recheck[r][s] \in {"done", "disabled", "unlocated"}
                 => recheck'[r][s] = recheck[r][s]
            /\ finding[r][s] = "open" => finding'[r][s] = "open"]_vars

(* A launched run leaves the registry: it never waits for ever for its turn *)
(* or for an answer, and never repeats a request without end.               *)
RunsComeToRest == \A r \in Runs : Registered(r) ~> ~Registered(r)

(* The detailed system keeps the promises of RunLifecycle: whatever the     *)
(* loop, the gates, crashes and restarts do, a run changes its status, and  *)
(* a request is sent, only as that module allows.                           *)
Lifecycle == INSTANCE RunLifecycle WITH
  status   <- [r \in Runs |-> row[r].status],
  sending  <- {r \in Runs : loop[r].pc = "chat"},
  suspects <- orphans \ forgotten

KeepsLifecycle == Lifecycle!Spec

=============================================================================
