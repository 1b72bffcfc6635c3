--------------------------- MODULE RunControlProofs --------------------------
(* Theorems about RunControl, for any numbers of runs, targets, findings,   *)
(* endpoints and versions.                                                  *)
EXTENDS RunControl, SequenceTheorems, TLAPS

-----------------------------------------------------------------------------
(* Sequences: what cancelling a seat and passing the turn do to the queue   *)

LEMMA RemoveAtLemma ==
  ASSUME NEW S, NEW q \in Seq(S), NEW i \in 1 .. Len(q)
  PROVE  /\ RemoveAt(q, i) \in Seq(S)
         /\ Len(RemoveAt(q, i)) = Len(q) - 1
         /\ \A k \in 1 .. Len(q) - 1 :
              RemoveAt(q, i)[k] = IF k < i THEN q[k] ELSE q[k + 1]
<1> DEFINE a == SubSeq(q, 1, i - 1)
           b == SubSeq(q, i + 1, Len(q))
<1>1. /\ a \in Seq(S) /\ Len(a) = i - 1
      /\ \A k \in 1 .. i - 1 : a[k] = q[k]
  BY SubSeqProperties
<1>2. /\ b \in Seq(S) /\ Len(b) = Len(q) - i
      /\ \A k \in 1 .. Len(q) - i : b[k] = q[i + k]
  BY SubSeqProperties
<1>3. RemoveAt(q, i) = a \o b
  BY DEF RemoveAt
<1> HIDE DEF a, b
<1>0. Len(q) \in Nat
  OBVIOUS
<1>4. /\ a \o b \in Seq(S) /\ Len(a \o b) = Len(a) + Len(b)
      /\ \A k \in 1 .. Len(a) + Len(b) :
           (a \o b)[k] = IF k <= Len(a) THEN a[k] ELSE b[k - Len(a)]
  <2>1. a \in Seq(S) /\ b \in Seq(S)
    BY <1>1, <1>2
  <2> QED BY <2>1, ConcatProperties
<1>5. ASSUME NEW k \in 1 .. Len(q) - 1
      PROVE  RemoveAt(q, i)[k] = IF k < i THEN q[k] ELSE q[k + 1]
  <2>1. k \in 1 .. Len(a) + Len(b)
    BY <1>0, <1>1, <1>2
  <2>2. RemoveAt(q, i)[k] = IF k <= i - 1 THEN a[k] ELSE b[k - (i - 1)]
    BY <2>1, <1>1, <1>3, <1>4
  <2>3. CASE k < i
    BY <2>2, <2>3, <1>0, <1>1
  <2>4. CASE ~(k < i)
    <3>1. k - (i - 1) \in 1 .. Len(q) - i /\ i + (k - (i - 1)) = k + 1
      BY <2>4, <1>0
    <3>2. b[k - (i - 1)] = q[k + 1]
      BY <3>1, <1>2
    <3> QED BY <3>2, <2>2, <2>4, <1>0
  <2> QED BY <2>3, <2>4
<1> QED BY <1>0, <1>1, <1>2, <1>3, <1>4, <1>5

LEMMA TailLemma ==
  ASSUME NEW S, NEW q \in Seq(S), q # <<>>
  PROVE  /\ Tail(q) \in Seq(S)
         /\ Len(Tail(q)) = Len(q) - 1
         /\ \A k \in 1 .. Len(q) - 1 : Tail(q)[k] = q[k + 1]
         /\ Len(q) \in Nat \ {0} /\ Head(q) = q[1]
  BY HeadTailProperties

-----------------------------------------------------------------------------
(* The inductive invariant                                                  *)

Seated(r) == loop[r].pc \in {"queued", "ensure", "chat"}
AtWork(r) == loop[r].pc \in {"ensure", "chat"}

(* A run holds a seat while its request waits, loads or is answered, one    *)
(* seat and no other run holds it, and it is at work only at the head.      *)
SeatsHeld ==
  /\ \A r \in Runs : Seated(r) => \E i \in 1 .. Len(queue) : queue[i] = r
  /\ \A i \in 1 .. Len(queue) : Seated(queue[i])
  /\ \A i, j \in 1 .. Len(queue) : queue[i] = queue[j] => i = j
  /\ \A r \in Runs : AtWork(r) => queue # <<>> /\ queue[1] = r

(* Without a serving process there is no loop, no seat and no gate.         *)
QuietWhenNotUp ==
  phase # "up" => /\ loop = [r \in Runs |-> NoLoop]
                  /\ queue = <<>>
                  /\ gate = {}

(* The row of a registered run is running.                                  *)
LiveRows == \A r \in Runs : Registered(r) => row[r].status = "running"

(* The gate is open while a job is at work; a registered run has closed it  *)
(* exactly when its loop is on the way out with an unconfirmed generation.  *)
GateOfLoops ==
  /\ (\E r \in Runs : AtWork(r)) => gate = {}
  /\ \A r \in Runs :
       /\ Registered(r) => (r \in gate <=> loop[r].halt = "unconfirmed")
       /\ loop[r].halt = "unconfirmed" => loop[r].pc \in {"resolved", "finish"}

(* An orphan that is not forgotten keeps the gate closed, or will make the  *)
(* start that is under way close it.                                        *)
OrphansShown ==
  \A r \in orphans \ forgotten :
    /\ phase = "up" => r \in gate
    /\ phase # "up" =>
         \/ row[r].status = "recovery-waiting" /\ ~row[r].confirmed
         \/ row[r].status = "running" /\ HasRunningUnit(r)

(* The unit of a job that holds a seat is running in the database.          *)
SeatedUnitRuns ==
  \A r \in Runs : Seated(r) =>
    IF loop[r].job = 0
    THEN loop[r].persp \in Perspectives /\ check[r][Unit(r)] = "running"
    ELSE recheck[r][Slot(r)] = "running"

(* Only a check unit's input is found too long by LM Studio's answer.       *)
TooLongIsACheck ==
  \A r \in Runs : loop[r].result = "tooLong" =>
    loop[r].pc = "resolved" /\ loop[r].job = 0

IInv ==
  /\ TypeOK
  /\ SeatsHeld
  /\ QuietWhenNotUp
  /\ LiveRows
  /\ GateOfLoops
  /\ GateMatchesRows
  /\ OrphansShown
  /\ SeatedUnitRuns
  /\ TooLongIsACheck
  /\ WorksAsPinned
  /\ StopShownIsStopKnown

-----------------------------------------------------------------------------
(* Types                                                                    *)

LEMMA NoLoopType == NoLoop \in Loop
  BY ConstantsAssumption DEF NoLoop, Loop, Pc, Halt, Targets

LEMMA InitTypeOK == Init => TypeOK
<1> SUFFICES ASSUME Init PROVE TypeOK
  OBVIOUS
<1>1. \A r \in Runs : row[r] \in Row
  BY DEF Init, Row, RunStatus
<1>2. row \in [Runs -> Row] /\ loop \in [Runs -> Loop]
  BY <1>1, NoLoopType DEF Init
<1>3. /\ check \in [Runs -> [CheckUnits -> CheckStatus]]
      /\ finding \in [Runs -> [Slots -> FindingState]]
      /\ recheck \in [Runs -> [Slots -> RecheckStatus]]
  BY DEF Init, CheckStatus, FindingState, RecheckStatus
<1> QED BY <1>2, <1>3, EmptySeq DEF Init, TypeOK

(* The rows that the operations write                                       *)
LEMMA FinishRowType ==
  ASSUME row \in [Runs -> Row], NEW r \in Runs, NEW st \in RunStatus, NEW b \in BOOLEAN
  PROVE  FinishRow(r, st, b) \in [Runs -> Row]
<1> DEFINE x == [row[r] EXCEPT !.status = st, !.settings = b,
                               !.confirmed = @ /\ st # "recovery-waiting"]
<1>1. row[r] \in Row
  OBVIOUS
<1>2. x \in Row
  BY <1>1 DEF Row
<1>3. FinishRow(r, st, b) = [row EXCEPT ![r] = x]
  BY DEF FinishRow
<1> HIDE DEF x
<1> QED BY <1>2, <1>3

LEMMA ClaimRunType ==
  ASSUME row \in [Runs -> Row], NEW r \in Runs, ClaimRun(r)
  PROVE  row' \in [Runs -> Row]
<1> DEFINE x == [row[r] EXCEPT !.status = "running", !.settings = FALSE,
                               !.stopAt = FALSE, !.confirmed = FALSE]
<1>1. row[r] \in Row
  OBVIOUS
<1>2. x \in Row
  BY <1>1 DEF Row, RunStatus
<1>3. row' = [row EXCEPT ![r] = x]
  BY DEF ClaimRun
<1> HIDE DEF x
<1> QED BY <1>2, <1>3

LEMMA ResetType ==
  ASSUME check \in [Runs -> [CheckUnits -> CheckStatus]],
         recheck \in [Runs -> [Slots -> RecheckStatus]],
         finding \in [Runs -> [Slots -> FindingState]],
         NEW r \in Runs, ResetRunningUnits(r)
  PROVE  /\ check' \in [Runs -> [CheckUnits -> CheckStatus]]
         /\ recheck' \in [Runs -> [Slots -> RecheckStatus]]
         /\ finding' \in [Runs -> [Slots -> FindingState]]
  BY DEF ResetRunningUnits, CheckStatus, RecheckStatus

LEMMA AdvanceType == ASSUME NEW l \in Loop PROVE Advance(l) \in Loop
<1>1. CASE l.persp \in Perspectives
  <2>1. l.persp + 1 \in 1 .. NumPerspectives + 1
    BY <1>1, ConstantsAssumption DEF Perspectives
  <2>2. [l EXCEPT !.pc = "scan", !.persp = l.persp + 1] \in Loop
    BY <2>1 DEF Loop, Pc
  <2> QED BY <1>1, <2>2 DEF Advance
<1>2. CASE l.persp \notin Perspectives /\ l.target < NumTargets
  <2>1. l.target + 1 \in Targets /\ 1 \in 1 .. NumPerspectives + 1
    BY <1>2, ConstantsAssumption DEF Targets, Loop
  <2>2. [l EXCEPT !.pc = "scan", !.target = l.target + 1, !.persp = 1,
                  !.settled = FALSE] \in Loop
    BY <2>1 DEF Loop, Pc
  <2> QED BY <1>2, <2>2 DEF Advance
<1>3. CASE l.persp \notin Perspectives /\ ~(l.target < NumTargets)
  <2>1. [l EXCEPT !.pc = "finish"] \in Loop
    BY DEF Loop, Pc
  <2> QED BY <1>3, <2>1 DEF Advance
<1> QED BY <1>1, <1>2, <1>3

LEMMA AfterSaveType ==
  ASSUME NEW l \in Loop, NEW next \in Pc PROVE AfterSave(l, next) \in Loop
<1>1. 0 \in 0 .. NumFindings
  BY ConstantsAssumption
<1>2. ASSUME NEW where \in Pc
      PROVE  [l EXCEPT !.pc = where, !.job = 0, !.result = "pending",
                       !.retried = FALSE] \in Loop
  BY <1>1 DEF Loop
<1>3. (IF l.halt = "none" THEN next ELSE "finish") \in Pc
  BY DEF Pc
<1> QED BY <1>2, <1>3 DEF AfterSave

LEMMA ResolveType ==
  ASSUME loop \in [Runs -> Loop], NEW r \in Runs,
         NEW result \in {"pending", "done", "failed", "tooLong"}, NEW halt \in Halt,
         Resolve(r, result, halt)
  PROVE  loop' \in [Runs -> Loop]
<1>1. loop[r] \in Loop
  OBVIOUS
<1>2. [loop[r] EXCEPT !.pc = "resolved", !.result = result, !.halt = halt] \in Loop
  BY <1>1 DEF Loop, Pc
<1> QED BY <1>2 DEF Resolve

LEMMA LaunchType ==
  ASSUME loop \in [Runs -> Loop], NEW r \in Runs, Launch(r) PROVE loop' \in [Runs -> Loop]
<1>1. [NoLoop EXCEPT !.pc = "start"] \in Loop
  BY NoLoopType DEF Loop, Pc
<1> QED BY <1>1 DEF Launch

LEMMA NextTypeOK == IInv /\ [Next]_vars => TypeOK'
<1> SUFFICES ASSUME IInv, [Next]_vars PROVE TypeOK'
  OBVIOUS
<1>a. /\ row \in [Runs -> Row] /\ loop \in [Runs -> Loop]
      /\ check \in [Runs -> [CheckUnits -> CheckStatus]]
      /\ finding \in [Runs -> [Slots -> FindingState]]
      /\ recheck \in [Runs -> [Slots -> RecheckStatus]]
      /\ queue \in Seq(Runs)
  BY DEF IInv, TypeOK
<1>t. TypeOK
  BY DEF IInv
<1>c. \A r \in Runs : Append(queue, r) \in Seq(Runs)
  BY <1>a, AppendProperties
<1>d. queue # <<>> => Tail(queue) \in Seq(Runs)
  BY <1>a, TailLemma
<1>e. \A r \in Runs : AtWork(r) => queue # <<>>
  BY DEF IInv, SeatsHeld
<1>b. \A r \in Runs : loop[r] \in Loop /\ row[r] \in Row
  BY <1>a
<1> USE DEF dbVars, unitVars, processVars, historyVars
<1>1. ASSUME NEW r \in Runs, StartRun(r) PROVE TypeOK'
  <2>1. PICK on \in RecheckSettings, valid \in BOOLEAN, long \in SUBSET Targets :
          LET planned == valid /\ long = {} IN
          /\ valid \/ long = {}
          /\ row' = [row EXCEPT ![r] =
               [status |-> IF planned THEN "running" ELSE "stopped",
                settings |-> ~planned, stopAt |-> FALSE, confirmed |-> FALSE,
                recheckOn |-> on, endpoint |-> endpoint, version |-> version]]
          /\ check' = [check EXCEPT ![r] =
               [u \in CheckUnits |-> CASE ~valid -> "none"
                                       [] valid /\ u[1] \in long -> "tooLong"
                                       [] OTHER -> "pending"]]
          /\ IF planned THEN Launch(r) ELSE UNCHANGED loop
    BY <1>1, Zenon DEF StartRun
  <2>2. [status |-> IF valid /\ long = {} THEN "running" ELSE "stopped",
         settings |-> ~(valid /\ long = {}), stopAt |-> FALSE, confirmed |-> FALSE,
         recheckOn |-> on, endpoint |-> endpoint, version |-> version] \in Row
    BY <1>t, ConstantsAssumption DEF Row, RunStatus, TypeOK
  <2>3. row' \in [Runs -> Row]
    BY <1>a, <2>1, <2>2
  <2>4. check' \in [Runs -> [CheckUnits -> CheckStatus]]
    BY <1>a, <2>1 DEF CheckStatus
  <2>5. loop' \in [Runs -> Loop]
    BY <1>a, <2>1, LaunchType
  <2> QED BY <1>1, <2>3, <2>4, <2>5, <1>t DEF StartRun, TypeOK
<1>2. ASSUME NEW r \in Runs, StopRun(r) PROVE TypeOK'
  <2>1. /\ [loop[r] EXCEPT !.stopReq = TRUE] \in Loop
        /\ [row[r] EXCEPT !.stopAt = TRUE] \in Row
    BY <1>b DEF Loop, Row
  <2> QED BY <1>2, <2>1, <1>t DEF StopRun, TypeOK
<1>3. ASSUME NEW r \in Runs, ConfirmRecovery(r) PROVE TypeOK'
  <2>1. [row[r] EXCEPT !.confirmed = @ \/ row[r].status = "recovery-waiting"] \in Row
    BY <1>b DEF Row
  <2> QED BY <1>3, <2>1, <1>t DEF ConfirmRecovery, MarkRecoveryConfirmed, TypeOK
<1>4. ASSUME NEW r \in Runs, ResumeRun(r) PROVE TypeOK'
  <2>1. [row[r] EXCEPT !.confirmed = @ \/ row[r].status = "recovery-waiting"] \in Row
    BY <1>b DEF Row
  <2>2. CASE ClaimRun(r) /\ Launch(r)
    <3>1. row' \in [Runs -> Row] /\ loop' \in [Runs -> Loop]
      BY <2>2, <1>a, ClaimRunType, LaunchType
    <3>2. gate' \in SUBSET Runs /\ orphans' \in SUBSET Runs /\ forgotten' \in SUBSET Runs
      BY <1>4, <1>t DEF ResumeRun, MarkRecoveryConfirmed, TypeOK
    <3> QED BY <1>4, <1>t, <3>1, <3>2 DEF ResumeRun, TypeOK
  <2>3. CASE MarkRecoveryConfirmed(r) /\ UNCHANGED loop
    BY <1>4, <2>1, <2>3, <1>t DEF ResumeRun, MarkRecoveryConfirmed, TypeOK
  <2> QED BY <1>4, <2>2, <2>3 DEF ResumeRun
<1>5. ASSUME NEW r \in Runs, RetryFailedUnits(r) PROVE TypeOK'
  <2>1. /\ check' \in [Runs -> [CheckUnits -> CheckStatus]]
        /\ recheck' \in [Runs -> [Slots -> RecheckStatus]]
    BY <1>5, <1>a DEF RetryFailedUnits, CheckStatus, RecheckStatus
  <2>2. row' \in [Runs -> Row] /\ loop' \in [Runs -> Loop]
    BY <1>5, <1>a, ClaimRunType, LaunchType DEF RetryFailedUnits
  <2> QED BY <1>5, <2>1, <2>2, <1>t DEF RetryFailedUnits, TypeOK
<1>6. ASSUME NEW r \in Runs, DeleteRun(r) PROVE TypeOK'
  <2>1. [row[r] EXCEPT !.status = "deleted"] \in Row
    BY <1>b DEF Row, RunStatus
  <2>2. /\ check' \in [Runs -> [CheckUnits -> CheckStatus]]
        /\ finding' \in [Runs -> [Slots -> FindingState]]
        /\ recheck' \in [Runs -> [Slots -> RecheckStatus]]
    BY <1>6, <1>a DEF DeleteRun, CheckStatus, FindingState, RecheckStatus
  <2> QED BY <1>6, <2>1, <2>2, <1>t DEF DeleteRun, TypeOK
<1>7. ASSUME NEW r \in Runs, BeginLoop(r) PROVE TypeOK'
  <2>1. [loop[r] EXCEPT !.pc = "scan"] \in Loop
    BY <1>b DEF Loop, Pc
  <2> QED BY <1>7, <2>1, <1>t DEF BeginLoop, TypeOK
<1>8. ASSUME NEW r \in Runs, StopBeforeUnit(r) PROVE TypeOK'
  <2>1. [loop[r] EXCEPT !.pc = "finish", !.halt = "stop"] \in Loop
    BY <1>b DEF Loop, Pc, Halt
  <2> QED BY <1>8, <2>1, <1>t DEF StopBeforeUnit, TypeOK
<1>9. ASSUME NEW r \in Runs, SkipUnit(r) PROVE TypeOK'
  <2>1. loop[r].persp + 1 \in 1 .. NumPerspectives + 1
    BY <1>9, ConstantsAssumption DEF SkipUnit, Perspectives
  <2>2. [loop[r] EXCEPT !.persp = loop[r].persp + 1] \in Loop
    BY <1>b, <2>1 DEF Loop
  <2> QED BY <1>9, <2>2, <1>t DEF SkipUnit, TypeOK
<1>10. ASSUME NEW r \in Runs, ClaimUnit(r) PROVE TypeOK'
  <2>1. 0 \in 0 .. NumFindings
    BY ConstantsAssumption
  <2>2. [loop[r] EXCEPT !.pc = "queued", !.job = 0, !.retried = FALSE] \in Loop
    BY <1>b, <2>1 DEF Loop, Pc
  <2>3. loop' \in [Runs -> Loop]
    BY <1>10, <1>a, <2>2 DEF ClaimUnit
  <2>4. check' \in [Runs -> [CheckUnits -> CheckStatus]]
    BY <1>10, <1>a DEF ClaimUnit, CheckStatus
  <2>5. queue' \in Seq(Runs)
    BY <1>10, <1>c DEF ClaimUnit
  <2> QED BY <1>10, <2>3, <2>4, <2>5, <1>t DEF ClaimUnit, TypeOK
<1>11. ASSUME NEW r \in Runs, EndOfPerspectives(r) PROVE TypeOK'
  <2>1. [loop[r] EXCEPT !.pc = "settle"] \in Loop
    BY <1>b DEF Loop, Pc
  <2> QED BY <1>11, <2>1, <1>t DEF EndOfPerspectives, TypeOK
<1>12. ASSUME NEW r \in Runs, SettleNothing(r) PROVE TypeOK'
  BY <1>12, <1>b, AdvanceType, <1>t DEF SettleNothing, TypeOK
<1>13. ASSUME NEW r \in Runs, IssueRechecks(r) PROVE TypeOK'
  <2>1. \A s \in Slots : IssuedRecheck(r, s) \in RecheckStatus
    BY <1>a DEF IssuedRecheck, RecheckStatus
  <2>2. [loop[r] EXCEPT !.pc = "recheck", !.settled = TRUE] \in Loop
    BY <1>b DEF Loop, Pc
  <2> QED BY <1>13, <2>1, <2>2, <1>t DEF IssueRechecks, TypeOK
<1>14. ASSUME NEW r \in Runs, RechecksDone(r) PROVE TypeOK'
  BY <1>14, <1>b, AdvanceType, <1>t DEF RechecksDone, TypeOK
<1>15. ASSUME NEW r \in Runs, StopBeforeRecheck(r) PROVE TypeOK'
  <2>1. [loop[r] EXCEPT !.pc = "finish", !.halt = "stop"] \in Loop
    BY <1>b DEF Loop, Pc, Halt
  <2> QED BY <1>15, <2>1, <1>t DEF StopBeforeRecheck, TypeOK
<1>16. ASSUME NEW r \in Runs, ClaimRecheck(r) PROVE TypeOK'
  <2>1. PICK f \in Findings :
          /\ recheck' = [recheck EXCEPT ![r][<<loop[r].target, f>>] = "running"]
          /\ \/ /\ queue' = Append(queue, r)
                /\ loop' = [loop EXCEPT ![r].pc = "queued", ![r].job = f,
                                        ![r].retried = FALSE]
             \/ /\ loop' = [loop EXCEPT ![r].pc = "resolved", ![r].job = f,
                                        ![r].result = "failed"]
                /\ UNCHANGED queue
    BY <1>16 DEF ClaimRecheck, PendingRechecks
  <2>2. f \in 0 .. NumFindings
    BY ConstantsAssumption DEF Findings
  <2>3. /\ [loop[r] EXCEPT !.pc = "queued", !.job = f, !.retried = FALSE] \in Loop
        /\ [loop[r] EXCEPT !.pc = "resolved", !.job = f, !.result = "failed"] \in Loop
    BY <1>b, <2>2 DEF Loop, Pc
  <2>4. loop' \in [Runs -> Loop]
    BY <1>a, <2>1, <2>3
  <2>5. recheck' \in [Runs -> [Slots -> RecheckStatus]]
    BY <1>a, <2>1 DEF RecheckStatus
  <2>6. queue' \in Seq(Runs)
    BY <1>a, <1>c, <2>1
  <2> QED BY <1>16, <2>4, <2>5, <2>6, <1>t DEF ClaimRecheck, TypeOK
<1>17. ASSUME NEW r \in Runs, SaveCheck(r) PROVE TypeOK'
  <2>1. loop[r].result \in CheckStatus
    BY <1>b DEF Loop, CheckStatus
  <2>2. check' \in [Runs -> [CheckUnits -> CheckStatus]]
    BY <1>17, <1>a, <2>1 DEF SaveCheck
  <2>3. AfterSave(loop[r], "settle") \in Loop
    BY <1>b, AfterSaveType DEF Pc
  <2>4. PICK new \in [Findings -> FindingState] :
          /\ finding' = [finding EXCEPT ![r] =
               [s \in Slots |-> IF loop[r].result = "done" /\ s[1] = loop[r].target
                                THEN new[s[2]] ELSE @[s]]]
          /\ recheck' = [recheck EXCEPT ![r] =
               [s \in Slots |-> IF /\ loop[r].result = "done" /\ s[1] = loop[r].target
                                   /\ @[s] = "none" /\ new[s[2]] = "unlocated"
                                THEN IF row[r].recheckOn THEN "unlocated" ELSE "disabled"
                                ELSE @[s]]]
    BY <1>17 DEF SaveCheck
  <2>5. \A s \in Slots : s[2] \in Findings
    BY DEF Slots
  <2>6. finding' \in [Runs -> [Slots -> FindingState]]
    BY <1>a, <2>4, <2>5
  <2>7. recheck' \in [Runs -> [Slots -> RecheckStatus]]
    BY <1>a, <2>4 DEF RecheckStatus
  <2> QED BY <1>17, <2>2, <2>3, <2>6, <2>7, <1>t DEF SaveCheck, TypeOK
<1>18. ASSUME NEW r \in Runs, SaveRecheck(r) PROVE TypeOK'
  <2>1. AfterSave(loop[r], "recheck") \in Loop
    BY <1>b, AfterSaveType DEF Pc
  <2>2. loop[r].result \in {"pending", "done", "failed"}
    BY <1>18, <1>b DEF SaveRecheck, Loop, IInv, TooLongIsACheck
  <2>3. recheck' \in [Runs -> [Slots -> RecheckStatus]]
    BY <1>18, <1>a, <2>2 DEF SaveRecheck, RecheckStatus
  <2> QED BY <1>18, <2>1, <2>3, <1>t DEF SaveRecheck, TypeOK
<1>19. ASSUME NEW r \in Runs, FinalizeRun(r) PROVE TypeOK'
  <2>1. \A b : StatusForUnconfirmed(b) \in RunStatus
    BY DEF StatusForUnconfirmed, RunStatus
  <2>2. PICK st \in RunStatus, b \in BOOLEAN : row' = FinishRow(r, st, b)
    BY <1>19, <2>1 DEF FinalizeRun, RunStatus
  <2>3. row' \in [Runs -> Row]
    BY <1>a, <2>2, FinishRowType
  <2> QED BY <1>19, <2>3, NoLoopType, <1>t DEF FinalizeRun, TypeOK
<1>20. ASSUME NEW r \in Runs, CancelQueued(r) PROVE TypeOK'
  <2>1. queue' \in Seq(Runs)
    BY <1>20, <1>a, RemoveAtLemma DEF CancelQueued
  <2>2. loop' \in [Runs -> Loop]
    BY <1>20, <1>a, ResolveType DEF CancelQueued, Halt
  <2> QED BY <1>20, <2>1, <2>2, <1>t DEF CancelQueued, TypeOK
<1>21. ASSUME NEW r \in Runs, TakeTurn(r) PROVE TypeOK'
  <2>1. [loop[r] EXCEPT !.pc = "ensure"] \in Loop
    BY <1>b DEF Loop, Pc
  <2>2. loop' \in [Runs -> Loop]
    BY <1>21, <1>a, <2>1, ResolveType DEF TakeTurn, Halt
  <2>3. queue' \in Seq(Runs)
    BY <1>21, <1>a, <1>d DEF TakeTurn, HasTurn
  <2> QED BY <1>21, <2>2, <2>3, <1>t DEF TakeTurn, TypeOK
<1>22. ASSUME NEW r \in Runs, EnsureLoaded(r) PROVE TypeOK'
  <2>1. [loop[r] EXCEPT !.pc = "chat"] \in Loop
    BY <1>b DEF Loop, Pc
  <2>2. loop' \in [Runs -> Loop]
    BY <1>22, <1>a, <2>1, ResolveType DEF EnsureLoaded, Halt
  <2>3. queue' \in Seq(Runs)
    BY <1>22, <1>a, <1>d, <1>e DEF AtWork, EnsureLoaded
  <2> QED BY <1>22, <2>2, <2>3, <1>t DEF EnsureLoaded, TypeOK
<1>23. ASSUME NEW r \in Runs, ChatAnswered(r) PROVE TypeOK'
  <2>1. \A a \in Answers(r) :
          a[1] \in {"pending", "done", "failed", "tooLong"} /\ a[2] \in Halt
    BY DEF Answers, Halt
  <2>2. loop' \in [Runs -> Loop]
    BY <1>23, <1>a, <2>1, ResolveType DEF ChatAnswered
  <2>3. queue' \in Seq(Runs)
    BY <1>23, <1>a, <1>d, <1>e DEF AtWork, ChatAnswered
  <2> QED BY <1>23, <2>2, <2>3, <1>t DEF ChatAnswered, TypeOK
<1>24. ASSUME NEW r \in Runs, RetryChat(r) PROVE TypeOK'
  <2>1. [loop[r] EXCEPT !.pc = "ensure", !.retried = TRUE] \in Loop
    BY <1>b DEF Loop, Pc
  <2>2. loop' \in [Runs -> Loop]
    BY <1>24, <1>a, <2>1, ResolveType DEF RetryChat, Halt
  <2>3. queue' \in Seq(Runs)
    BY <1>24, <1>a, <1>d, <1>e DEF AtWork, RetryChat
  <2> QED BY <1>24, <2>2, <2>3, <1>t DEF RetryChat, TypeOK
<1>25. ASSUME NEW r \in Runs, ChatLost(r) PROVE TypeOK'
  <2>1. loop' \in [Runs -> Loop]
    BY <1>25, <1>a, ResolveType DEF ChatLost, Halt
  <2>2. queue' \in Seq(Runs)
    BY <1>25, <1>a, <1>d, <1>e DEF AtWork, ChatLost
  <2> QED BY <1>25, <2>1, <2>2, <1>t DEF ChatLost, TypeOK
<1>26. ASSUME NEW r \in Runs, InternalError(r) PROVE TypeOK'
  <2>1. FinishRow(r, StatusForUnconfirmed(r \in gate), FALSE) \in [Runs -> Row]
    BY <1>a, FinishRowType DEF StatusForUnconfirmed, RunStatus
  <2>2. loop' \in [Runs -> Loop]
    BY <1>26, <1>a, NoLoopType DEF InternalError
  <2>3. CASE UNCHANGED dbVars
    BY <1>26, <2>2, <2>3, <1>t DEF InternalError, TypeOK
  <2>4. CASE /\ row' = FinishRow(r, StatusForUnconfirmed(r \in gate), FALSE)
             /\ ResetRunningUnits(r)
    <3>1. /\ check' \in [Runs -> [CheckUnits -> CheckStatus]]
          /\ recheck' \in [Runs -> [Slots -> RecheckStatus]]
          /\ finding' \in [Runs -> [Slots -> FindingState]]
      BY <1>a, <2>4, ResetType
    <3> QED BY <1>26, <2>1, <2>2, <2>4, <3>1, <1>t DEF InternalError, TypeOK
  <2> QED BY <1>26, <2>3, <2>4 DEF InternalError
<1>27. ASSUME NEW r \in Runs, ReconcileRun(r) PROVE TypeOK'
  <2>1. row' \in [Runs -> Row]
    BY <1>27, <1>a, FinishRowType DEF ReconcileRun, StatusForUnconfirmed, RunStatus
  <2>2. /\ check' \in [Runs -> [CheckUnits -> CheckStatus]]
        /\ recheck' \in [Runs -> [Slots -> RecheckStatus]]
        /\ finding' \in [Runs -> [Slots -> FindingState]]
    BY <1>27, <1>a, ResetType DEF ReconcileRun
  <2> QED BY <1>27, <2>1, <2>2, <1>t DEF ReconcileRun, TypeOK
<1>28. CASE ChangeConnection
  BY <1>28, <1>t DEF ChangeConnection, TypeOK
<1>29. CASE Crash
  BY <1>29, EmptySeq, NoLoopType, <1>t DEF Crash, TypeOK
<1>30. CASE Boot
  BY <1>30, <1>t DEF Boot, TypeOK
<1>31. CASE Listen
  BY <1>31, <1>t DEF Listen, TypeOK
<1>32. CASE UNCHANGED vars
  BY <1>32, <1>t DEF vars, TypeOK
<1> QED BY <1>1, <1>2, <1>3, <1>4, <1>5, <1>6, <1>7, <1>8, <1>9, <1>10, <1>11, <1>12, <1>13, <1>14, <1>15, <1>16, <1>17, <1>18, <1>19, <1>20, <1>21, <1>22, <1>23, <1>24, <1>25, <1>26, <1>27, <1>28, <1>29, <1>30, <1>31, <1>32
       DEF Next, UserStep, LoopStep, RequestStep

-----------------------------------------------------------------------------
(* The seats of the queue                                                   *)

LEMMA TailIsRemoveAt ==
  ASSUME NEW S, NEW q \in Seq(S), q # <<>> PROVE Tail(q) = RemoveAt(q, 1)
<1>1. 1 \in 1 .. Len(q) /\ Len(q) \in Nat
  BY TailLemma
<1>2. \A k \in 1 .. Len(q) - 1 : Tail(q)[k] = RemoveAt(q, 1)[k]
  BY <1>1, TailLemma, RemoveAtLemma
<1>3. /\ Tail(q) \in Seq(S) /\ RemoveAt(q, 1) \in Seq(S)
      /\ Len(Tail(q)) = Len(q) - 1 /\ Len(RemoveAt(q, 1)) = Len(q) - 1
  BY <1>1, TailLemma, RemoveAtLemma
<1> QED BY <1>2, <1>3, SeqEqual

LEMMA SeatsKept ==
  ASSUME SeatsHeld, queue \in Seq(Runs), queue' = queue,
         \A q \in Runs : (Seated(q)' <=> Seated(q)) /\ (AtWork(q)' => AtWork(q))
  PROVE  SeatsHeld'
<1>1. \A i \in 1 .. Len(queue) : queue[i] \in Runs
  OBVIOUS
<1>2. /\ (\A r \in Runs : Seated(r) => \E i \in 1 .. Len(queue) : queue[i] = r)'
      /\ (\A i \in 1 .. Len(queue) : Seated(queue[i]))'
      /\ (\A i, j \in 1 .. Len(queue) : queue[i] = queue[j] => i = j)'
      /\ (\A r \in Runs : AtWork(r) => queue # <<>> /\ queue[1] = r)'
  BY <1>1 DEF SeatsHeld
<1> QED BY <1>2 DEF SeatsHeld

LEMMA SeatTaken ==
  ASSUME SeatsHeld, queue \in Seq(Runs), NEW r \in Runs, queue' = Append(queue, r),
         ~Seated(r), Seated(r)', ~AtWork(r)',
         \A q \in Runs \ {r} : (Seated(q)' <=> Seated(q)) /\ (AtWork(q)' => AtWork(q))
  PROVE  SeatsHeld'
<1>1. /\ Len(queue) \in Nat /\ Len(queue') = Len(queue) + 1
      /\ \A i \in 1 .. Len(queue) : queue'[i] = queue[i] /\ queue[i] \in Runs
      /\ queue'[Len(queue) + 1] = r
  BY AppendProperties, ElementOfSeq, LenProperties
<1>2. \A i \in 1 .. Len(queue) : queue[i] # r
  BY DEF SeatsHeld
<1>3. ASSUME NEW q \in Runs, Seated(q)' PROVE \E i \in 1 .. Len(queue') : queue'[i] = q
  BY <1>1, <1>3 DEF SeatsHeld
<1>4. (\A i \in 1 .. Len(queue) : Seated(queue[i]))'
  <2> SUFFICES ASSUME NEW i \in 1 .. Len(queue')
               PROVE  loop'[queue'[i]].pc \in {"queued", "ensure", "chat"}
    BY DEF Seated
  <2>1. CASE i \in 1 .. Len(queue)
    BY <1>1, <1>2, <2>1 DEF SeatsHeld, Seated
  <2>2. CASE i = Len(queue) + 1
    BY <1>1, <2>2 DEF Seated
  <2> QED BY <1>1, <2>1, <2>2
<1>5. ASSUME NEW i \in 1 .. Len(queue'), NEW j \in 1 .. Len(queue'), queue'[i] = queue'[j]
      PROVE  i = j
  BY <1>1, <1>2, <1>5 DEF SeatsHeld
<1>6. ASSUME NEW q \in Runs, AtWork(q)' PROVE queue' # <<>> /\ queue'[1] = q
  <2>1. q # r /\ queue # <<>> /\ queue[1] = q
    BY <1>6 DEF SeatsHeld
  <2>2. 1 \in 1 .. Len(queue)
    BY <2>1, TailLemma
  <2> QED BY <1>1, <2>1, <2>2, EmptySeq
<1> QED BY <1>3, <1>4, <1>5, <1>6 DEF SeatsHeld

LEMMA SeatLeft ==
  ASSUME SeatsHeld, queue \in Seq(Runs), NEW r \in Runs, NEW k \in 1 .. Len(queue),
         queue[k] = r, queue' = RemoveAt(queue, k), ~Seated(r)', ~AtWork(r)',
         \A q \in Runs \ {r} : (Seated(q)' <=> Seated(q)) /\ (AtWork(q)' => AtWork(q))
  PROVE  SeatsHeld'
<1> DEFINE old(i) == IF i < k THEN i ELSE i + 1
<1>0. Len(queue) \in Nat /\ \A i \in 1 .. Len(queue) : queue[i] \in Runs
  BY ElementOfSeq, LenProperties
<1>1. /\ queue' \in Seq(Runs) /\ Len(queue') = Len(queue) - 1
      /\ \A i \in 1 .. Len(queue') : queue'[i] = queue[old(i)]
  BY RemoveAtLemma
<1>2. \A i \in 1 .. Len(queue') : old(i) \in 1 .. Len(queue) /\ old(i) # k
  BY <1>0, <1>1
<1>3. \A i, j \in 1 .. Len(queue') : old(i) = old(j) => i = j
  BY <1>0, <1>1
<1>4. \A i \in 1 .. Len(queue) : i # k => \E j \in 1 .. Len(queue') : old(j) = i
  <2> SUFFICES ASSUME NEW i \in 1 .. Len(queue), i # k
               PROVE  \E j \in 1 .. Len(queue') : old(j) = i
    OBVIOUS
  <2>1. CASE i < k
    BY <2>1, <1>0, <1>1
  <2>2. CASE i > k
    <3>1. i - 1 \in 1 .. Len(queue') /\ old(i - 1) = i
      BY <2>2, <1>0, <1>1
    <3> QED BY <3>1
  <2> QED BY <2>1, <2>2, <1>0
<1> HIDE DEF old
<1>5. \A i \in 1 .. Len(queue) : i # k => queue[i] # r
  BY DEF SeatsHeld
<1>6. ASSUME NEW q \in Runs, Seated(q)' PROVE \E i \in 1 .. Len(queue') : queue'[i] = q
  <2>1. PICK i \in 1 .. Len(queue) : queue[i] = q
    BY <1>6 DEF SeatsHeld
  <2>2. i # k
    BY <1>6, <2>1
  <2> QED BY <1>1, <1>4, <2>1, <2>2
<1>7. (\A i \in 1 .. Len(queue) : Seated(queue[i]))'
  <2> SUFFICES ASSUME NEW i \in 1 .. Len(queue')
               PROVE  loop'[queue'[i]].pc \in {"queued", "ensure", "chat"}
    BY DEF Seated
  <2>1. old(i) \in 1 .. Len(queue) /\ old(i) # k /\ queue'[i] = queue[old(i)]
    BY <1>1, <1>2
  <2>2. queue'[i] \in Runs \ {r}
    BY <1>0, <1>5, <2>1
  <2>3. Seated(queue'[i])
    BY <2>1 DEF SeatsHeld
  <2> QED BY <2>2, <2>3 DEF Seated
<1>8. ASSUME NEW i \in 1 .. Len(queue'), NEW j \in 1 .. Len(queue'), queue'[i] = queue'[j]
      PROVE  i = j
  <2>1. queue[old(i)] = queue[old(j)]
    BY <1>1, <1>8
  <2>2. old(i) = old(j)
    BY <1>2, <2>1 DEF SeatsHeld
  <2> QED BY <1>3, <2>2
<1>9. ASSUME NEW q \in Runs, AtWork(q)' PROVE queue' # <<>> /\ queue'[1] = q
  <2>1. q # r /\ queue # <<>> /\ queue[1] = q
    BY <1>9 DEF SeatsHeld
  <2>2. 1 < k /\ 1 \in 1 .. Len(queue')
    BY <2>1, <1>0, <1>1
  <2>3. queue'[1] = q
    BY <2>1, <2>2, <1>1 DEF old
  <2> QED BY <2>2, <2>3, <1>1, EmptySeq
<1> QED BY <1>6, <1>7, <1>8, <1>9 DEF SeatsHeld

LEMMA HeadLeft ==
  ASSUME SeatsHeld, queue \in Seq(Runs), NEW r \in Runs, queue # <<>>,
         Head(queue) = r, queue' = Tail(queue), ~Seated(r)', ~AtWork(r)',
         \A q \in Runs \ {r} : (Seated(q)' <=> Seated(q)) /\ (AtWork(q)' => AtWork(q))
  PROVE  SeatsHeld'
  BY TailLemma, TailIsRemoveAt, SeatLeft

LEMMA NextSeatsHeld == IInv /\ [Next]_vars => SeatsHeld'
<1> SUFFICES ASSUME IInv, [Next]_vars PROVE SeatsHeld'
  OBVIOUS
<1>a. /\ SeatsHeld /\ queue \in Seq(Runs) /\ LiveRows
      /\ loop \in [Runs -> Loop] /\ row \in [Runs -> Row]
  BY DEF IInv, TypeOK
<1>b. \A r \in Runs : AtWork(r) => queue # <<>> /\ Head(queue) = r
  BY <1>a, TailLemma DEF SeatsHeld
<1>c. \A r \in Runs : loop[r].pc = "off" <=> ~Registered(r)
  BY DEF Registered
<1> USE DEF Seated, AtWork, dbVars, unitVars, processVars, historyVars
<1>1. ASSUME NEW r \in Runs, StartRun(r) PROVE SeatsHeld'
  <2>1. loop' = loop \/ Launch(r)
    BY <1>1 DEF StartRun
  <2>2. ~Registered(r)
    BY <1>1, <1>a DEF StartRun, LiveRows
  <2> QED BY <1>1, <2>1, <2>2, <1>a, <1>c, SeatsKept DEF StartRun, Launch, NoLoop
<1>2. ASSUME NEW r \in Runs, StopRun(r) PROVE SeatsHeld'
  BY <1>2, <1>a, SeatsKept DEF StopRun
<1>3. ASSUME NEW r \in Runs, ConfirmRecovery(r) PROVE SeatsHeld'
  BY <1>3, <1>a, SeatsKept DEF ConfirmRecovery
<1>4. ASSUME NEW r \in Runs, ResumeRun(r) PROVE SeatsHeld'
  <2>1. loop' = loop \/ Launch(r)
    BY <1>4 DEF ResumeRun
  <2> QED BY <1>4, <2>1, <1>a, <1>c, SeatsKept DEF ResumeRun, Launch, NoLoop
<1>5. ASSUME NEW r \in Runs, RetryFailedUnits(r) PROVE SeatsHeld'
  <2>1. Launch(r) /\ ~Registered(r) /\ queue' = queue
    BY <1>5 DEF RetryFailedUnits
  <2> QED BY <2>1, <1>a, <1>c, SeatsKept DEF Launch, NoLoop
<1>6. ASSUME NEW r \in Runs, DeleteRun(r) PROVE SeatsHeld'
  BY <1>6, <1>a, SeatsKept DEF DeleteRun
<1>7. ASSUME NEW r \in Runs, BeginLoop(r) PROVE SeatsHeld'
  BY <1>7, <1>a, SeatsKept DEF BeginLoop
<1>8. ASSUME NEW r \in Runs, StopBeforeUnit(r) PROVE SeatsHeld'
  BY <1>8, <1>a, SeatsKept DEF StopBeforeUnit
<1>9. ASSUME NEW r \in Runs, SkipUnit(r) PROVE SeatsHeld'
  BY <1>9, <1>a, SeatsKept DEF SkipUnit
<1>10. ASSUME NEW r \in Runs, ClaimUnit(r) PROVE SeatsHeld'
  BY <1>10, <1>a, SeatTaken DEF ClaimUnit
<1>11. ASSUME NEW r \in Runs, EndOfPerspectives(r) PROVE SeatsHeld'
  BY <1>11, <1>a, SeatsKept DEF EndOfPerspectives
<1>12. ASSUME NEW r \in Runs, SettleNothing(r) PROVE SeatsHeld'
  BY <1>12, <1>a, SeatsKept DEF SettleNothing, Advance
<1>13. ASSUME NEW r \in Runs, IssueRechecks(r) PROVE SeatsHeld'
  BY <1>13, <1>a, SeatsKept DEF IssueRechecks
<1>14. ASSUME NEW r \in Runs, RechecksDone(r) PROVE SeatsHeld'
  BY <1>14, <1>a, SeatsKept DEF RechecksDone, Advance
<1>15. ASSUME NEW r \in Runs, StopBeforeRecheck(r) PROVE SeatsHeld'
  BY <1>15, <1>a, SeatsKept DEF StopBeforeRecheck
<1>16. ASSUME NEW r \in Runs, ClaimRecheck(r) PROVE SeatsHeld'
  <2>1. PICK f \in Findings :
          \/ /\ queue' = Append(queue, r)
             /\ loop' = [loop EXCEPT ![r].pc = "queued", ![r].job = f,
                                     ![r].retried = FALSE]
          \/ /\ loop' = [loop EXCEPT ![r].pc = "resolved", ![r].job = f,
                                     ![r].result = "failed"]
             /\ UNCHANGED queue
    BY <1>16 DEF ClaimRecheck, PendingRechecks
  <2>2. ~Seated(r) /\ ~AtWork(r)
    BY <1>16 DEF ClaimRecheck
  <2>3. CASE /\ queue' = Append(queue, r)
             /\ loop' = [loop EXCEPT ![r].pc = "queued", ![r].job = f,
                                     ![r].retried = FALSE]
    BY <2>2, <2>3, <1>a, SeatTaken
  <2>4. CASE /\ queue' = queue
             /\ loop' = [loop EXCEPT ![r].pc = "resolved", ![r].job = f,
                                     ![r].result = "failed"]
    BY <2>2, <2>4, <1>a, SeatsKept
  <2> QED BY <2>1, <2>3, <2>4
<1>17. ASSUME NEW r \in Runs, SaveCheck(r) PROVE SeatsHeld'
  BY <1>17, <1>a, SeatsKept DEF SaveCheck, AfterSave
<1>18. ASSUME NEW r \in Runs, SaveRecheck(r) PROVE SeatsHeld'
  BY <1>18, <1>a, SeatsKept DEF SaveRecheck, AfterSave
<1>19. ASSUME NEW r \in Runs, FinalizeRun(r) PROVE SeatsHeld'
  BY <1>19, <1>a, SeatsKept DEF FinalizeRun, NoLoop
<1>20. ASSUME NEW r \in Runs, CancelQueued(r) PROVE SeatsHeld'
  <2>1. PICK k \in 1 .. Len(queue) : queue[k] = r /\ queue' = RemoveAt(queue, k)
    BY <1>20, <1>a, LenProperties DEF CancelQueued
  <2> QED BY <1>20, <2>1, <1>a, SeatLeft DEF CancelQueued, Resolve
<1>21. ASSUME NEW r \in Runs, TakeTurn(r) PROVE SeatsHeld'
  <2>1. CASE gate # {} /\ queue' = Tail(queue) /\ Resolve(r, "pending", "stop")
    BY <1>21, <2>1, <1>a, HeadLeft DEF TakeTurn, HasTurn, Resolve
  <2>2. CASE queue' = queue /\ loop' = [loop EXCEPT ![r].pc = "ensure"]
    <3>1. queue # <<>> /\ queue[1] = r
      BY <1>21, <1>a, TailLemma DEF TakeTurn, HasTurn
    <3>2. \A q \in Runs : loop'[q].pc = IF q = r THEN "ensure" ELSE loop[q].pc
      BY <2>2, <1>a
    <3>3. \A q \in Runs : AtWork(q) => q = r
      BY <3>1, <1>a DEF SeatsHeld
    <3>4. loop[r].pc = "queued"
      BY <1>21 DEF TakeTurn
    <3> QED BY <1>a, <2>2, <3>1, <3>2, <3>3, <3>4 DEF SeatsHeld
  <2> QED BY <1>21, <2>1, <2>2 DEF TakeTurn
<1>22. ASSUME NEW r \in Runs, EnsureLoaded(r) PROVE SeatsHeld'
  <2>1. CASE queue' = Tail(queue) /\ \E halt \in {"stop", "settings"} : Resolve(r, "pending", halt)
    BY <1>22, <2>1, <1>a, <1>b, HeadLeft DEF EnsureLoaded, Resolve
  <2>2. CASE queue' = queue /\ loop' = [loop EXCEPT ![r].pc = "chat"]
    BY <1>22, <2>2, <1>a, SeatsKept DEF EnsureLoaded
  <2> QED BY <1>22, <2>1, <2>2 DEF EnsureLoaded
<1>23. ASSUME NEW r \in Runs, ChatAnswered(r) PROVE SeatsHeld'
  BY <1>23, <1>a, <1>b, HeadLeft DEF ChatAnswered, Resolve
<1>24. ASSUME NEW r \in Runs, RetryChat(r) PROVE SeatsHeld'
  <2>1. CASE queue' = Tail(queue) /\ Resolve(r, "failed", "stop")
    BY <1>24, <2>1, <1>a, <1>b, HeadLeft DEF RetryChat, Resolve
  <2>2. CASE queue' = queue /\ loop' = [loop EXCEPT ![r].pc = "ensure", ![r].retried = TRUE]
    BY <1>24, <2>2, <1>a, SeatsKept DEF RetryChat
  <2> QED BY <1>24, <2>1, <2>2 DEF RetryChat
<1>25. ASSUME NEW r \in Runs, ChatLost(r) PROVE SeatsHeld'
  BY <1>25, <1>a, <1>b, HeadLeft DEF ChatLost, Resolve
<1>26. ASSUME NEW r \in Runs, InternalError(r) PROVE SeatsHeld'
  BY <1>26, <1>a, SeatsKept DEF InternalError, NoLoop
<1>27. ASSUME NEW r \in Runs, ReconcileRun(r) PROVE SeatsHeld'
  BY <1>27, <1>a, SeatsKept DEF ReconcileRun
<1>28. CASE ChangeConnection
  BY <1>28, <1>a, SeatsKept DEF ChangeConnection
<1>29. CASE Crash
  BY <1>29, <1>a DEF Crash, SeatsHeld, NoLoop
<1>30. CASE Boot
  BY <1>30, <1>a, SeatsKept DEF Boot
<1>31. CASE Listen
  BY <1>31, <1>a, SeatsKept DEF Listen
<1>32. CASE UNCHANGED vars
  BY <1>32, <1>a, SeatsKept DEF vars
<1> QED BY <1>1, <1>2, <1>3, <1>4, <1>5, <1>6, <1>7, <1>8, <1>9, <1>10, <1>11, <1>12, <1>13, <1>14, <1>15, <1>16, <1>17, <1>18, <1>19, <1>20, <1>21, <1>22, <1>23, <1>24, <1>25, <1>26, <1>27, <1>28, <1>29, <1>30, <1>31, <1>32
       DEF Next, UserStep, LoopStep, RequestStep

-----------------------------------------------------------------------------
(* Registry, gate and rows                                                  *)

Control ==
  /\ QuietWhenNotUp
  /\ LiveRows
  /\ GateOfLoops
  /\ GateMatchesRows
  /\ OrphansShown
  /\ WorksAsPinned
  /\ StopShownIsStopKnown

(* The steps a loop takes on its own: they leave the rows' columns, the     *)
(* gate and the settings alone and neither enter nor leave the registry.    *)
OwnStep(r) ==
  /\ phase = "up"
  /\ UNCHANGED <<row, endpoint, phase, version, gate, orphans, forgotten>>
  /\ \A q \in Runs \ {r} : loop'[q] = loop[q]
  /\ loop[r].pc # "off" /\ loop'[r].pc # "off"
  /\ loop'[r].stopReq = loop[r].stopReq
  /\ loop'[r].halt = "unconfirmed" <=> loop[r].halt = "unconfirmed"
  /\ loop'[r].halt = "unconfirmed" => loop'[r].pc \in {"resolved", "finish"}
  /\ AtWork(r)' => AtWork(r) \/ gate = {}
  /\ loop'[r].pc = "chat" /\ loop[r].pc # "chat" => loop[r].pc = "ensure" /\ ~loop[r].stopReq

LEMMA OwnStepControl ==
  ASSUME IInv, NEW r \in Runs, OwnStep(r) PROVE Control'
<1> USE DEF IInv, OwnStep
<1>1. QuietWhenNotUp'
  BY DEF QuietWhenNotUp
<1>2. LiveRows'
  BY DEF LiveRows, Registered
<1>3. GateOfLoops'
  <2>1. (\E q \in Runs : AtWork(q)') => gate' = {}
    BY DEF GateOfLoops, AtWork
  <2>2. \A q \in Runs : /\ loop'[q].pc # "off" => (q \in gate' <=> loop'[q].halt = "unconfirmed")
                        /\ loop'[q].halt = "unconfirmed" => loop'[q].pc \in {"resolved", "finish"}
    BY DEF GateOfLoops, Registered
  <2> QED BY <2>1, <2>2 DEF GateOfLoops, Registered
<1>4. GateMatchesRows'
  BY DEF GateMatchesRows
<1>5. OrphansShown'
  BY DEF OrphansShown
<1>6. WorksAsPinned' /\ StopShownIsStopKnown'
  BY DEF WorksAsPinned, StopShownIsStopKnown, Registered
<1> QED BY <1>1, <1>2, <1>3, <1>4, <1>5, <1>6 DEF Control

LEMMA LoopStepsAreOwn ==
  ASSUME IInv, NEW r \in Runs,
         \/ LoopStep(r) /\ ~FinalizeRun(r)
         \/ RequestStep(r) /\ ~ChatLost(r)
  PROVE  OwnStep(r)
<1>a. loop \in [Runs -> Loop] /\ loop[r] \in Loop
  BY DEF IInv, TypeOK
<1>b. loop[r].halt = "unconfirmed" => loop[r].pc \in {"resolved", "finish"}
  BY DEF IInv, GateOfLoops
<1> USE DEF OwnStep, AtWork, MayStep, SignalAborted, dbVars, unitVars, processVars, historyVars
<1>1. CASE BeginLoop(r)
  BY <1>1, <1>a, <1>b DEF Loop, BeginLoop
<1>2. CASE StopBeforeUnit(r)
  BY <1>2, <1>a, <1>b DEF Loop, StopBeforeUnit
<1>3. CASE SkipUnit(r)
  BY <1>3, <1>a, <1>b DEF Loop, SkipUnit
<1>4. CASE ClaimUnit(r)
  BY <1>4, <1>a, <1>b DEF Loop, ClaimUnit
<1>5. CASE EndOfPerspectives(r)
  BY <1>5, <1>a, <1>b DEF Loop, EndOfPerspectives
<1>6. CASE SettleNothing(r)
  BY <1>6, <1>a, <1>b DEF Loop, SettleNothing, Advance
<1>7. CASE IssueRechecks(r)
  BY <1>7, <1>a, <1>b DEF Loop, IssueRechecks
<1>8. CASE RechecksDone(r)
  BY <1>8, <1>a, <1>b DEF Loop, RechecksDone, Advance
<1>9. CASE StopBeforeRecheck(r)
  BY <1>9, <1>a, <1>b DEF Loop, StopBeforeRecheck
<1>10. CASE ClaimRecheck(r)
  BY <1>10, <1>a, <1>b DEF Loop, ClaimRecheck
<1>11. CASE SaveCheck(r)
  BY <1>11, <1>a, <1>b DEF Loop, SaveCheck, AfterSave
<1>12. CASE SaveRecheck(r)
  BY <1>12, <1>a, <1>b DEF Loop, SaveRecheck, AfterSave
<1>13. CASE CancelQueued(r)
  BY <1>13, <1>a, <1>b DEF Loop, CancelQueued, Resolve
<1>14. CASE TakeTurn(r)
  BY <1>14, <1>a, <1>b DEF Loop, TakeTurn, Resolve
<1>15. CASE EnsureLoaded(r)
  BY <1>15, <1>a, <1>b DEF Loop, EnsureLoaded, Resolve
<1>16. CASE ChatAnswered(r)
  BY <1>16, <1>a, <1>b DEF Loop, ChatAnswered, Answers, Resolve
<1>17. CASE RetryChat(r)
  BY <1>17, <1>a, <1>b DEF Loop, RetryChat, Resolve
<1> QED BY <1>1, <1>2, <1>3, <1>4, <1>5, <1>6, <1>7, <1>8, <1>9, <1>10, <1>11, <1>12, <1>13, <1>14, <1>15, <1>16, <1>17
       DEF LoopStep, RequestStep

LEMMA NextControl == IInv /\ [Next]_vars => Control'
<1> SUFFICES ASSUME IInv, [Next]_vars PROVE Control'
  OBVIOUS
<1>a. /\ loop \in [Runs -> Loop] /\ row \in [Runs -> Row] /\ gate \in SUBSET Runs
      /\ \A r \in Runs : loop[r] \in Loop /\ row[r] \in Row
      /\ orphans \in SUBSET Runs
  BY DEF IInv, TypeOK
<1>b. /\ QuietWhenNotUp /\ LiveRows /\ GateOfLoops /\ GateMatchesRows
      /\ OrphansShown /\ WorksAsPinned /\ StopShownIsStopKnown
  BY DEF IInv
<1>c. \A r \in Runs : loop[r] = NoLoop => loop[r].pc = "off"
  BY DEF NoLoop
<1>d. \A q, r \in Runs : AtWork(q) /\ AtWork(r) => q = r
  BY DEF IInv, SeatsHeld
<1>t. /\ check \in [Runs -> [CheckUnits -> CheckStatus]]
      /\ recheck \in [Runs -> [Slots -> RecheckStatus]]
  BY DEF IInv, TypeOK
<1> USE DEF Registered, AtWork, dbVars, unitVars, processVars, historyVars
<1>1. ASSUME NEW r \in Runs, StartRun(r) PROVE Control'
  <2>1. row'[r].stopAt = FALSE
    BY <1>1, <1>a DEF StartRun
  <2>2. /\ \A q \in Runs \ {r} : row'[q] = row[q] /\ loop'[q] = loop[q]
        /\ loop'[r] = loop[r] \/ loop'[r].stopReq = FALSE
    BY <1>1, <1>a DEF StartRun, Launch, NoLoop
  <2>3. loop[r].pc = "off"
    BY <1>1, <1>b DEF StartRun, LiveRows
  <2>4. QuietWhenNotUp'
    BY <1>1, <1>a, <1>b, <2>1, <2>2, <2>3 DEF StartRun, Launch, NoLoop, Serving, GateMatchesRows, Row, QuietWhenNotUp
  <2>5. LiveRows'
    BY <1>1, <1>a, <1>b, <2>1, <2>2, <2>3 DEF StartRun, Launch, NoLoop, Serving, GateMatchesRows, Row, LiveRows
  <2>6. GateOfLoops'
    BY <1>1, <1>a, <1>b, <2>1, <2>2, <2>3 DEF StartRun, Launch, NoLoop, Serving, GateMatchesRows, Row, GateOfLoops
  <2>7. GateMatchesRows'
    BY <1>1, <1>a, <1>b, <2>1, <2>2, <2>3 DEF StartRun, Launch, NoLoop, Serving, Row, GateMatchesRows
  <2>8. OrphansShown'
    BY <1>1, <1>a, <1>b, <2>1, <2>2, <2>3 DEF StartRun, Launch, NoLoop, Serving, GateMatchesRows, Row, OrphansShown
  <2>9. WorksAsPinned'
    BY <1>1, <1>a, <1>b, <2>1, <2>2, <2>3 DEF StartRun, Launch, NoLoop, Serving, GateMatchesRows, Row, WorksAsPinned
  <2>10. StopShownIsStopKnown'
    BY <1>1, <1>a, <1>b, <2>1, <2>2, <2>3 DEF StopShownIsStopKnown
  <2> QED BY <2>4, <2>5, <2>6, <2>7, <2>8, <2>9, <2>10 DEF Control
<1>2. ASSUME NEW r \in Runs, StopRun(r) PROVE Control'
  <2>1. QuietWhenNotUp'
    BY <1>2, <1>a, <1>b DEF StopRun, Serving, Row, Loop, QuietWhenNotUp
  <2>2. LiveRows'
    BY <1>2, <1>a, <1>b DEF StopRun, Serving, Row, Loop, LiveRows
  <2>3. GateOfLoops'
    BY <1>2, <1>a, <1>b DEF StopRun, Serving, Row, Loop, GateOfLoops
  <2>4. GateMatchesRows'
    BY <1>2, <1>a, <1>b DEF StopRun, Serving, Row, Loop, GateMatchesRows
  <2>5. OrphansShown'
    BY <1>2, <1>a, <1>b DEF StopRun, Serving, Row, Loop, OrphansShown
  <2>6. WorksAsPinned'
    BY <1>2, <1>a, <1>b DEF StopRun, Serving, Row, Loop, WorksAsPinned
  <2>7. StopShownIsStopKnown'
    BY <1>2, <1>a, <1>b DEF StopRun, Serving, Row, Loop, StopShownIsStopKnown
  <2> QED BY <2>1, <2>2, <2>3, <2>4, <2>5, <2>6, <2>7 DEF Control
<1>3. ASSUME NEW r \in Runs, ConfirmRecovery(r) PROVE Control'
  <2>1. QuietWhenNotUp'
    BY <1>3, <1>a, <1>b DEF ConfirmRecovery, MarkRecoveryConfirmed, Serving, Row, GateOfLoops, QuietWhenNotUp
  <2>2. LiveRows'
    BY <1>3, <1>a, <1>b DEF ConfirmRecovery, MarkRecoveryConfirmed, Serving, Row, GateOfLoops, LiveRows
  <2>3. GateOfLoops'
    BY <1>3, <1>a, <1>b DEF ConfirmRecovery, MarkRecoveryConfirmed, Serving, Row, GateOfLoops
  <2>4. GateMatchesRows'
    BY <1>3, <1>a, <1>b DEF ConfirmRecovery, MarkRecoveryConfirmed, Serving, Row, GateOfLoops, GateMatchesRows
  <2>5. OrphansShown'
    BY <1>3, <1>a, <1>b DEF ConfirmRecovery, MarkRecoveryConfirmed, Serving, Row, GateOfLoops, OrphansShown
  <2>6. WorksAsPinned'
    BY <1>3, <1>a, <1>b DEF ConfirmRecovery, MarkRecoveryConfirmed, Serving, Row, GateOfLoops, WorksAsPinned
  <2>7. StopShownIsStopKnown'
    BY <1>3, <1>a, <1>b DEF ConfirmRecovery, MarkRecoveryConfirmed, Serving, Row, GateOfLoops, StopShownIsStopKnown
  <2> QED BY <2>1, <2>2, <2>3, <2>4, <2>5, <2>6, <2>7 DEF Control
<1>4. ASSUME NEW r \in Runs, ResumeRun(r) PROVE Control'
  <2>1. /\ phase = "up" /\ phase' = "up" /\ loop[r].pc = "off" /\ gate' \in {gate, gate \ {r}}
        /\ \A q \in Runs \ {r} : row'[q] = row[q] /\ loop'[q] = loop[q]
    BY <1>4, <1>a DEF ResumeRun, MarkRecoveryConfirmed, ClaimRun, Launch, Serving
  <2>2. row[r].status \in {"stopped", "recovery-waiting"}
    BY <1>4, <1>a DEF ResumeRun
  <2>3. ASSUME MarkRecoveryConfirmed(r), loop' = loop, row[r].status = "recovery-waiting"
        PROVE  row'[r].status = "recovery-waiting" /\ row'[r].confirmed /\ gate' = gate \ {r}
    BY <1>4, <1>a, <2>3 DEF MarkRecoveryConfirmed, Row
  <2>4. ASSUME ClaimRun(r), Launch(r)
        PROVE  /\ loop'[r].pc = "start" /\ loop'[r].stopReq = FALSE
               /\ row'[r].status = "running" /\ row'[r].stopAt = FALSE
    BY <1>4, <1>a, <2>4 DEF ClaimRun, Launch, NoLoop, Row
  <2>5. \/ /\ loop' = loop /\ row'[r].status = "recovery-waiting" /\ row'[r].confirmed
           /\ gate' = gate \ {r}
        \/ /\ loop'[r].pc = "start" /\ loop'[r].stopReq = FALSE
           /\ row'[r].status = "running" /\ row'[r].stopAt = FALSE
    BY <1>4, <2>3, <2>4 DEF ResumeRun
  <2>6. QuietWhenNotUp'
    BY <1>4, <1>a, <1>b, <2>1, <2>2, <2>3, <2>4, <2>5 DEF ResumeRun, MarkRecoveryConfirmed, ClaimRun, Launch, NoLoop, Serving, Row, StaleVersion, OtherEndpoint, GateMatchesRows, QuietWhenNotUp
  <2>7. LiveRows'
    BY <1>4, <1>a, <1>b, <2>1, <2>2, <2>3, <2>4, <2>5 DEF ResumeRun, MarkRecoveryConfirmed, ClaimRun, Launch, NoLoop, Serving, Row, StaleVersion, OtherEndpoint, GateMatchesRows, LiveRows
  <2>8. GateOfLoops'
    <3>1. CASE loop' = loop
      BY <1>b, <2>1, <3>1 DEF GateOfLoops
    <3>2. CASE ClaimRun(r) /\ Launch(r)
      <4>1. loop'[r].pc = "start" /\ loop'[r].halt = "none"
        BY <1>a, <3>2 DEF Launch, NoLoop
      <4>2. r \notin gate'
        <5>1. CASE row[r].status = "stopped"
          BY <1>b, <2>1, <5>1 DEF GateMatchesRows
        <5>2. CASE row[r].status = "recovery-waiting"
          BY <1>4, <5>2 DEF ResumeRun, MarkRecoveryConfirmed
        <5> QED BY <2>2, <5>1, <5>2
      <4> QED BY <1>b, <2>1, <4>1, <4>2 DEF GateOfLoops
    <3> QED BY <1>4, <3>1, <3>2 DEF ResumeRun
  <2>9. GateMatchesRows'
    BY <1>4, <1>a, <1>b, <2>1, <2>2, <2>3, <2>4, <2>5 DEF GateMatchesRows
  <2>10. OrphansShown'
    BY <1>4, <1>a, <1>b, <2>1, <2>2, <2>3, <2>4, <2>5 DEF ResumeRun, MarkRecoveryConfirmed, ClaimRun, Launch, NoLoop, Serving, Row, StaleVersion, OtherEndpoint, GateMatchesRows, OrphansShown
  <2>11. WorksAsPinned'
    BY <1>4, <1>a, <1>b, <2>1, <2>2, <2>3, <2>4, <2>5 DEF ResumeRun, MarkRecoveryConfirmed, ClaimRun, Launch, NoLoop, Serving, Row, StaleVersion, OtherEndpoint, GateMatchesRows, WorksAsPinned
  <2>12. StopShownIsStopKnown'
    BY <1>4, <1>a, <1>b, <2>1, <2>2, <2>3, <2>4, <2>5 DEF StopShownIsStopKnown
  <2> QED BY <2>6, <2>7, <2>8, <2>9, <2>10, <2>11, <2>12 DEF Control
<1>5. ASSUME NEW r \in Runs, RetryFailedUnits(r) PROVE Control'
  <2>1. QuietWhenNotUp'
    BY <1>5, <1>a, <1>b DEF RetryFailedUnits, ClaimRun, Launch, NoLoop, Serving, Row, StaleVersion, OtherEndpoint, GateMatchesRows, QuietWhenNotUp
  <2>2. LiveRows'
    BY <1>5, <1>a, <1>b DEF RetryFailedUnits, ClaimRun, Launch, NoLoop, Serving, Row, StaleVersion, OtherEndpoint, GateMatchesRows, LiveRows
  <2>3. GateOfLoops'
    BY <1>5, <1>a, <1>b DEF RetryFailedUnits, ClaimRun, Launch, NoLoop, Serving, Row, StaleVersion, OtherEndpoint, GateMatchesRows, GateOfLoops
  <2>4. GateMatchesRows'
    BY <1>5, <1>a, <1>b DEF RetryFailedUnits, ClaimRun, Launch, NoLoop, Serving, Row, StaleVersion, OtherEndpoint, GateMatchesRows
  <2>5. OrphansShown'
    BY <1>5, <1>a, <1>b DEF RetryFailedUnits, ClaimRun, Launch, NoLoop, Serving, Row, StaleVersion, OtherEndpoint, GateMatchesRows, OrphansShown
  <2>6. WorksAsPinned'
    BY <1>5, <1>a, <1>b DEF RetryFailedUnits, ClaimRun, Launch, NoLoop, Serving, Row, StaleVersion, OtherEndpoint, GateMatchesRows, WorksAsPinned
  <2>7. StopShownIsStopKnown'
    <3>1. row'[r].stopAt = FALSE /\ loop'[r].stopReq = FALSE
      BY <1>5, <1>a, <1>b DEF RetryFailedUnits, ClaimRun, Launch, NoLoop, Row
    <3>2. \A q \in Runs \ {r} : row'[q] = row[q] /\ loop'[q] = loop[q]
      BY <1>5, <1>a DEF RetryFailedUnits, ClaimRun, Launch
    <3> QED BY <1>b, <3>1, <3>2 DEF StopShownIsStopKnown
  <2> QED BY <2>1, <2>2, <2>3, <2>4, <2>5, <2>6, <2>7 DEF Control
<1>6. ASSUME NEW r \in Runs, DeleteRun(r) PROVE Control'
  <2>1. QuietWhenNotUp'
    BY <1>6, <1>a, <1>b DEF DeleteRun, Serving, Row, QuietWhenNotUp
  <2>2. LiveRows'
    BY <1>6, <1>a, <1>b DEF DeleteRun, Serving, Row, LiveRows
  <2>3. GateOfLoops'
    BY <1>6, <1>a, <1>b DEF DeleteRun, Serving, Row, GateOfLoops
  <2>4. GateMatchesRows'
    BY <1>6, <1>a, <1>b DEF DeleteRun, Serving, Row, GateMatchesRows
  <2>5. OrphansShown'
    BY <1>6, <1>a, <1>b DEF DeleteRun, Serving, Row, OrphansShown
  <2>6. WorksAsPinned'
    BY <1>6, <1>a, <1>b DEF DeleteRun, Serving, Row, WorksAsPinned
  <2>7. StopShownIsStopKnown'
    BY <1>6, <1>a, <1>b DEF DeleteRun, Serving, Row, StopShownIsStopKnown
  <2> QED BY <2>1, <2>2, <2>3, <2>4, <2>5, <2>6, <2>7 DEF Control
<1>7. ASSUME NEW r \in Runs, FinalizeRun(r) PROVE Control'
  <2>1. QuietWhenNotUp'
    BY <1>7, <1>a, <1>b DEF FinalizeRun, FinishRow, StatusForUnconfirmed, NoLoop, MayStep, Row, GateOfLoops, QuietWhenNotUp
  <2>2. LiveRows'
    BY <1>7, <1>a, <1>b DEF FinalizeRun, FinishRow, StatusForUnconfirmed, NoLoop, MayStep, Row, GateOfLoops, LiveRows
  <2>3. GateOfLoops'
    BY <1>7, <1>a, <1>b DEF FinalizeRun, FinishRow, StatusForUnconfirmed, NoLoop, MayStep, Row, GateOfLoops
  <2>4. GateMatchesRows'
    BY <1>7, <1>a, <1>b DEF FinalizeRun, FinishRow, StatusForUnconfirmed, NoLoop, MayStep, Row, GateOfLoops, GateMatchesRows
  <2>5. OrphansShown'
    BY <1>7, <1>a, <1>b DEF FinalizeRun, FinishRow, StatusForUnconfirmed, NoLoop, MayStep, Row, GateOfLoops, OrphansShown
  <2>6. WorksAsPinned'
    BY <1>7, <1>a, <1>b DEF FinalizeRun, FinishRow, StatusForUnconfirmed, NoLoop, MayStep, Row, GateOfLoops, WorksAsPinned
  <2>7. StopShownIsStopKnown'
    BY <1>7, <1>a, <1>b DEF FinalizeRun, FinishRow, StatusForUnconfirmed, NoLoop, MayStep, Row, GateOfLoops, StopShownIsStopKnown
  <2> QED BY <2>1, <2>2, <2>3, <2>4, <2>5, <2>6, <2>7 DEF Control
<1>8. ASSUME NEW r \in Runs, ChatLost(r) PROVE Control'
  <2>1. QuietWhenNotUp'
    BY <1>8, <1>a, <1>b, <1>d DEF ChatLost, Resolve, MayStep, LiveRows, Loop, Row, SeatsHeld, QuietWhenNotUp
  <2>2. LiveRows'
    BY <1>8, <1>a, <1>b, <1>d DEF ChatLost, Resolve, MayStep, Loop, Row, SeatsHeld, LiveRows
  <2>3. GateOfLoops'
    BY <1>8, <1>a, <1>b, <1>d DEF ChatLost, Resolve, MayStep, LiveRows, Loop, Row, SeatsHeld, GateOfLoops
  <2>4. GateMatchesRows'
    BY <1>8, <1>a, <1>b, <1>d DEF ChatLost, Resolve, MayStep, LiveRows, Loop, Row, SeatsHeld, GateMatchesRows
  <2>5. OrphansShown'
    BY <1>8, <1>a, <1>b, <1>d DEF ChatLost, Resolve, MayStep, LiveRows, Loop, Row, SeatsHeld, OrphansShown
  <2>6. WorksAsPinned'
    BY <1>8, <1>a, <1>b, <1>d DEF ChatLost, Resolve, MayStep, LiveRows, Loop, Row, SeatsHeld, WorksAsPinned
  <2>7. StopShownIsStopKnown'
    <3>1. \A q \in Runs : /\ loop'[q].pc # "off" => loop[q].pc # "off"
                          /\ loop'[q].stopReq = loop[q].stopReq
      BY <1>8, <1>a, <1>b DEF ChatLost, Resolve, Loop
    <3>2. row' = row
      BY <1>8 DEF ChatLost
    <3> QED BY <1>b, <3>1, <3>2 DEF StopShownIsStopKnown
  <2> QED BY <2>1, <2>2, <2>3, <2>4, <2>5, <2>6, <2>7 DEF Control
<1>9. ASSUME NEW r \in Runs, InternalError(r) PROVE Control'
  <2>1. QuietWhenNotUp'
    BY <1>9, <1>a, <1>b DEF InternalError, FinishRow, StatusForUnconfirmed, NoLoop, MayStep, Row, GateOfLoops, QuietWhenNotUp
  <2>2. LiveRows'
    BY <1>9, <1>a, <1>b DEF InternalError, FinishRow, StatusForUnconfirmed, NoLoop, MayStep, Row, GateOfLoops, LiveRows
  <2>3. GateOfLoops'
    BY <1>9, <1>a, <1>b DEF InternalError, FinishRow, StatusForUnconfirmed, NoLoop, MayStep, Row, GateOfLoops
  <2>4. GateMatchesRows'
    BY <1>9, <1>a, <1>b DEF InternalError, FinishRow, StatusForUnconfirmed, NoLoop, MayStep, Row, GateOfLoops, GateMatchesRows
  <2>5. OrphansShown'
    BY <1>9, <1>a, <1>b DEF InternalError, FinishRow, StatusForUnconfirmed, NoLoop, MayStep, Row, GateOfLoops, OrphansShown
  <2>6. WorksAsPinned'
    BY <1>9, <1>a, <1>b DEF InternalError, FinishRow, StatusForUnconfirmed, NoLoop, MayStep, Row, GateOfLoops, WorksAsPinned
  <2>7. StopShownIsStopKnown'
    BY <1>9, <1>a, <1>b DEF InternalError, FinishRow, StatusForUnconfirmed, NoLoop, MayStep, Row, GateOfLoops, StopShownIsStopKnown
  <2> QED BY <2>1, <2>2, <2>3, <2>4, <2>5, <2>6, <2>7 DEF Control
<1>10. ASSUME NEW r \in Runs, ReconcileRun(r) PROVE Control'
  <2>1. \A q \in Runs \ {r} : /\ row'[q] = row[q]
                                 /\ check'[q] = check[q] /\ recheck'[q] = recheck[q]
    BY <1>10, <1>a, <1>t DEF ReconcileRun, FinishRow, ResetRunningUnits
  <2>2. \A q \in Runs \ {r} : HasRunningUnit(q)' <=> HasRunningUnit(q)
    BY <1>10, <2>1 DEF HasRunningUnit
  <2>3. /\ phase # "up" /\ phase' # "up" /\ \A q \in Runs : loop'[q].pc = "off"
        /\ orphans' = orphans /\ forgotten' = forgotten
    BY <1>10, <1>b, <1>c DEF ReconcileRun, QuietWhenNotUp
  <2>4. HasRunningUnit(r) => row'[r].status = "recovery-waiting" /\ ~row'[r].confirmed
    BY <1>10, <1>a DEF ReconcileRun, FinishRow, StatusForUnconfirmed, Row
  <2>5. row[r].status = "running"
    BY <1>10, <1>a DEF ReconcileRun
  <2>6. QuietWhenNotUp'
    BY <1>10, <1>a, <1>b, <2>1, <2>2, <2>3, <2>4, <2>5 DEF ReconcileRun, FinishRow, StatusForUnconfirmed, ResetRunningUnits, Row, NoLoop, QuietWhenNotUp
  <2>7. LiveRows'
    BY <1>10, <1>a, <1>b, <2>1, <2>2, <2>3, <2>4, <2>5 DEF LiveRows
  <2>8. GateOfLoops'
    BY <1>10, <1>a, <1>b, <2>1, <2>2, <2>3, <2>4, <2>5 DEF ReconcileRun, FinishRow, StatusForUnconfirmed, ResetRunningUnits, Row, NoLoop, GateOfLoops
  <2>9. GateMatchesRows'
    BY <1>10, <1>a, <1>b, <2>1, <2>2, <2>3, <2>4, <2>5 DEF ReconcileRun, FinishRow, StatusForUnconfirmed, ResetRunningUnits, Row, NoLoop, GateMatchesRows
  <2>10. OrphansShown'
    BY <1>10, <1>a, <1>b, <2>1, <2>2, <2>3, <2>4, <2>5 DEF OrphansShown
  <2>11. WorksAsPinned'
    BY <1>10, <1>a, <1>b, <2>1, <2>2, <2>3, <2>4, <2>5 DEF WorksAsPinned
  <2>12. StopShownIsStopKnown'
    BY <1>10, <1>a, <1>b, <2>1, <2>2, <2>3, <2>4, <2>5 DEF StopShownIsStopKnown
  <2> QED BY <2>6, <2>7, <2>8, <2>9, <2>10, <2>11, <2>12 DEF Control
<1>11. CASE ChangeConnection
  <2>1. QuietWhenNotUp'
    BY <1>11, <1>a, <1>b DEF ChangeConnection, Serving, QuietWhenNotUp
  <2>2. LiveRows'
    BY <1>11, <1>a, <1>b DEF ChangeConnection, Serving, LiveRows
  <2>3. GateOfLoops'
    BY <1>11, <1>a, <1>b DEF ChangeConnection, Serving, GateOfLoops
  <2>4. GateMatchesRows'
    BY <1>11, <1>a, <1>b DEF ChangeConnection, Serving, GateMatchesRows
  <2>5. OrphansShown'
    BY <1>11, <1>a, <1>b DEF ChangeConnection, Serving, OrphansShown
  <2>6. WorksAsPinned'
    BY <1>11, <1>a, <1>b DEF ChangeConnection, Serving, WorksAsPinned
  <2>7. StopShownIsStopKnown'
    BY <1>11, <1>a, <1>b DEF ChangeConnection, Serving, StopShownIsStopKnown
  <2> QED BY <2>1, <2>2, <2>3, <2>4, <2>5, <2>6, <2>7 DEF Control
<1>12. CASE Crash
  <2>1. QuietWhenNotUp'
    BY <1>12, <1>a, <1>b DEF Crash, NoLoop, LiveRows, GateMatchesRows, HasRunningUnit, QuietWhenNotUp
  <2>2. LiveRows'
    BY <1>12, <1>a, <1>b DEF Crash, NoLoop, GateMatchesRows, HasRunningUnit, LiveRows
  <2>3. GateOfLoops'
    BY <1>12, <1>a, <1>b DEF Crash, NoLoop, LiveRows, GateMatchesRows, HasRunningUnit, GateOfLoops
  <2>4. GateMatchesRows'
    BY <1>12, <1>a, <1>b DEF Crash, NoLoop, LiveRows, HasRunningUnit, GateMatchesRows
  <2>5. OrphansShown'
    BY <1>12, <1>a, <1>b DEF Crash, NoLoop, LiveRows, GateMatchesRows, HasRunningUnit, OrphansShown
  <2>6. WorksAsPinned'
    BY <1>12, <1>a, <1>b DEF Crash, NoLoop, LiveRows, GateMatchesRows, HasRunningUnit, WorksAsPinned
  <2>7. StopShownIsStopKnown'
    BY <1>12, <1>a, <1>b DEF Crash, NoLoop, LiveRows, GateMatchesRows, HasRunningUnit, StopShownIsStopKnown
  <2> QED BY <2>1, <2>2, <2>3, <2>4, <2>5, <2>6, <2>7 DEF Control
<1>13. CASE Boot
  <2>1. QuietWhenNotUp'
    BY <1>13, <1>a, <1>b DEF Boot, NoLoop, HasRunningUnit, QuietWhenNotUp
  <2>2. LiveRows'
    BY <1>13, <1>a, <1>b DEF Boot, NoLoop, HasRunningUnit, LiveRows
  <2>3. GateOfLoops'
    BY <1>13, <1>a, <1>b DEF Boot, NoLoop, HasRunningUnit, GateOfLoops
  <2>4. GateMatchesRows'
    BY <1>13, <1>a, <1>b DEF Boot, NoLoop, HasRunningUnit, GateMatchesRows
  <2>5. OrphansShown'
    BY <1>13, <1>a, <1>b DEF Boot, NoLoop, HasRunningUnit, OrphansShown
  <2>6. WorksAsPinned'
    BY <1>13, <1>a, <1>b DEF Boot, NoLoop, QuietWhenNotUp, WorksAsPinned
  <2>7. StopShownIsStopKnown'
    BY <1>13, <1>a, <1>b DEF Boot, NoLoop, HasRunningUnit, StopShownIsStopKnown
  <2> QED BY <2>1, <2>2, <2>3, <2>4, <2>5, <2>6, <2>7 DEF Control
<1>14. CASE Listen
  <2>1. QuietWhenNotUp'
    BY <1>14, <1>a, <1>b DEF Listen, NoLoop, QuietWhenNotUp
  <2>2. LiveRows'
    BY <1>14, <1>a, <1>b DEF Listen, NoLoop, QuietWhenNotUp, LiveRows
  <2>3. GateOfLoops'
    BY <1>14, <1>a, <1>b DEF Listen, NoLoop, QuietWhenNotUp, GateOfLoops
  <2>4. GateMatchesRows'
    BY <1>14, <1>a, <1>b DEF Listen, NoLoop, QuietWhenNotUp, GateMatchesRows
  <2>5. OrphansShown'
    BY <1>14, <1>a, <1>b DEF Listen, NoLoop, QuietWhenNotUp, OrphansShown
  <2>6. WorksAsPinned'
    BY <1>14, <1>a, <1>b DEF Listen, NoLoop, QuietWhenNotUp, WorksAsPinned
  <2>7. StopShownIsStopKnown'
    BY <1>14, <1>a, <1>b DEF Listen, NoLoop, QuietWhenNotUp, StopShownIsStopKnown
  <2> QED BY <2>1, <2>2, <2>3, <2>4, <2>5, <2>6, <2>7 DEF Control
<1>15. CASE UNCHANGED vars
  <2>1. QuietWhenNotUp'
    BY <1>15, <1>a, <1>b DEF vars, HasRunningUnit, QuietWhenNotUp
  <2>2. LiveRows'
    BY <1>15, <1>a, <1>b DEF vars, HasRunningUnit, LiveRows
  <2>3. GateOfLoops'
    BY <1>15, <1>a, <1>b DEF vars, HasRunningUnit, GateOfLoops
  <2>4. GateMatchesRows'
    BY <1>15, <1>a, <1>b DEF vars, HasRunningUnit, GateMatchesRows
  <2>5. OrphansShown'
    BY <1>15, <1>a, <1>b DEF vars, HasRunningUnit, OrphansShown
  <2>6. WorksAsPinned'
    BY <1>15, <1>a, <1>b DEF vars, HasRunningUnit, WorksAsPinned
  <2>7. StopShownIsStopKnown'
    BY <1>15, <1>a, <1>b DEF vars, HasRunningUnit, StopShownIsStopKnown
  <2> QED BY <2>1, <2>2, <2>3, <2>4, <2>5, <2>6, <2>7 DEF Control
<1>16. ASSUME NEW r \in Runs, OwnStep(r) PROVE Control'
  BY <1>16, OwnStepControl
<1> QED BY <1>1, <1>2, <1>3, <1>4, <1>5, <1>6, <1>7, <1>8, <1>9, <1>10, <1>11, <1>12, <1>13, <1>14, <1>15, <1>16, LoopStepsAreOwn
       DEF Next, UserStep, LoopStep, RequestStep

-----------------------------------------------------------------------------
(* The unit of a seated job                                                 *)

LEMMA SeatedUnitKept ==
  ASSUME SeatedUnitRuns, NEW S \in SUBSET Runs,
         \A q \in S : Seated(q)' =>
           /\ Seated(q)
           /\ loop'[q].target = loop[q].target /\ loop'[q].persp = loop[q].persp
           /\ loop'[q].job = loop[q].job
           /\ check'[q] = check[q] /\ recheck'[q] = recheck[q],
         \A q \in Runs \ S : Seated(q)' =>
           IF loop'[q].job = 0
           THEN /\ loop'[q].persp \in Perspectives
                /\ check'[q][<<loop'[q].target, loop'[q].persp>>] = "running"
           ELSE recheck'[q][<<loop'[q].target, loop'[q].job>>] = "running"
  PROVE  SeatedUnitRuns'
<1> SUFFICES ASSUME NEW q \in Runs, Seated(q)'
             PROVE  IF loop'[q].job = 0
                    THEN /\ loop'[q].persp \in Perspectives
                         /\ check'[q][<<loop'[q].target, loop'[q].persp>>] = "running"
                    ELSE recheck'[q][<<loop'[q].target, loop'[q].job>>] = "running"
  BY DEF SeatedUnitRuns, Unit, Slot
<1>1. CASE q \in S
  BY <1>1 DEF SeatedUnitRuns, Unit, Slot
<1>2. CASE q \notin S
  BY <1>2
<1> QED BY <1>1, <1>2

LEMMA NextSeatedUnitRuns == IInv /\ [Next]_vars => SeatedUnitRuns'
<1> SUFFICES ASSUME IInv, [Next]_vars PROVE SeatedUnitRuns'
  OBVIOUS
<1>a. /\ loop \in [Runs -> Loop] /\ \A r \in Runs : loop[r] \in Loop
      /\ check \in [Runs -> [CheckUnits -> CheckStatus]]
      /\ recheck \in [Runs -> [Slots -> RecheckStatus]]
      /\ SeatedUnitRuns /\ LiveRows /\ QuietWhenNotUp
  BY DEF IInv, TypeOK
<1>b. \A r \in Runs : Seated(r) => loop[r].pc # "off"
  BY DEF Seated
<1> USE DEF Seated, dbVars, unitVars, processVars, historyVars
<1>1. ASSUME NEW r \in Runs, StartRun(r) PROVE SeatedUnitRuns'
  <2>1. \A q \in Runs : Seated(q)' =>
           /\ Seated(q)
           /\ loop'[q].target = loop[q].target /\ loop'[q].persp = loop[q].persp
           /\ loop'[q].job = loop[q].job
           /\ check'[q] = check[q] /\ recheck'[q] = recheck[q]
    BY <1>1, <1>a, <1>b DEF StartRun, Launch, NoLoop, LiveRows, Registered
  <2> QED BY <1>a, <2>1, SeatedUnitKept
<1>2. ASSUME NEW r \in Runs, StopRun(r) PROVE SeatedUnitRuns'
  <2>1. \A q \in Runs : Seated(q)' =>
           /\ Seated(q)
           /\ loop'[q].target = loop[q].target /\ loop'[q].persp = loop[q].persp
           /\ loop'[q].job = loop[q].job
           /\ check'[q] = check[q] /\ recheck'[q] = recheck[q]
    BY <1>2, <1>a, <1>b DEF StopRun, Loop
  <2> QED BY <1>a, <2>1, SeatedUnitKept
<1>3. ASSUME NEW r \in Runs, ConfirmRecovery(r) PROVE SeatedUnitRuns'
  <2>1. \A q \in Runs : Seated(q)' =>
           /\ Seated(q)
           /\ loop'[q].target = loop[q].target /\ loop'[q].persp = loop[q].persp
           /\ loop'[q].job = loop[q].job
           /\ check'[q] = check[q] /\ recheck'[q] = recheck[q]
    BY <1>3, <1>a, <1>b DEF ConfirmRecovery
  <2> QED BY <1>a, <2>1, SeatedUnitKept
<1>4. ASSUME NEW r \in Runs, ResumeRun(r) PROVE SeatedUnitRuns'
  <2>1. \A q \in Runs : Seated(q)' =>
           /\ Seated(q)
           /\ loop'[q].target = loop[q].target /\ loop'[q].persp = loop[q].persp
           /\ loop'[q].job = loop[q].job
           /\ check'[q] = check[q] /\ recheck'[q] = recheck[q]
    <3>1. /\ loop' = loop \/ loop'[r].pc = "start"
          /\ \A q \in Runs \ {r} : loop'[q] = loop[q]
      BY <1>4, <1>a DEF ResumeRun, Launch, NoLoop
    <3>2. check' = check /\ recheck' = recheck
      BY <1>4 DEF ResumeRun
    <3> QED BY <3>1, <3>2
  <2> QED BY <1>a, <2>1, SeatedUnitKept
<1>5. ASSUME NEW r \in Runs, RetryFailedUnits(r) PROVE SeatedUnitRuns'
  <2>1. \A q \in Runs : Seated(q)' =>
           /\ Seated(q)
           /\ loop'[q].target = loop[q].target /\ loop'[q].persp = loop[q].persp
           /\ loop'[q].job = loop[q].job
           /\ check'[q] = check[q] /\ recheck'[q] = recheck[q]
    BY <1>5, <1>a, <1>b DEF RetryFailedUnits, Launch, NoLoop, Registered
  <2> QED BY <1>a, <2>1, SeatedUnitKept
<1>6. ASSUME NEW r \in Runs, DeleteRun(r) PROVE SeatedUnitRuns'
  <2>1. \A q \in Runs : Seated(q)' =>
           /\ Seated(q)
           /\ loop'[q].target = loop[q].target /\ loop'[q].persp = loop[q].persp
           /\ loop'[q].job = loop[q].job
           /\ check'[q] = check[q] /\ recheck'[q] = recheck[q]
    BY <1>6, <1>a, <1>b DEF DeleteRun, Registered
  <2> QED BY <1>a, <2>1, SeatedUnitKept
<1>7. ASSUME NEW r \in Runs, BeginLoop(r) PROVE SeatedUnitRuns'
  <2>1. \A q \in Runs : Seated(q)' =>
           /\ Seated(q)
           /\ loop'[q].target = loop[q].target /\ loop'[q].persp = loop[q].persp
           /\ loop'[q].job = loop[q].job
           /\ check'[q] = check[q] /\ recheck'[q] = recheck[q]
    BY <1>7, <1>a, <1>b DEF BeginLoop
  <2> QED BY <1>a, <2>1, SeatedUnitKept
<1>8. ASSUME NEW r \in Runs, StopBeforeUnit(r) PROVE SeatedUnitRuns'
  <2>1. \A q \in Runs : Seated(q)' =>
           /\ Seated(q)
           /\ loop'[q].target = loop[q].target /\ loop'[q].persp = loop[q].persp
           /\ loop'[q].job = loop[q].job
           /\ check'[q] = check[q] /\ recheck'[q] = recheck[q]
    BY <1>8, <1>a, <1>b DEF StopBeforeUnit
  <2> QED BY <1>a, <2>1, SeatedUnitKept
<1>9. ASSUME NEW r \in Runs, SkipUnit(r) PROVE SeatedUnitRuns'
  <2>1. \A q \in Runs : Seated(q)' =>
           /\ Seated(q)
           /\ loop'[q].target = loop[q].target /\ loop'[q].persp = loop[q].persp
           /\ loop'[q].job = loop[q].job
           /\ check'[q] = check[q] /\ recheck'[q] = recheck[q]
    BY <1>9, <1>a, <1>b DEF SkipUnit
  <2> QED BY <1>a, <2>1, SeatedUnitKept
<1>10. ASSUME NEW r \in Runs, ClaimUnit(r) PROVE SeatedUnitRuns'
  <2>1. Unit(r) \in CheckUnits
    BY <1>10, <1>a DEF ClaimUnit, Unit, CheckUnits, Loop
  <2>2. /\ loop'[r].job = 0 /\ check'[r][Unit(r)] = "running"
        /\ Unit(r) = <<loop'[r].target, loop'[r].persp>> /\ loop'[r].persp \in Perspectives
    BY <1>10, <1>a, <2>1 DEF ClaimUnit, Unit, Loop
  <2>3. \A q \in Runs \ {r} : /\ loop'[q] = loop[q] /\ check'[q] = check[q]
                              /\ recheck'[q] = recheck[q]
    BY <1>10, <1>a DEF ClaimUnit
  <2> QED BY <1>a, <2>2, <2>3, SeatedUnitKept
<1>11. ASSUME NEW r \in Runs, EndOfPerspectives(r) PROVE SeatedUnitRuns'
  <2>1. \A q \in Runs : Seated(q)' =>
           /\ Seated(q)
           /\ loop'[q].target = loop[q].target /\ loop'[q].persp = loop[q].persp
           /\ loop'[q].job = loop[q].job
           /\ check'[q] = check[q] /\ recheck'[q] = recheck[q]
    BY <1>11, <1>a, <1>b DEF EndOfPerspectives
  <2> QED BY <1>a, <2>1, SeatedUnitKept
<1>12. ASSUME NEW r \in Runs, SettleNothing(r) PROVE SeatedUnitRuns'
  <2>1. \A q \in Runs : Seated(q)' =>
           /\ Seated(q)
           /\ loop'[q].target = loop[q].target /\ loop'[q].persp = loop[q].persp
           /\ loop'[q].job = loop[q].job
           /\ check'[q] = check[q] /\ recheck'[q] = recheck[q]
    BY <1>12, <1>a, <1>b DEF SettleNothing, Advance, Loop
  <2> QED BY <1>a, <2>1, SeatedUnitKept
<1>13. ASSUME NEW r \in Runs, IssueRechecks(r) PROVE SeatedUnitRuns'
  <2>1. \A q \in Runs : Seated(q)' =>
           /\ Seated(q)
           /\ loop'[q].target = loop[q].target /\ loop'[q].persp = loop[q].persp
           /\ loop'[q].job = loop[q].job
           /\ check'[q] = check[q] /\ recheck'[q] = recheck[q]
    BY <1>13, <1>a, <1>b DEF IssueRechecks
  <2> QED BY <1>a, <2>1, SeatedUnitKept
<1>14. ASSUME NEW r \in Runs, RechecksDone(r) PROVE SeatedUnitRuns'
  <2>1. \A q \in Runs : Seated(q)' =>
           /\ Seated(q)
           /\ loop'[q].target = loop[q].target /\ loop'[q].persp = loop[q].persp
           /\ loop'[q].job = loop[q].job
           /\ check'[q] = check[q] /\ recheck'[q] = recheck[q]
    BY <1>14, <1>a, <1>b DEF RechecksDone, Advance, Loop
  <2> QED BY <1>a, <2>1, SeatedUnitKept
<1>15. ASSUME NEW r \in Runs, StopBeforeRecheck(r) PROVE SeatedUnitRuns'
  <2>1. \A q \in Runs : Seated(q)' =>
           /\ Seated(q)
           /\ loop'[q].target = loop[q].target /\ loop'[q].persp = loop[q].persp
           /\ loop'[q].job = loop[q].job
           /\ check'[q] = check[q] /\ recheck'[q] = recheck[q]
    BY <1>15, <1>a, <1>b DEF StopBeforeRecheck
  <2> QED BY <1>a, <2>1, SeatedUnitKept
<1>16. ASSUME NEW r \in Runs, ClaimRecheck(r) PROVE SeatedUnitRuns'
  <2>1. PICK f \in Findings :
          /\ recheck' = [recheck EXCEPT ![r][<<loop[r].target, f>>] = "running"]
          /\ \/ loop' = [loop EXCEPT ![r].pc = "queued", ![r].job = f, ![r].retried = FALSE]
             \/ loop' = [loop EXCEPT ![r].pc = "resolved", ![r].job = f,
                                     ![r].result = "failed"]
    BY <1>16 DEF ClaimRecheck, PendingRechecks
  <2>2. <<loop[r].target, f>> \in Slots /\ f # 0
    BY <1>a, ConstantsAssumption DEF Slots, Loop, Findings
  <2>3. /\ loop'[r].job = f /\ loop'[r].target = loop[r].target
        /\ recheck'[r][<<loop[r].target, f>>] = "running"
    BY <1>a, <2>1, <2>2 DEF Loop
  <2>4. \A q \in Runs \ {r} : /\ loop'[q] = loop[q] /\ check'[q] = check[q]
                              /\ recheck'[q] = recheck[q]
    BY <1>16, <1>a, <2>1 DEF ClaimRecheck
  <2> QED BY <1>a, <2>2, <2>3, <2>4, SeatedUnitKept
<1>17. ASSUME NEW r \in Runs, SaveCheck(r) PROVE SeatedUnitRuns'
  <2>1. \A q \in Runs : Seated(q)' =>
           /\ Seated(q)
           /\ loop'[q].target = loop[q].target /\ loop'[q].persp = loop[q].persp
           /\ loop'[q].job = loop[q].job
           /\ check'[q] = check[q] /\ recheck'[q] = recheck[q]
    BY <1>17, <1>a, <1>b DEF SaveCheck, AfterSave, Loop
  <2> QED BY <1>a, <2>1, SeatedUnitKept
<1>18. ASSUME NEW r \in Runs, SaveRecheck(r) PROVE SeatedUnitRuns'
  <2>1. \A q \in Runs : Seated(q)' =>
           /\ Seated(q)
           /\ loop'[q].target = loop[q].target /\ loop'[q].persp = loop[q].persp
           /\ loop'[q].job = loop[q].job
           /\ check'[q] = check[q] /\ recheck'[q] = recheck[q]
    BY <1>18, <1>a, <1>b DEF SaveRecheck, AfterSave, Loop
  <2> QED BY <1>a, <2>1, SeatedUnitKept
<1>19. ASSUME NEW r \in Runs, FinalizeRun(r) PROVE SeatedUnitRuns'
  <2>1. \A q \in Runs : Seated(q)' =>
           /\ Seated(q)
           /\ loop'[q].target = loop[q].target /\ loop'[q].persp = loop[q].persp
           /\ loop'[q].job = loop[q].job
           /\ check'[q] = check[q] /\ recheck'[q] = recheck[q]
    BY <1>19, <1>a, <1>b DEF FinalizeRun, NoLoop
  <2> QED BY <1>a, <2>1, SeatedUnitKept
<1>20. ASSUME NEW r \in Runs, CancelQueued(r) PROVE SeatedUnitRuns'
  <2>1. \A q \in Runs : Seated(q)' =>
           /\ Seated(q)
           /\ loop'[q].target = loop[q].target /\ loop'[q].persp = loop[q].persp
           /\ loop'[q].job = loop[q].job
           /\ check'[q] = check[q] /\ recheck'[q] = recheck[q]
    BY <1>20, <1>a, <1>b DEF CancelQueued, Resolve, Loop
  <2> QED BY <1>a, <2>1, SeatedUnitKept
<1>21. ASSUME NEW r \in Runs, TakeTurn(r) PROVE SeatedUnitRuns'
  <2>1. \A q \in Runs : Seated(q)' =>
           /\ Seated(q)
           /\ loop'[q].target = loop[q].target /\ loop'[q].persp = loop[q].persp
           /\ loop'[q].job = loop[q].job
           /\ check'[q] = check[q] /\ recheck'[q] = recheck[q]
    BY <1>21, <1>a, <1>b DEF TakeTurn, Resolve, Loop
  <2> QED BY <1>a, <2>1, SeatedUnitKept
<1>22. ASSUME NEW r \in Runs, EnsureLoaded(r) PROVE SeatedUnitRuns'
  <2>1. \A q \in Runs \ {r} : loop'[q] = loop[q]
    BY <1>22, <1>a DEF EnsureLoaded, Resolve
  <2>2. \/ loop'[r].pc = "resolved"
        \/ /\ loop'[r].target = loop[r].target /\ loop'[r].persp = loop[r].persp
           /\ loop'[r].job = loop[r].job
    <3>1. CASE loop' = [loop EXCEPT ![r].pc = "chat"]
      BY <3>1, <1>a DEF Loop
    <3>2. CASE \E res, halt : Resolve(r, res, halt)
      BY <3>2, <1>a DEF Resolve, Loop
    <3> QED BY <1>22, <3>1, <3>2 DEF EnsureLoaded
  <2>3. \A q \in Runs : Seated(q)' =>
           /\ Seated(q)
           /\ loop'[q].target = loop[q].target /\ loop'[q].persp = loop[q].persp
           /\ loop'[q].job = loop[q].job
           /\ check'[q] = check[q] /\ recheck'[q] = recheck[q]
    BY <1>22, <1>a, <2>1, <2>2 DEF EnsureLoaded
  <2> QED BY <1>a, <2>3, SeatedUnitKept
<1>23. ASSUME NEW r \in Runs, ChatAnswered(r) PROVE SeatedUnitRuns'
  <2>1. \A q \in Runs : Seated(q)' =>
           /\ Seated(q)
           /\ loop'[q].target = loop[q].target /\ loop'[q].persp = loop[q].persp
           /\ loop'[q].job = loop[q].job
           /\ check'[q] = check[q] /\ recheck'[q] = recheck[q]
    BY <1>23, <1>a, <1>b DEF ChatAnswered, Answers, Resolve, Loop
  <2> QED BY <1>a, <2>1, SeatedUnitKept
<1>24. ASSUME NEW r \in Runs, RetryChat(r) PROVE SeatedUnitRuns'
  <2>1. \A q \in Runs \ {r} : loop'[q] = loop[q]
    BY <1>24, <1>a DEF RetryChat, Resolve
  <2>2. \/ loop'[r].pc = "resolved"
        \/ /\ loop'[r].target = loop[r].target /\ loop'[r].persp = loop[r].persp
           /\ loop'[r].job = loop[r].job
    <3>1. CASE loop' = [loop EXCEPT ![r].pc = "ensure", ![r].retried = TRUE]
      BY <3>1, <1>a DEF Loop
    <3>2. CASE \E res, halt : Resolve(r, res, halt)
      BY <3>2, <1>a DEF Resolve, Loop
    <3> QED BY <1>24, <3>1, <3>2 DEF RetryChat
  <2>3. \A q \in Runs : Seated(q)' =>
           /\ Seated(q)
           /\ loop'[q].target = loop[q].target /\ loop'[q].persp = loop[q].persp
           /\ loop'[q].job = loop[q].job
           /\ check'[q] = check[q] /\ recheck'[q] = recheck[q]
    BY <1>24, <1>a, <2>1, <2>2 DEF RetryChat
  <2> QED BY <1>a, <2>3, SeatedUnitKept
<1>25. ASSUME NEW r \in Runs, ChatLost(r) PROVE SeatedUnitRuns'
  <2>1. \A q \in Runs : Seated(q)' =>
           /\ Seated(q)
           /\ loop'[q].target = loop[q].target /\ loop'[q].persp = loop[q].persp
           /\ loop'[q].job = loop[q].job
           /\ check'[q] = check[q] /\ recheck'[q] = recheck[q]
    BY <1>25, <1>a, <1>b DEF ChatLost, Resolve, Loop
  <2> QED BY <1>a, <2>1, SeatedUnitKept
<1>26. ASSUME NEW r \in Runs, InternalError(r) PROVE SeatedUnitRuns'
  <2>1. \A q \in Runs : Seated(q)' =>
           /\ Seated(q)
           /\ loop'[q].target = loop[q].target /\ loop'[q].persp = loop[q].persp
           /\ loop'[q].job = loop[q].job
           /\ check'[q] = check[q] /\ recheck'[q] = recheck[q]
    BY <1>26, <1>a, <1>b DEF InternalError, NoLoop, ResetRunningUnits
  <2> QED BY <1>a, <2>1, SeatedUnitKept
<1>27. ASSUME NEW r \in Runs, ReconcileRun(r) PROVE SeatedUnitRuns'
  <2>1. \A q \in Runs : Seated(q)' =>
           /\ Seated(q)
           /\ loop'[q].target = loop[q].target /\ loop'[q].persp = loop[q].persp
           /\ loop'[q].job = loop[q].job
           /\ check'[q] = check[q] /\ recheck'[q] = recheck[q]
    BY <1>27, <1>a, <1>b DEF ReconcileRun, QuietWhenNotUp, NoLoop
  <2> QED BY <1>a, <2>1, SeatedUnitKept
<1>28. CASE ChangeConnection
  BY <1>28, <1>a DEF ChangeConnection, SeatedUnitRuns, Unit, Slot
<1>29. CASE Crash
  BY <1>29, <1>a DEF Crash, NoLoop, SeatedUnitRuns
<1>30. CASE Boot
  BY <1>30, <1>a DEF Boot, SeatedUnitRuns, Unit, Slot
<1>31. CASE Listen
  BY <1>31, <1>a DEF Listen, SeatedUnitRuns, Unit, Slot
<1>32. CASE UNCHANGED vars
  BY <1>32, <1>a DEF vars, SeatedUnitRuns, Unit, Slot
<1> QED BY <1>1, <1>2, <1>3, <1>4, <1>5, <1>6, <1>7, <1>8, <1>9, <1>10, <1>11, <1>12, <1>13, <1>14, <1>15, <1>16, <1>17, <1>18, <1>19, <1>20, <1>21, <1>22, <1>23, <1>24, <1>25, <1>26, <1>27, <1>28, <1>29, <1>30, <1>31, <1>32
       DEF Next, UserStep, LoopStep, RequestStep

(* A job that ends too long is a check's.                                   *)
LEMMA ResolvedTooLong ==
  ASSUME TooLongIsACheck, loop \in [Runs -> Loop], NEW r \in Runs, NEW result, NEW halt,
         Resolve(r, result, halt), result = "tooLong" => loop[r].job = 0
  PROVE  TooLongIsACheck'
<1>1. \A q \in Runs \ {r} : loop'[q] = loop[q]
  BY DEF Resolve
<1>2. loop'[r].pc = "resolved" /\ loop'[r].result = result /\ loop'[r].job = loop[r].job
  BY DEF Resolve, Loop
<1> QED BY <1>1, <1>2 DEF TooLongIsACheck

LEMMA NextTooLong == IInv /\ [Next]_vars => TooLongIsACheck'
<1> SUFFICES ASSUME IInv, [Next]_vars PROVE TooLongIsACheck'
  OBVIOUS
<1>a. /\ loop \in [Runs -> Loop] /\ \A r \in Runs : loop[r] \in Loop
      /\ TooLongIsACheck
  BY DEF IInv, TypeOK
<1> USE DEF TooLongIsACheck, dbVars, unitVars, processVars, historyVars
<1>1. ASSUME NEW r \in Runs, StartRun(r) PROVE TooLongIsACheck'
  BY <1>1, <1>a DEF StartRun, Launch, NoLoop
<1>2. ASSUME NEW r \in Runs, StopRun(r) PROVE TooLongIsACheck'
  BY <1>2, <1>a DEF StopRun, Loop
<1>3. ASSUME NEW r \in Runs, ConfirmRecovery(r) PROVE TooLongIsACheck'
  BY <1>3, <1>a DEF ConfirmRecovery
<1>4. ASSUME NEW r \in Runs, ResumeRun(r) PROVE TooLongIsACheck'
  BY <1>4, <1>a DEF ResumeRun, Launch, NoLoop, Registered
<1>5. ASSUME NEW r \in Runs, RetryFailedUnits(r) PROVE TooLongIsACheck'
  BY <1>5, <1>a DEF RetryFailedUnits, Launch, NoLoop, Registered
<1>6. ASSUME NEW r \in Runs, DeleteRun(r) PROVE TooLongIsACheck'
  BY <1>6, <1>a DEF DeleteRun, Registered
<1>7. ASSUME NEW r \in Runs, BeginLoop(r) PROVE TooLongIsACheck'
  BY <1>7, <1>a DEF BeginLoop
<1>8. ASSUME NEW r \in Runs, StopBeforeUnit(r) PROVE TooLongIsACheck'
  BY <1>8, <1>a DEF StopBeforeUnit
<1>9. ASSUME NEW r \in Runs, SkipUnit(r) PROVE TooLongIsACheck'
  BY <1>9, <1>a DEF SkipUnit
<1>10. ASSUME NEW r \in Runs, ClaimUnit(r) PROVE TooLongIsACheck'
  BY <1>10, <1>a DEF ClaimUnit, Loop
<1>11. ASSUME NEW r \in Runs, EndOfPerspectives(r) PROVE TooLongIsACheck'
  BY <1>11, <1>a DEF EndOfPerspectives
<1>12. ASSUME NEW r \in Runs, SettleNothing(r) PROVE TooLongIsACheck'
  BY <1>12, <1>a DEF SettleNothing, Advance, Loop
<1>13. ASSUME NEW r \in Runs, IssueRechecks(r) PROVE TooLongIsACheck'
  BY <1>13, <1>a DEF IssueRechecks
<1>14. ASSUME NEW r \in Runs, RechecksDone(r) PROVE TooLongIsACheck'
  BY <1>14, <1>a DEF RechecksDone, Advance, Loop
<1>15. ASSUME NEW r \in Runs, StopBeforeRecheck(r) PROVE TooLongIsACheck'
  BY <1>15, <1>a DEF StopBeforeRecheck
<1>16. ASSUME NEW r \in Runs, ClaimRecheck(r) PROVE TooLongIsACheck'
  <2>1. loop[r].result # "tooLong"
    BY <1>16, <1>a DEF ClaimRecheck
  <2>2. loop'[r].result # "tooLong" /\ \A q \in Runs \ {r} : loop'[q] = loop[q]
    BY <1>16, <1>a, <2>1 DEF ClaimRecheck, Loop
  <2> QED BY <1>a, <2>2
<1>17. ASSUME NEW r \in Runs, SaveCheck(r) PROVE TooLongIsACheck'
  BY <1>17, <1>a DEF SaveCheck, AfterSave, Loop
<1>18. ASSUME NEW r \in Runs, SaveRecheck(r) PROVE TooLongIsACheck'
  BY <1>18, <1>a DEF SaveRecheck, AfterSave, Loop
<1>19. ASSUME NEW r \in Runs, FinalizeRun(r) PROVE TooLongIsACheck'
  BY <1>19, <1>a DEF FinalizeRun, NoLoop
<1>20. ASSUME NEW r \in Runs, CancelQueued(r) PROVE TooLongIsACheck'
  <2>1. Resolve(r, "pending", "stop")
    BY <1>20 DEF CancelQueued
  <2> QED BY <1>a, <2>1, ResolvedTooLong
<1>21. ASSUME NEW r \in Runs, TakeTurn(r) PROVE TooLongIsACheck'
  <2>1. CASE Resolve(r, "pending", "stop")
    BY <1>a, <2>1, ResolvedTooLong
  <2>2. CASE loop' = [loop EXCEPT ![r].pc = "ensure"]
    <3>1. loop[r].result # "tooLong"
      BY <1>21, <1>a DEF TakeTurn
    <3>2. loop'[r].result = loop[r].result /\ \A q \in Runs \ {r} : loop'[q] = loop[q]
      BY <1>a, <2>2 DEF Loop
    <3> QED BY <1>a, <3>1, <3>2
  <2> QED BY <1>21, <2>1, <2>2 DEF TakeTurn
<1>22. ASSUME NEW r \in Runs, EnsureLoaded(r) PROVE TooLongIsACheck'
  <2>1. CASE \E halt \in {"stop", "settings"} : Resolve(r, "pending", halt)
    BY <1>a, <2>1, ResolvedTooLong
  <2>2. CASE loop' = [loop EXCEPT ![r].pc = "chat"]
    <3>1. loop[r].result # "tooLong"
      BY <1>22, <1>a DEF EnsureLoaded
    <3>2. loop'[r].result = loop[r].result /\ \A q \in Runs \ {r} : loop'[q] = loop[q]
      BY <1>a, <2>2 DEF Loop
    <3> QED BY <1>a, <3>1, <3>2
  <2> QED BY <1>22, <2>1, <2>2 DEF EnsureLoaded
<1>23. ASSUME NEW r \in Runs, ChatAnswered(r) PROVE TooLongIsACheck'
  BY <1>23, <1>a DEF ChatAnswered, Answers, Resolve, Loop
<1>24. ASSUME NEW r \in Runs, RetryChat(r) PROVE TooLongIsACheck'
  BY <1>24, <1>a DEF RetryChat, Resolve, Loop
<1>25. ASSUME NEW r \in Runs, ChatLost(r) PROVE TooLongIsACheck'
  BY <1>25, <1>a DEF ChatLost, Resolve, Loop
<1>26. ASSUME NEW r \in Runs, InternalError(r) PROVE TooLongIsACheck'
  BY <1>26, <1>a DEF InternalError, NoLoop
<1>27. ASSUME NEW r \in Runs, ReconcileRun(r) PROVE TooLongIsACheck'
  BY <1>27, <1>a DEF ReconcileRun
<1>28. CASE ChangeConnection
  BY <1>28, <1>a DEF ChangeConnection
<1>29. CASE Crash
  BY <1>29, <1>a DEF Crash, NoLoop
<1>30. CASE Boot
  BY <1>30, <1>a DEF Boot
<1>31. CASE Listen
  BY <1>31, <1>a DEF Listen
<1>32. CASE UNCHANGED vars
  BY <1>32, <1>a DEF vars
<1> QED BY <1>1, <1>2, <1>3, <1>4, <1>5, <1>6, <1>7, <1>8, <1>9, <1>10, <1>11, <1>12, <1>13, <1>14, <1>15, <1>16, <1>17, <1>18, <1>19, <1>20, <1>21, <1>22, <1>23, <1>24, <1>25, <1>26, <1>27, <1>28, <1>29, <1>30, <1>31, <1>32
       DEF Next, UserStep, LoopStep, RequestStep

-----------------------------------------------------------------------------
(* The invariant holds                                                      *)

LEMMA InitIInv == Init => IInv
<1> SUFFICES ASSUME Init PROVE IInv
  OBVIOUS
<1>1. TypeOK
  BY InitTypeOK
<1>2. \A r \in Runs : loop[r].pc = "off" /\ loop[r].halt = "none" /\ loop[r].result = "pending"
  BY DEF Init, NoLoop
<1>3. SeatsHeld /\ SeatedUnitRuns /\ TooLongIsACheck
  BY <1>2, EmptySeq DEF Init, SeatsHeld, Seated, AtWork, SeatedUnitRuns, TooLongIsACheck
<1>4. QuietWhenNotUp /\ LiveRows /\ GateOfLoops
  BY <1>2 DEF Init, QuietWhenNotUp, LiveRows, GateOfLoops, Registered, AtWork
<1>5. GateMatchesRows /\ OrphansShown /\ WorksAsPinned /\ StopShownIsStopKnown
  BY <1>2 DEF Init, GateMatchesRows, OrphansShown, WorksAsPinned, StopShownIsStopKnown,
              Registered
<1> QED BY <1>1, <1>3, <1>4, <1>5 DEF IInv

LEMMA NextIInv == IInv /\ [Next]_vars => IInv'
  BY NextTypeOK, NextSeatsHeld, NextControl, NextSeatedUnitRuns, NextTooLong
     DEF IInv, Control

(* The inductive invariant holds of every behaviour: seats, gates, rows and  *)
(* registry agree through every step, crash and restart (orchestrator.ts).   *)
THEOREM Invariance == Spec => []IInv
  BY InitIInv, NextIInv, PTL DEF Spec

(* Every variable keeps its type, in particular no loop runs past its last  *)
(* target and no unit takes a status of the other kind (loop.ts).           *)
THEOREM TypeCorrect == Spec => []TypeOK
<1>1. IInv => TypeOK
  BY DEF IInv
<1> QED BY <1>1, Invariance, PTL

(* One job at a time loads the model or waits for an answer, for any number *)
(* of runs (queue.ts, executor.ts runOne).                                  *)
THEOREM OneAtATime == Spec => []OneRequestAtATime
<1>1. IInv => OneRequestAtATime
  BY DEF IInv, SeatsHeld, AtWork, OneRequestAtATime
<1> QED BY <1>1, Invariance, PTL

(* Nothing is sent while an earlier generation may go on and the database   *)
(* has its trace (recovery-gate.ts, executor.ts, orchestrator.ts).          *)
THEOREM SilentWhileUnconfirmed == Spec => []NoSendWhileUnconfirmed
<1>1. IInv => NoSendWhileUnconfirmed
  <2> SUFFICES ASSUME IInv, NEW r \in Runs, loop[r].pc = "chat"
               PROVE  orphans \subseteq forgotten
    BY DEF NoSendWhileUnconfirmed
  <2>1. phase = "up"
    BY DEF IInv, QuietWhenNotUp, NoLoop
  <2>2. gate = {}
    BY DEF IInv, GateOfLoops, AtWork
  <2> QED BY <2>1, <2>2 DEF IInv, OrphansShown
<1> QED BY <1>1, Invariance, PTL

(* The recovery gate is closed for exactly the runs the user is asked about *)
(* (recovery-gate.ts, orchestrator.ts reconcileOnStartup).                  *)
THEOREM GateIsExact == Spec => []GateMatchesRows
<1>1. IInv => GateMatchesRows
  BY DEF IInv
<1> QED BY <1>1, Invariance, PTL

(* A loop never works under another connection or version than its run      *)
(* pins (orchestrator.ts resumeRun, retryFailedUnits; api/settings.ts).     *)
THEOREM PinsKept == Spec => []WorksAsPinned
<1>1. IInv => WorksAsPinned
  BY DEF IInv
<1> QED BY <1>1, Invariance, PTL

(* The stop a live run shows is the stop its gate knows (orchestrator.ts    *)
(* stopRun, runs.ts claimRun).                                              *)
THEOREM StopShown == Spec => []StopShownIsStopKnown
<1>1. IInv => StopShownIsStopKnown
  BY DEF IInv
<1> QED BY <1>1, Invariance, PTL


-----------------------------------------------------------------------------
(* What no step does, and the lifecycle                                     *)

(* The steps that are not the loops' own                                    *)
LEMMA StepKinds ==
  ASSUME IInv, Next
  PROVE  \/ \E r \in Runs : \/ UserStep(r) \/ OwnStep(r) \/ FinalizeRun(r)
                            \/ ChatLost(r) \/ InternalError(r) \/ ReconcileRun(r)
         \/ ChangeConnection \/ Crash \/ Boot \/ Listen
  BY LoopStepsAreOwn DEF Next

(* Only a loop whose stop was not requested begins to send (recovery.ts     *)
(* createStopGate, executor.ts runOne).                                     *)
THEOREM StopHonoured == Spec => StopIsHonoured
<1> DEFINE Honoured(r) == loop[r].stopReq /\ loop'[r].pc = "chat" => loop[r].pc = "chat"
<1>1. ASSUME IInv, [Next]_vars PROVE \A r \in Runs : Honoured(r)
  <2>a. loop \in [Runs -> Loop] /\ \A r \in Runs : loop[r] \in Loop
    BY <1>1 DEF IInv, TypeOK
  <2>1. CASE UNCHANGED vars
    BY <2>1 DEF vars
  <2>2. ASSUME NEW r \in Runs, OwnStep(r) PROVE \A q \in Runs : Honoured(q)
    BY <2>2 DEF OwnStep
  <2>3. ASSUME NEW r \in Runs, UserStep(r) PROVE \A q \in Runs : Honoured(q)
    <3>1. \A q \in Runs : loop'[q].pc = "chat" => loop[q].pc = "chat"
      <4>1. CASE StartRun(r)
        BY <4>1, <2>a DEF StartRun, Launch, NoLoop
      <4>2. CASE StopRun(r)
        BY <4>2, <2>a DEF StopRun, Loop
      <4>3. CASE ResumeRun(r)
        BY <4>3, <2>a DEF ResumeRun, Launch, NoLoop
      <4>4. CASE RetryFailedUnits(r)
        BY <4>4, <2>a DEF RetryFailedUnits, Launch, NoLoop
      <4>5. CASE ConfirmRecovery(r) \/ DeleteRun(r)
        BY <4>5 DEF ConfirmRecovery, DeleteRun
      <4> QED BY <2>3, <4>1, <4>2, <4>3, <4>4, <4>5 DEF UserStep
    <3> QED BY <3>1
  <2>4. ASSUME NEW r \in Runs, FinalizeRun(r) \/ ChatLost(r) \/ InternalError(r) \/ ReconcileRun(r)
        PROVE  \A q \in Runs : Honoured(q)
    <3>1. CASE FinalizeRun(r)
      BY <3>1, <2>a DEF FinalizeRun, NoLoop
    <3>2. CASE ChatLost(r)
      BY <3>2, <2>a DEF ChatLost, Resolve, Loop
    <3>3. CASE InternalError(r)
      BY <3>3, <2>a DEF InternalError, NoLoop
    <3>4. CASE ReconcileRun(r)
      BY <3>4 DEF ReconcileRun
    <3> QED BY <2>4, <3>1, <3>2, <3>3, <3>4
  <2>5. CASE ChangeConnection \/ Crash \/ Boot \/ Listen
    BY <2>5 DEF ChangeConnection, Crash, Boot, Listen, NoLoop
  <2> QED BY <1>1, <2>1, <2>2, <2>3, <2>4, <2>5, StepKinds
<1>2. IInv /\ [Next]_vars => [\A r \in Runs : Honoured(r)]_vars
  BY <1>1
<1> QED BY <1>2, Invariance, PTL DEF Spec, StopIsHonoured

(* The refinement of RunLifecycle, step by step                             *)
LStatus   == [r \in Runs |-> row[r].status]
LSending  == {r \in Runs : loop[r].pc = "chat"}
LSuspects == orphans \ forgotten

LEMMA StatusMoves ==
  ASSUME NEW r \in Runs, NEW st, row'[r].status = st,
         \A q \in Runs \ {r} : row'[q].status = row[q].status
  PROVE  LStatus' = [LStatus EXCEPT ![r] = st]
  BY DEF LStatus

LEMMA InitLifecycle == Init => Lifecycle!Init
  BY DEF Init, NoLoop, Lifecycle!Init

LEMMA NextLifecycle == IInv /\ [Next]_vars => [Lifecycle!Next]_(Lifecycle!vars)
<1> SUFFICES ASSUME IInv, [Next]_vars PROVE Lifecycle!Next \/ UNCHANGED <<LStatus, LSending, LSuspects>>
  BY DEF Lifecycle!vars, LStatus, LSending, LSuspects
<1>a. /\ loop \in [Runs -> Loop] /\ row \in [Runs -> Row] /\ gate \in SUBSET Runs
      /\ \A r \in Runs : loop[r] \in Loop /\ row[r] \in Row
      /\ orphans \in SUBSET Runs /\ forgotten \in SUBSET Runs
  BY DEF IInv, TypeOK
<1>b. \A q, r \in Runs : AtWork(q) /\ AtWork(r) => q = r
  BY DEF IInv, SeatsHeld
<1>c. /\ \A r \in Runs : loop[r].pc # "off" => row[r].status = "running"
      /\ phase = "up" => LSuspects \subseteq gate
      /\ phase # "up" => LSending = {}
  BY DEF IInv, LiveRows, Registered, OrphansShown, LSuspects, LSending, QuietWhenNotUp, NoLoop
<1>g. phase = "up" => \A r \in gate : row[r].status \in {"running", "recovery-waiting"}
  BY <1>a DEF IInv, GateMatchesRows
<1>d. \A r \in Runs : r \in LSending => LSending = {r} /\ AtWork(r)
  BY <1>b DEF AtWork, LSending
<1>e. LStatus \in [Runs -> RunStatus] /\ LSending \subseteq Runs /\ LSuspects \subseteq Runs
  BY <1>a DEF LStatus, LSending, LSuspects, Row
<1>f. \A r \in Runs : LStatus[r] = row[r].status
  BY DEF LStatus
<1> DEFINE Create(r) == /\ LStatus[r] = "absent"
                        /\ \E s \in {"running", "stopped"} : LStatus' = [LStatus EXCEPT ![r] = s]
                        /\ UNCHANGED <<LSending, LSuspects>>
           Send(r)   == /\ LStatus[r] = "running"
                        /\ LSending = {} /\ LSuspects = {}
                        /\ LSending' = {r}
                        /\ UNCHANGED <<LStatus, LSuspects>>
           Answer(r) == /\ r \in LSending
                        /\ LSending' = {}
                        /\ UNCHANGED <<LStatus, LSuspects>>
           Lose(r)   == /\ r \in LSending
                        /\ LSending' = {}
                        /\ LSuspects' = LSuspects \cup {r}
                        /\ UNCHANGED LStatus
           Rest(r)   == /\ LStatus[r] = "running"
                        /\ r \notin LSending
                        /\ \E s \in Lifecycle!Resting :
                             /\ r \in LSuspects => s = "recovery-waiting"
                             /\ LStatus' = [LStatus EXCEPT ![r] = s]
                        /\ UNCHANGED <<LSending, LSuspects>>
           Reopen(r) == /\ LStatus[r] \in {"stopped", "recovery-waiting", "partially-failed"}
                        /\ LStatus' = [LStatus EXCEPT ![r] = "running"]
                        /\ LSuspects' = LSuspects \ {r}
                        /\ UNCHANGED LSending
           Vouch(r)  == /\ r \in LSuspects
                        /\ LSuspects' = LSuspects \ {r}
                        /\ UNCHANGED <<LStatus, LSending>>
           Delete(r) == /\ LStatus[r] \in {"stopped", "completed", "partially-failed"}
                        /\ LStatus' = [LStatus EXCEPT ![r] = "deleted"]
                        /\ UNCHANGED <<LSending, LSuspects>>
           Restart   == /\ LSending' = {}
                        /\ \E lost \in SUBSET {r \in LSuspects : LStatus[r] = "running"} :
                             LSuspects' = (LSuspects \ lost) \cup LSending
                        /\ UNCHANGED LStatus
           Stutter   == UNCHANGED <<LStatus, LSending, LSuspects>>
           Goal      == Lifecycle!Next \/ Stutter
<1>m. /\ \A r \in Runs :
           (Create(r) \/ Send(r) \/ Answer(r) \/ Lose(r) \/ Rest(r) \/ Reopen(r) \/ Vouch(r)
             \/ Delete(r)) => Lifecycle!Next
      /\ Restart => Lifecycle!Next
  BY DEF Lifecycle!Next, Lifecycle!Create, Lifecycle!Send, Lifecycle!Answer, Lifecycle!Lose,
         Lifecycle!Rest, Lifecycle!Reopen, Lifecycle!Vouch, Lifecycle!Delete,
         Lifecycle!Restart, LStatus, LSending, LSuspects
<1> USE DEF dbVars, unitVars, processVars, historyVars
<1>1. ASSUME NEW r \in Runs, StartRun(r) PROVE Create(r)
  <2>1. row[r].status = "absent" /\ loop[r].pc = "off" /\ UNCHANGED LSuspects
    BY <1>1, <1>c DEF StartRun, LSuspects
  <2>2. \E s \in {"running", "stopped"} : LStatus' = [LStatus EXCEPT ![r] = s]
    <3>1. \E s \in {"running", "stopped"} : row'[r].status = s
      BY <1>1, <1>a DEF StartRun
    <3>2. \A q \in Runs \ {r} : row'[q] = row[q]
      BY <1>1, <1>a DEF StartRun
    <3> QED BY <3>1, <3>2, StatusMoves
  <2>3. UNCHANGED LSending
    BY <1>1, <1>a, <2>1 DEF StartRun, Launch, NoLoop, LSending
  <2> QED BY <1>f, <2>1, <2>2, <2>3
<1>2. ASSUME NEW r \in Runs, StopRun(r) PROVE Stutter
  <2>1. UNCHANGED LStatus
    BY <1>2, <1>a DEF StopRun, LStatus, Row
  <2>2. UNCHANGED <<LSending, LSuspects>>
    BY <1>2, <1>a DEF StopRun, LSending, LSuspects, Loop
  <2> QED BY <2>1, <2>2
<1>3. ASSUME NEW r \in Runs, ConfirmRecovery(r) PROVE Vouch(r) \/ Stutter
  <2>1. UNCHANGED LStatus
    BY <1>3, <1>a DEF ConfirmRecovery, MarkRecoveryConfirmed, LStatus, Row
  <2>2. UNCHANGED LSending /\ LSuspects' = LSuspects \ {r}
    BY <1>3, <1>a DEF ConfirmRecovery, MarkRecoveryConfirmed, LSending, LSuspects
  <2> QED BY <2>1, <2>2
<1>4. ASSUME NEW r \in Runs, ResumeRun(r) PROVE Reopen(r) \/ Vouch(r) \/ Stutter
  <2>1. /\ loop[r].pc = "off" /\ row[r].status \in {"stopped", "recovery-waiting"}
        /\ phase = "up"
    BY <1>4 DEF ResumeRun, Registered, Serving
  <2>2. CASE MarkRecoveryConfirmed(r) /\ UNCHANGED loop
    <3>1. UNCHANGED LStatus
      BY <2>2, <1>a DEF MarkRecoveryConfirmed, LStatus, Row
    <3>2. UNCHANGED LSending /\ LSuspects' = LSuspects \ {r}
      BY <2>2, <1>a DEF MarkRecoveryConfirmed, LSending, LSuspects
    <3> QED BY <3>1, <3>2
  <2>3. CASE ClaimRun(r) /\ Launch(r)
    <3>1. LStatus' = [LStatus EXCEPT ![r] = "running"]
      BY <2>3, <1>a DEF ClaimRun, LStatus, Row
    <3>2. UNCHANGED LSending
      BY <2>3, <2>1, <1>a DEF Launch, NoLoop, LSending
    <3>3. row[r].status = "stopped" => r \notin LSuspects
      BY <1>c, <1>g, <2>1
    <3>4. LSuspects' = LSuspects \ {r}
      <4>1. CASE row[r].status = "recovery-waiting"
        BY <1>4, <1>a, <2>3, <4>1 DEF ResumeRun, MarkRecoveryConfirmed, LSuspects
      <4>2. CASE row[r].status = "stopped"
        BY <1>4, <1>a, <2>3, <3>3, <4>2 DEF ResumeRun, LSuspects
      <4> QED BY <2>1, <4>1, <4>2
    <3> QED BY <1>f, <2>1, <3>1, <3>2, <3>4
  <2> QED BY <1>4, <2>2, <2>3 DEF ResumeRun
<1>5. ASSUME NEW r \in Runs, RetryFailedUnits(r) PROVE Reopen(r)
  <2>1. /\ loop[r].pc = "off" /\ row[r].status \in {"partially-failed", "stopped"}
        /\ phase = "up" /\ ClaimRun(r) /\ Launch(r) /\ UNCHANGED LSuspects
    BY <1>5 DEF RetryFailedUnits, Registered, Serving, LSuspects
  <2>2. LStatus' = [LStatus EXCEPT ![r] = "running"]
    BY <2>1, <1>a DEF ClaimRun, LStatus, Row
  <2>3. UNCHANGED LSending
    BY <2>1, <1>a DEF Launch, NoLoop, LSending
  <2>4. r \notin LSuspects
    BY <1>c, <1>g, <2>1
  <2> QED BY <1>f, <2>1, <2>2, <2>3, <2>4
<1>6. ASSUME NEW r \in Runs, DeleteRun(r) PROVE Delete(r)
  <2>1. LStatus' = [LStatus EXCEPT ![r] = "deleted"]
    BY <1>6, <1>a DEF DeleteRun, LStatus, Row
  <2>2. row[r].status \in {"stopped", "completed", "partially-failed"}
    BY <1>6, <1>a DEF DeleteRun, Row, RunStatus
  <2>3. UNCHANGED <<LSending, LSuspects>>
    BY <1>6 DEF DeleteRun, LSending, LSuspects
  <2> QED BY <1>f, <2>1, <2>2, <2>3
<1>7. ASSUME NEW r \in Runs, OwnStep(r) PROVE Send(r) \/ Answer(r) \/ Stutter
  <2>1. UNCHANGED <<LStatus, LSuspects>> /\ phase = "up" /\ row[r].status = "running"
    BY <1>7, <1>c DEF OwnStep, LStatus, LSuspects
  <2>2. CASE loop'[r].pc = "chat" <=> loop[r].pc = "chat"
    BY <1>7, <2>1, <2>2 DEF OwnStep, LSending
  <2>3. CASE loop'[r].pc # "chat" /\ loop[r].pc = "chat"
    <3>1. r \in LSending /\ LSending = {r}
      BY <2>3, <1>d DEF LSending
    <3>2. LSending' = {}
      BY <1>7, <2>3, <3>1 DEF OwnStep, LSending
    <3> QED BY <2>1, <3>1, <3>2
  <2>4. CASE loop'[r].pc = "chat" /\ loop[r].pc # "chat"
    <3>1. AtWork(r)
      BY <1>7, <2>4 DEF OwnStep, AtWork
    <3>2. LSending = {}
      BY <3>1, <1>b, <2>4 DEF LSending, AtWork
    <3>3. LSending' = {r}
      BY <1>7, <2>4, <3>2 DEF OwnStep, LSending
    <3>4. LSuspects = {}
      BY <3>1, <2>1, <1>c DEF IInv, GateOfLoops
    <3> QED BY <1>f, <2>1, <3>2, <3>3, <3>4
  <2> QED BY <2>2, <2>3, <2>4
<1>8. ASSUME NEW r \in Runs, ChatLost(r) PROVE Lose(r)
  <2>1. r \in LSending /\ LSending = {r} /\ UNCHANGED LStatus
    BY <1>8, <1>d DEF ChatLost, LSending, LStatus
  <2>2. LSending' = {}
    BY <1>8, <1>a, <2>1 DEF ChatLost, Resolve, LSending
  <2>3. LSuspects' = LSuspects \cup {r}
    BY <1>8, <1>a DEF ChatLost, LSuspects
  <2> QED BY <2>1, <2>2, <2>3
<1>9. ASSUME NEW r \in Runs, FinalizeRun(r) PROVE Rest(r)
  <2>1. /\ loop[r].pc = "finish" /\ row[r].status = "running" /\ phase = "up"
        /\ UNCHANGED LSuspects
    BY <1>9, <1>c DEF FinalizeRun, MayStep, LSuspects
  <2>2. r \in LSuspects => loop[r].halt = "unconfirmed"
    BY <2>1, <1>c DEF IInv, GateOfLoops, Registered
  <2>3. PICK s \in Lifecycle!Resting, b \in BOOLEAN :
          row' = FinishRow(r, s, b) /\ (loop[r].halt = "unconfirmed" => s = "recovery-waiting")
    BY <1>9 DEF FinalizeRun, StatusForUnconfirmed, Lifecycle!Resting
  <2>4. LStatus' = [LStatus EXCEPT ![r] = s]
    BY <2>3, <1>a DEF FinishRow, LStatus, Row
  <2>5. UNCHANGED LSending /\ r \notin LSending
    BY <1>9, <1>a, <2>1 DEF FinalizeRun, NoLoop, LSending
  <2> QED BY <1>f, <2>1, <2>2, <2>3, <2>4, <2>5
<1>10. ASSUME NEW r \in Runs, InternalError(r) PROVE Rest(r) \/ Stutter
  <2>1. /\ loop[r].pc \notin {"off", "queued", "ensure", "chat"} /\ row[r].status = "running"
        /\ phase = "up" /\ UNCHANGED LSuspects
    BY <1>10, <1>c DEF InternalError, MayStep, LSuspects
  <2>2. UNCHANGED LSending /\ r \notin LSending
    BY <1>10, <1>a, <2>1 DEF InternalError, NoLoop, LSending
  <2>3. CASE UNCHANGED dbVars
    BY <2>1, <2>2, <2>3 DEF LStatus
  <2>4. CASE row' = FinishRow(r, StatusForUnconfirmed(r \in gate), FALSE)
    <3>1. PICK s \in Lifecycle!Resting :
            s = StatusForUnconfirmed(r \in gate) /\ (r \in gate => s = "recovery-waiting")
      BY DEF StatusForUnconfirmed, Lifecycle!Resting
    <3>2. LStatus' = [LStatus EXCEPT ![r] = s]
      BY <2>4, <3>1, <1>a DEF FinishRow, LStatus, Row
    <3> QED BY <1>c, <1>f, <2>1, <2>2, <3>1, <3>2
  <2> QED BY <1>10, <2>3, <2>4 DEF InternalError
<1>11. ASSUME NEW r \in Runs, ReconcileRun(r) PROVE Rest(r)
  <2>1. /\ row[r].status = "running" /\ phase # "up" /\ UNCHANGED <<LSuspects, LSending>>
        /\ r \notin LSending
    BY <1>11, <1>c DEF ReconcileRun, LSuspects, LSending
  <2>2. r \in LSuspects => HasRunningUnit(r)
    BY <2>1 DEF IInv, OrphansShown, LSuspects
  <2>3. PICK s \in Lifecycle!Resting :
          s = StatusForUnconfirmed(HasRunningUnit(r)) /\ (HasRunningUnit(r) => s = "recovery-waiting")
    BY DEF StatusForUnconfirmed, Lifecycle!Resting
  <2>4. LStatus' = [LStatus EXCEPT ![r] = s]
    BY <1>11, <2>3, <1>a DEF ReconcileRun, FinishRow, LStatus, Row
  <2> QED BY <1>f, <2>1, <2>2, <2>3, <2>4
<1>12. CASE Crash
  <2>1. UNCHANGED LStatus /\ LSending' = {}
    BY <1>12 DEF Crash, LStatus, LSending, NoLoop
  <2> DEFINE gone == {r \in orphans \cup LSending : row[r].status = "running" /\ ~HasRunningUnit(r)}
             lost == {r \in LSuspects : r \in gone /\ r \notin LSending}
  <2>2. \A r \in LSending : HasRunningUnit(r)
    <3> SUFFICES ASSUME NEW r \in LSending PROVE HasRunningUnit(r)
      OBVIOUS
    <3>1. /\ r \in Runs /\ Unit(r) = <<loop[r].target, loop[r].persp>>
          /\ Slot(r) = <<loop[r].target, loop[r].job>>
          /\ IF loop[r].job = 0
             THEN loop[r].persp \in Perspectives /\ check[r][Unit(r)] = "running"
             ELSE recheck[r][Slot(r)] = "running"
      BY DEF IInv, SeatedUnitRuns, Seated, LSending, Unit, Slot
    <3>2. CASE loop[r].job = 0
      <4>1. Unit(r) \in CheckUnits
        BY <3>1, <3>2, <1>a DEF CheckUnits, Loop
      <4> QED BY <3>1, <3>2, <4>1 DEF HasRunningUnit
    <3>3. CASE loop[r].job # 0
      <4>1. Slot(r) \in Slots
        BY <3>1, <3>3, <1>a, ConstantsAssumption DEF Slots, Loop, Findings
      <4> QED BY <3>1, <3>3, <4>1 DEF HasRunningUnit
    <3> QED BY <3>2, <3>3
  <2>3. LSuspects' = ((orphans \cup LSending) \ ((forgotten \ LSending) \cup gone))
    BY <1>12 DEF Crash, LSuspects, LSending
  <2>4. gone \cap LSending = {}
    BY <2>2
  <2>5. LSuspects' = (LSuspects \ lost) \cup LSending
    BY <2>3, <2>4 DEF LSuspects
  <2>6. lost \in SUBSET {r \in LSuspects : LStatus[r] = "running"}
    BY <1>e, <1>f
  <2> QED BY <1>m, <2>1, <2>5, <2>6
<1>13. CASE ChangeConnection \/ Boot \/ Listen \/ UNCHANGED vars
  BY <1>13 DEF ChangeConnection, Boot, Listen, vars, LStatus, LSending, LSuspects
<1> HIDE DEF Create, Send, Answer, Lose, Rest, Reopen, Vouch, Delete, Restart
<1>14. ASSUME NEW r \in Runs, UserStep(r) PROVE Goal
  BY <1>14, <1>m, <1>1, <1>2, <1>3, <1>4, <1>5, <1>6 DEF UserStep
<1>15. ASSUME NEW r \in Runs, OwnStep(r) \/ FinalizeRun(r) \/ ChatLost(r) \/ InternalError(r)
                              \/ ReconcileRun(r)
       PROVE  Goal
  BY <1>15, <1>m, <1>7, <1>8, <1>9, <1>10, <1>11
<1> QED BY <1>12, <1>13, <1>14, <1>15, StepKinds

(* The run control implements RunLifecycle, for any number of runs: a run   *)
(* takes a status, and a request is sent, only as that module allows.       *)
THEOREM LifecycleKept == Spec => KeepsLifecycle
  BY InitLifecycle, NextLifecycle, Invariance, PTL DEF Spec, KeepsLifecycle, Lifecycle!Spec

(* The promises of RunLifecycle, of the run control itself: nothing is sent *)
(* beside a suspect, and a suspect always stands where the user can act on  *)
(* it, running or recovery-waiting (recovery-gate.ts, orchestrator.ts).     *)
THEOREM SuspectsQuietAndShown ==
  Spec => [](Lifecycle!QuietWhileSuspect /\ Lifecycle!SuspectsAreShown)
<1>1. ASSUME IInv PROVE Lifecycle!QuietWhileSuspect /\ Lifecycle!SuspectsAreShown
  <2>1. \A r \in orphans \ forgotten : row[r].status \in {"running", "recovery-waiting"}
    BY <1>1 DEF IInv, TypeOK, OrphansShown, GateMatchesRows
  <2>2. \A r \in Runs : loop[r].pc = "chat" => AtWork(r) /\ phase = "up"
    BY <1>1 DEF IInv, AtWork, QuietWhenNotUp, NoLoop
  <2>3. \A r \in Runs : loop[r].pc = "chat" => orphans \ forgotten = {}
    BY <1>1, <2>2 DEF IInv, GateOfLoops, OrphansShown
  <2>4. \A q, r \in Runs : AtWork(q) /\ AtWork(r) => q = r
    BY <1>1 DEF IInv, SeatsHeld
  <2>5. Lifecycle!SuspectsAreShown
    BY <1>1, <2>1 DEF Lifecycle!SuspectsAreShown, IInv, TypeOK
  <2>6. Lifecycle!QuietWhileSuspect
    BY <2>2, <2>3, <2>4 DEF Lifecycle!QuietWhileSuspect
  <2> QED BY <2>5, <2>6
<1> QED BY <1>1, Invariance, PTL

-----------------------------------------------------------------------------
(* What becomes of a run's units: the unit a loop has in hand, work that is *)
(* settled, and what a finished run says                                    *)

-----------------------------------------------------------------------------
(* One run: its rows and its loop                                           *)

View(r) == [row |-> row[r], check |-> check[r], finding |-> finding[r],
            recheck |-> recheck[r], loop |-> loop[r]]

RunView == [row : Row, check : [CheckUnits -> CheckStatus],
            finding : [Slots -> FindingState], recheck : [Slots -> RecheckStatus],
            loop : Loop]

OnCheck(l)   == l.pc \in InHand /\ l.job = 0
OnRecheck(l) == l.pc \in InHand /\ l.job # 0
Open(status) == status \in {"pending", "running"}

(* A registered run is running, and a unit is running only in a running run.*)
RunsOnlyWhileRunning(x) ==
  /\ x.loop.pc # "off" => x.row.status = "running"
  /\ \A u \in CheckUnits : x.check[u] = "running" => x.row.status = "running"
  /\ \A s \in Slots : x.recheck[s] = "running" => x.row.status = "running"

(* The units of a registered run that are running: the one in hand.         *)
HandGood(x) ==
  LET l == x.loop IN
  l.pc # "off" =>
    /\ \A t \in Targets, p \in Perspectives :
         x.check[<<t, p>>] = "running" => OnCheck(l) /\ t = l.target /\ p = l.persp
    /\ \A t \in Targets, g \in Findings :
         x.recheck[<<t, g>>] = "running" => OnRecheck(l) /\ t = l.target /\ g = l.job
    /\ OnCheck(l) => l.persp \in Perspectives /\ x.check[<<l.target, l.persp>>] = "running"
    /\ OnRecheck(l) => l.job \in Findings /\ x.recheck[<<l.target, l.job>>] = "running"

(* A run has all its check units or, rejected by the plan, none.            *)
PlanGood(x) ==
  /\ x.row.status \in {"absent", "deleted"} => \A u \in CheckUnits : x.check[u] = "none"
  /\ (\E u \in CheckUnits : x.check[u] = "none") =>
       /\ \A u \in CheckUnits : x.check[u] = "none"
       /\ \A s \in Slots : x.recheck[s] = "none"
  /\ x.row.status \notin {"absent", "deleted"}
     /\ (x.row.status \in {"running", "completed", "partially-failed"} \/ ~x.row.settings) =>
       \A u \in CheckUnits : x.check[u] # "none"

(* A recheck unit belongs to a finding, and is closed for a reason.         *)
ClosedGood(x) ==
  \A s \in Slots :
    /\ x.recheck[s] # "none" => x.finding[s] # "none"
    /\ x.recheck[s] = "disabled" => ~x.row.recheckOn
    /\ x.recheck[s] = "unlocated" => x.finding[s] = "unlocated"

(* What issueRechecks leaves of a target's findings, and what runRechecks   *)
Issued(x, t) ==
  /\ \A p \in Perspectives : ~Open(x.check[<<t, p>>])
  /\ \A g \in Findings :
       LET f == x.finding[<<t, g>>]
           k == x.recheck[<<t, g>>]
       IN /\ f # "none" => k # "none"
          /\ f = "open" /\ x.row.recheckOn => Open(k) \/ k \in {"done", "failed"}

Tidy(x, t) == Issued(x, t) /\ \A g \in Findings : ~Open(x.recheck[<<t, g>>])

(* What lies behind the loop is done: the units before its position, and    *)
(* the rechecks of the targets it has settled.                              *)
BehindGood(x) ==
  LET l == x.loop IN
  l.pc # "off" =>
    /\ \A t \in Targets : t < l.target => Tidy(x, t)
    /\ \A p \in Perspectives : p < l.persp => ~Open(x.check[<<l.target, p>>])
    /\ l.settled => Issued(x, l.target)
    /\ l.settled /\ l.pc \in {"scan", "settle"} => Tidy(x, l.target)
    /\ l.pc = "start" => ~l.settled

(* Where a loop may stand, and why it leaves                                *)
PlaceGood(x) ==
  LET l == x.loop IN
  /\ (l.pc \in {"settle", "recheck"} \/ OnRecheck(l)) /\ l.persp \in Perspectives =>
       ~Open(x.check[<<l.target, l.persp>>])
  /\ l.pc = "recheck" \/ OnRecheck(l) => l.settled
  /\ l.pc \notin {"resolved", "finish"} => l.halt = "none"
  /\ l.pc = "resolved" /\ l.halt = "none" => l.result # "pending"
  /\ l.pc = "finish" /\ l.halt = "none" =>
       l.target = NumTargets /\ l.persp = NumPerspectives + 1 /\ Tidy(x, l.target)

(* What a finished run says                                                 *)
SaysGood(x) ==
  x.row.status \in {"completed", "partially-failed"} =>
    LET failed == \/ \E u \in CheckUnits : x.check[u] \in {"failed", "tooLong"}
                  \/ \E s \in Slots : x.recheck[s] = "failed"
    IN /\ \A t \in Targets : Tidy(x, t)
       /\ x.row.status = "partially-failed" <=> failed

Good(x) ==
  /\ RunsOnlyWhileRunning(x)
  /\ HandGood(x)
  /\ PlanGood(x)
  /\ ClosedGood(x)
  /\ BehindGood(x)
  /\ PlaceGood(x)
  /\ SaysGood(x)

-----------------------------------------------------------------------------
(* What the steps do to one run, x before and y after                       *)

SameRow(x, y) ==
  /\ y.row.status = x.row.status
  /\ y.row.settings = x.row.settings
  /\ y.row.recheckOn = x.row.recheckOn

SameUnits(x, y) ==
  y.check = x.check /\ y.finding = x.finding /\ y.recheck = x.recheck

SamePlace(l, m) == m.target = l.target /\ m.persp = l.persp /\ m.settled = l.settled

Fresh(l) == l.pc = "start" /\ l.target = 1 /\ l.persp = 1 /\ ~l.settled /\ l.halt = "none"

(* Nothing but times and the wish to stop                                   *)
Noted(x, y) ==
  /\ SameRow(x, y) /\ SameUnits(x, y) /\ SamePlace(x.loop, y.loop)
  /\ y.loop.pc = x.loop.pc /\ y.loop.job = x.loop.job
  /\ y.loop.result = x.loop.result /\ y.loop.halt = x.loop.halt

Planned(x, y) ==
  /\ x.row.status = "absent"
  /\ y.finding = x.finding /\ y.recheck = x.recheck
  /\ \/ y.row.settings /\ \A u \in CheckUnits : y.check[u] = "none"
     \/ \A u \in CheckUnits : y.check[u] \in {"pending", "tooLong"}
  /\ \/ y.row.status = "stopped" /\ y.row.settings /\ y.loop = x.loop
     \/ y.row.status = "running" /\ ~y.row.settings /\ Fresh(y.loop)

Relaunched(x, y) ==
  /\ x.row.status \in {"stopped", "recovery-waiting", "partially-failed"}
  /\ y.row.status = "running" /\ y.row.recheckOn = x.row.recheckOn
  /\ y.finding = x.finding
  /\ \A u \in CheckUnits :
       y.check[u] = x.check[u] \/ (x.check[u] = "failed" /\ y.check[u] = "pending")
  /\ \A s \in Slots :
       y.recheck[s] = x.recheck[s] \/ (x.recheck[s] = "failed" /\ y.recheck[s] = "pending")
  /\ \/ ~x.row.settings
     \/ \E u \in CheckUnits : x.check[u] = "failed"
     \/ \E s \in Slots : x.recheck[s] = "failed"
  /\ Fresh(y.loop)

Deleted(x, y) ==
  /\ y.row.status = "deleted"
  /\ \A u \in CheckUnits : y.check[u] = "none"
  /\ \A s \in Slots : y.finding[s] = "none" /\ y.recheck[s] = "none"
  /\ y.loop = x.loop /\ x.loop.pc = "off"

(* The loop goes on without a write.                                        *)
Walks(x, y) == SameRow(x, y) /\ SameUnits(x, y)

Begun(x, y) ==
  /\ Walks(x, y) /\ SamePlace(x.loop, y.loop)
  /\ x.loop.pc = "start" /\ y.loop.pc = "scan" /\ y.loop.halt = x.loop.halt

Halted(x, y) ==
  /\ Walks(x, y) /\ SamePlace(x.loop, y.loop)
  /\ x.loop.pc \in {"scan", "recheck"} /\ y.loop.pc = "finish" /\ y.loop.halt # "none"

Skipped(x, y) ==
  /\ Walks(x, y)
  /\ x.loop.pc = "scan" /\ x.loop.persp \in Perspectives
  /\ x.check[<<x.loop.target, x.loop.persp>>] # "pending"
  /\ y.loop = [x.loop EXCEPT !.persp = x.loop.persp + 1]

EndReached(x, y) ==
  /\ Walks(x, y) /\ SamePlace(x.loop, y.loop)
  /\ x.loop.pc = "scan" /\ x.loop.persp = NumPerspectives + 1
  /\ y.loop.pc = "settle" /\ y.loop.halt = x.loop.halt

GoneOn(x, y) ==
  /\ Walks(x, y) /\ y.loop = Advance(x.loop)
  /\ \/ /\ x.loop.pc = "settle"
        /\ \/ x.loop.settled
           \/ \E p \in Perspectives : Open(x.check[<<x.loop.target, p>>])
     \/ /\ x.loop.pc = "recheck"
        /\ \A g \in Findings : x.recheck[<<x.loop.target, g>>] # "pending"

Waited(x, y) ==
  /\ Walks(x, y) /\ SamePlace(x.loop, y.loop) /\ y.loop.job = x.loop.job
  /\ x.loop.pc \in {"queued", "ensure", "chat"} /\ y.loop.pc \in {"queued", "ensure", "chat"}
  /\ y.loop.halt = x.loop.halt

Answered(x, y) ==
  /\ Walks(x, y) /\ SamePlace(x.loop, y.loop) /\ y.loop.job = x.loop.job
  /\ x.loop.pc \in {"queued", "ensure", "chat"} /\ y.loop.pc = "resolved"
  /\ y.loop.result = "pending" => y.loop.halt # "none"

(* The loop writes.                                                         *)
Claimed(x, y) ==
  /\ SameRow(x, y) /\ SamePlace(x.loop, y.loop)
  /\ y.finding = x.finding /\ y.recheck = x.recheck
  /\ x.loop.pc = "scan" /\ x.loop.persp \in Perspectives
  /\ x.check[<<x.loop.target, x.loop.persp>>] = "pending"
  /\ y.check = [x.check EXCEPT ![<<x.loop.target, x.loop.persp>>] = "running"]
  /\ y.loop.pc = "queued" /\ y.loop.job = 0 /\ y.loop.halt = x.loop.halt

Reissued(x, s) ==
  LET f == x.finding[s]
      new == CASE ~x.row.recheckOn -> "disabled"
               [] x.row.recheckOn /\ f \in {"unlocated", "suppressed"} -> f
               [] OTHER -> "pending"
  IN CASE f = "none" -> "none"
       [] f # "none" /\ x.recheck[s] = "none" -> new
       [] x.recheck[s] = "suppressed" /\ x.row.recheckOn /\ f = "open" -> "pending"
       [] OTHER -> x.recheck[s]

Opened(x, y) ==
  /\ SameRow(x, y)
  /\ y.check = x.check /\ y.finding = x.finding
  /\ x.loop.pc = "settle" /\ ~x.loop.settled
  /\ \A p \in Perspectives : ~Open(x.check[<<x.loop.target, p>>])
  /\ \A t \in Targets, g \in Findings :
       y.recheck[<<t, g>>] = IF t = x.loop.target THEN Reissued(x, <<t, g>>)
                             ELSE x.recheck[<<t, g>>]
  /\ y.loop = [x.loop EXCEPT !.pc = "recheck", !.settled = TRUE]

Reclaimed(x, y) ==
  /\ SameRow(x, y) /\ SamePlace(x.loop, y.loop)
  /\ y.check = x.check /\ y.finding = x.finding
  /\ x.loop.pc = "recheck" /\ y.loop.job \in Findings
  /\ x.recheck[<<x.loop.target, y.loop.job>>] = "pending"
  /\ y.recheck = [x.recheck EXCEPT ![<<x.loop.target, y.loop.job>>] = "running"]
  /\ \/ y.loop.pc = "queued"
     \/ y.loop.pc = "resolved" /\ y.loop.result = "failed"
  /\ y.loop.halt = x.loop.halt

Saved(x, y) ==
  LET l == x.loop IN
  /\ SameRow(x, y)
  /\ l.pc = "resolved" /\ l.job = 0
  /\ y.check = [x.check EXCEPT ![<<l.target, l.persp>>] = l.result]
  /\ \A t \in Targets, g \in Findings :
       LET f == x.finding[<<t, g>>]
           k == x.recheck[<<t, g>>]
           h == y.finding[<<t, g>>]
           j == y.recheck[<<t, g>>]
       IN /\ t # l.target => h = f /\ j = k
          /\ h \in Merged(f)
          /\ \/ j = k
             \/ k = "none" /\ h = "unlocated" /\ x.row.recheckOn /\ j = "unlocated"
             \/ k = "none" /\ h = "unlocated" /\ ~x.row.recheckOn /\ j = "disabled"
  /\ y.loop = AfterSave(l, "settle")

Resaved(x, y) ==
  LET l == x.loop IN
  /\ SameRow(x, y)
  /\ y.check = x.check /\ y.finding = x.finding
  /\ l.pc = "resolved" /\ l.job # 0 /\ l.result # "tooLong"
  /\ y.recheck = [x.recheck EXCEPT ![<<l.target, l.job>>] = l.result]
  /\ y.loop = AfterSave(l, "recheck")

(* The loop ends.                                                           *)
Finalized(x, y) ==
  LET failed == \/ \E u \in CheckUnits : x.check[u] \in {"failed", "tooLong"}
                \/ \E s \in Slots : x.recheck[s] = "failed"
  IN /\ SameUnits(x, y) /\ y.row.recheckOn = x.row.recheckOn
     /\ x.loop.pc = "finish" /\ y.loop = NoLoop
     /\ IF x.loop.halt # "none" THEN y.row.status \in {"stopped", "recovery-waiting"}
        ELSE y.row.status = IF failed THEN "partially-failed" ELSE "completed"

Abandoned(x, y) ==
  SameRow(x, y) /\ SameUnits(x, y) /\ y.loop = NoLoop

Reset(x, y) ==
  /\ x.row.status = "running"
  /\ y.row.status \in {"stopped", "recovery-waiting"}
  /\ y.row.recheckOn = x.row.recheckOn
  /\ y.finding = x.finding
  /\ \A u \in CheckUnits :
       y.check[u] = IF x.check[u] = "running" THEN "pending" ELSE x.check[u]
  /\ \A s \in Slots :
       y.recheck[s] = IF x.recheck[s] = "running" THEN "pending" ELSE x.recheck[s]
  /\ y.loop = NoLoop \/ (y.loop = x.loop /\ x.loop.pc = "off")

-----------------------------------------------------------------------------
LEMMA ViewFields ==
  ASSUME NEW x \in RunView
  PROVE  /\ x.row.status \in RunStatus /\ x.row.settings \in BOOLEAN
         /\ x.row.recheckOn \in BOOLEAN
         /\ x.check \in [CheckUnits -> CheckStatus]
         /\ x.finding \in [Slots -> FindingState]
         /\ x.recheck \in [Slots -> RecheckStatus]
         /\ x.loop \in Loop
         /\ x.loop.pc \in Pc /\ x.loop.target \in Targets
         /\ x.loop.persp \in 1 .. NumPerspectives + 1
         /\ x.loop.settled \in BOOLEAN /\ x.loop.job \in 0 .. NumFindings
         /\ x.loop.result \in {"pending", "done", "failed", "tooLong"}
         /\ x.loop.halt \in Halt
  BY DEF RunView, Row, Loop

LEMMA Numbers ==
  /\ NumTargets \in Nat /\ NumPerspectives \in Nat /\ NumFindings \in Nat
  /\ Targets \subseteq Nat /\ Perspectives \subseteq Nat /\ Findings \subseteq Nat
  /\ 1 \in Targets /\ 1 \in Perspectives
  /\ \A t \in Targets : t >= 1 /\ t <= NumTargets
  /\ \A p \in Perspectives : p >= 1 /\ p <= NumPerspectives
  /\ \A p \in 1 .. NumPerspectives + 1 :
       p \in Nat /\ (p \notin Perspectives => p = NumPerspectives + 1)
  /\ \A j \in 0 .. NumFindings : j # 0 => j \in Findings
  BY ConstantsAssumption DEF Targets, Perspectives, Findings

LEMMA Pairs ==
  /\ \A t \in Targets, p \in Perspectives : <<t, p>> \in CheckUnits
  /\ \A t \in Targets, g \in Findings : <<t, g>> \in Slots
  /\ \A u \in CheckUnits : \E t \in Targets, p \in Perspectives : u = <<t, p>>
  /\ \A s \in Slots : \E t \in Targets, g \in Findings : s = <<t, g>>
  BY DEF CheckUnits, Slots

(* When units and the row are left alone, so is what is said of them.       *)
LEMMA UnitsKept ==
  ASSUME NEW x \in RunView, NEW y \in RunView, Walks(x, y)
  PROVE  /\ \A t : Issued(y, t) <=> Issued(x, t)
         /\ \A t : Tidy(y, t) <=> Tidy(x, t)
         /\ PlanGood(x) => PlanGood(y)
         /\ ClosedGood(x) => ClosedGood(y)
         /\ SaysGood(x) => SaysGood(y)
<1>1. /\ y.check = x.check /\ y.finding = x.finding /\ y.recheck = x.recheck
      /\ y.row.status = x.row.status /\ y.row.settings = x.row.settings
      /\ y.row.recheckOn = x.row.recheckOn
  BY DEF Walks, SameUnits, SameRow
<1>2. \A t : Issued(y, t) <=> Issued(x, t)
  BY <1>1 DEF Issued
<1>3. \A t : Tidy(y, t) <=> Tidy(x, t)
  BY <1>1, <1>2 DEF Tidy
<1>4. PlanGood(x) => PlanGood(y)
  BY <1>1 DEF PlanGood
<1>5. ClosedGood(x) => ClosedGood(y)
  BY <1>1 DEF ClosedGood
<1>6. SaysGood(x) => SaysGood(y)
  BY <1>1, <1>3 DEF SaysGood
<1> QED
  BY <1>2, <1>3, <1>4, <1>5, <1>6

LEMMA WalkGood ==
  ASSUME NEW x \in RunView, NEW y \in RunView, Good(x), Walks(x, y),
         x.loop.pc # "off" \/ y.loop.pc = "off",
         HandGood(y), BehindGood(y), PlaceGood(y)
  PROVE  Good(y)
<1>1. RunsOnlyWhileRunning(y)
  BY DEF Good, RunsOnlyWhileRunning, Walks, SameUnits, SameRow
<1> QED
  BY <1>1, UnitsKept DEF Good

LEMMA NotedGood ==
  ASSUME NEW x \in RunView, NEW y \in RunView, Good(x), Noted(x, y)
  PROVE  Good(y)
<1>1. Walks(x, y)
  BY DEF Noted, Walks
<1>2. HandGood(y)
  BY DEF Good, HandGood, Noted, SameUnits, SamePlace, OnCheck, OnRecheck
<1>3. BehindGood(y)
  BY <1>1, UnitsKept DEF Good, BehindGood, Noted, SameUnits, SamePlace
<1>4. PlaceGood(y)
  BY <1>1, UnitsKept DEF Good, PlaceGood, Noted, SameUnits, SamePlace, OnRecheck
<1> QED
  BY <1>1, <1>2, <1>3, <1>4, WalkGood DEF Noted

LEMMA BegunGood ==
  ASSUME NEW x \in RunView, NEW y \in RunView, Good(x), Begun(x, y)
  PROVE  Good(y)
<1>1. Walks(x, y)
  BY DEF Begun
<1>2. HandGood(y)
  BY DEF Good, HandGood, Begun, Walks, SameUnits, SamePlace, OnCheck, OnRecheck, InHand
<1>3. BehindGood(y)
  BY <1>1, UnitsKept DEF Good, BehindGood, Begun, Walks, SameUnits, SamePlace
<1>4. PlaceGood(y)
  BY <1>1, UnitsKept DEF Good, PlaceGood, Begun, Walks, SameUnits, SamePlace, OnRecheck, InHand
<1> QED
  BY <1>1, <1>2, <1>3, <1>4, WalkGood DEF Begun

LEMMA HaltedGood ==
  ASSUME NEW x \in RunView, NEW y \in RunView, Good(x), Halted(x, y)
  PROVE  Good(y)
<1>1. Walks(x, y)
  BY DEF Halted
<1>2. HandGood(y)
  BY DEF Good, HandGood, Halted, Walks, SameUnits, SamePlace, OnCheck, OnRecheck, InHand
<1>3. BehindGood(y)
  BY <1>1, UnitsKept DEF Good, BehindGood, Halted, Walks, SameUnits, SamePlace
<1>4. PlaceGood(y)
  BY <1>1, UnitsKept DEF Good, PlaceGood, Halted, Walks, SameUnits, SamePlace, OnRecheck, InHand
<1> QED
  BY <1>1, <1>2, <1>3, <1>4, WalkGood DEF Halted

LEMMA EndReachedGood ==
  ASSUME NEW x \in RunView, NEW y \in RunView, Good(x), EndReached(x, y)
  PROVE  Good(y)
<1>1. Walks(x, y)
  BY DEF EndReached
<1>2. HandGood(y)
  BY DEF Good, HandGood, EndReached, Walks, SameUnits, SamePlace, OnCheck, OnRecheck, InHand
<1>3. BehindGood(y)
  BY <1>1, UnitsKept DEF Good, BehindGood, EndReached, Walks, SameUnits, SamePlace
<1>4. y.loop.persp \notin Perspectives
  BY Numbers DEF EndReached, SamePlace, Perspectives
<1>5. PlaceGood(y)
  BY <1>1, <1>4, UnitsKept
     DEF Good, PlaceGood, EndReached, Walks, SameUnits, SamePlace, OnRecheck, InHand
<1> QED
  BY <1>1, <1>2, <1>3, <1>5, WalkGood DEF EndReached

LEMMA WaitedGood ==
  ASSUME NEW x \in RunView, NEW y \in RunView, Good(x), Waited(x, y)
  PROVE  Good(y)
<1>1. Walks(x, y)
  BY DEF Waited
<1>2. HandGood(y)
  BY DEF Good, HandGood, Waited, Walks, SameUnits, SamePlace, OnCheck, OnRecheck, InHand
<1>3. BehindGood(y)
  BY <1>1, UnitsKept DEF Good, BehindGood, Waited, Walks, SameUnits, SamePlace
<1>4. PlaceGood(y)
  BY <1>1, UnitsKept DEF Good, PlaceGood, Waited, Walks, SameUnits, SamePlace, OnRecheck, InHand
<1> QED
  BY <1>1, <1>2, <1>3, <1>4, WalkGood DEF Waited

LEMMA AnsweredGood ==
  ASSUME NEW x \in RunView, NEW y \in RunView, Good(x), Answered(x, y)
  PROVE  Good(y)
<1>1. Walks(x, y)
  BY DEF Answered
<1>2. HandGood(y)
  BY DEF Good, HandGood, Answered, Walks, SameUnits, SamePlace, OnCheck, OnRecheck, InHand
<1>3. BehindGood(y)
  BY <1>1, UnitsKept DEF Good, BehindGood, Answered, Walks, SameUnits, SamePlace
<1>4. PlaceGood(y)
  BY <1>1, UnitsKept DEF Good, PlaceGood, Answered, Walks, SameUnits, SamePlace, OnRecheck, InHand
<1> QED
  BY <1>1, <1>2, <1>3, <1>4, WalkGood DEF Answered

LEMMA AbandonedGood ==
  ASSUME NEW x \in RunView, NEW y \in RunView, Good(x), Abandoned(x, y)
  PROVE  Good(y)
<1>1. Walks(x, y) /\ y.loop.pc = "off" /\ y.loop.halt = "none"
  BY DEF Abandoned, Walks, NoLoop
<1> QED
  BY <1>1, WalkGood DEF HandGood, BehindGood, PlaceGood, OnRecheck, InHand

LEMMA SkippedGood ==
  ASSUME NEW x \in RunView, NEW y \in RunView, Good(x), Skipped(x, y)
  PROVE  Good(y)
<1> DEFINE l == x.loop
<1>1. Walks(x, y)
  BY DEF Skipped
<1>2. /\ y.loop.pc = "scan" /\ l.pc = "scan" /\ y.loop.persp = l.persp + 1
      /\ y.loop.target = l.target /\ y.loop.settled = l.settled /\ y.loop.halt = l.halt
      /\ y.loop.job = l.job
  BY ViewFields DEF Skipped, Loop
<1>3. HandGood(y)
  BY <1>2 DEF Good, HandGood, Skipped, Walks, SameUnits, OnCheck, OnRecheck, InHand
<1>4. ~Open(x.check[<<l.target, l.persp>>])
  BY <1>2, ViewFields DEF Good, HandGood, Skipped, OnCheck, InHand, Open
<1>5. \A p \in Perspectives : p < y.loop.persp => ~Open(y.check[<<y.loop.target, p>>])
  BY <1>1, <1>2, <1>4, Numbers DEF Good, BehindGood, Skipped, Walks, SameUnits
<1>6. BehindGood(y)
  BY <1>1, <1>2, <1>5, UnitsKept DEF Good, BehindGood
<1>7. PlaceGood(y)
  BY <1>2 DEF Good, PlaceGood, OnRecheck, InHand
<1> QED
  BY <1>1, <1>2, <1>3, <1>6, <1>7, WalkGood

LEMMA GoneOnGood ==
  ASSUME NEW x \in RunView, NEW y \in RunView, Good(x), GoneOn(x, y)
  PROVE  Good(y)
<1> DEFINE l == x.loop
           m == y.loop
<1>1. Walks(x, y) /\ l.pc \in {"settle", "recheck"} /\ l.pc # "off"
  BY DEF GoneOn
<1>2. /\ l \in Loop /\ l.target \in Targets /\ l.persp \in 1 .. NumPerspectives + 1
      /\ l.halt = "none"
  BY <1>1, ViewFields DEF Good, PlaceGood
<1>3. l.settled => Tidy(x, l.target)
  <2>1. CASE l.pc = "settle"
    BY <2>1 DEF Good, BehindGood
  <2>2. CASE l.pc = "recheck"
    <3>1. \A g \in Findings : x.recheck[<<l.target, g>>] # "running"
      BY <1>2, <2>2 DEF Good, HandGood, OnRecheck, InHand
    <3>2. \A g \in Findings : x.recheck[<<l.target, g>>] # "pending"
      BY <2>2 DEF GoneOn
    <3> QED
      BY <2>2, <3>1, <3>2 DEF Good, BehindGood, Tidy, Open
  <2> QED
    BY <1>1, <2>1, <2>2
<1>4. l.persp \in Perspectives => ~Open(x.check[<<l.target, l.persp>>])
  BY <1>1 DEF Good, PlaceGood
<1>5. l.persp \notin Perspectives => Tidy(x, l.target)
  <2> SUFFICES ASSUME l.persp \notin Perspectives
               PROVE  l.settled
    BY <1>3
  <2>1. \A p \in Perspectives : p < l.persp
    <3>1. l.persp = NumPerspectives + 1
      BY <1>2, Numbers
    <3> HIDE DEF l
    <3> QED
      BY <3>1, Numbers
  <2>2. \A p \in Perspectives : ~Open(x.check[<<l.target, p>>])
    BY <1>1, <2>1 DEF Good, BehindGood
  <2> QED
    BY <2>2 DEF GoneOn, Good, PlaceGood
<1>6. /\ m.pc \in {"scan", "finish"} /\ m.halt = "none"
      /\ \/ /\ l.persp \in Perspectives
            /\ m.pc = "scan" /\ m.target = l.target /\ m.persp = l.persp + 1
            /\ m.settled = l.settled
         \/ /\ l.persp \notin Perspectives /\ l.target < NumTargets
            /\ m.pc = "scan" /\ m.target = l.target + 1 /\ m.persp = 1 /\ ~m.settled
         \/ /\ l.persp \notin Perspectives /\ ~(l.target < NumTargets)
            /\ m.pc = "finish" /\ m.target = l.target /\ m.persp = l.persp
            /\ m.settled = l.settled
  <2>1. m = Advance(l)
    BY DEF GoneOn
  <2>2. CASE l.persp \in Perspectives
    <3>1. m = [l EXCEPT !.pc = "scan", !.persp = l.persp + 1]
      BY <2>1, <2>2 DEF Advance
    <3> HIDE DEF m, l
    <3> QED
      BY <1>2, <2>2, <3>1 DEF Loop
  <2>3. CASE l.persp \notin Perspectives /\ l.target < NumTargets
    <3>1. m = [l EXCEPT !.pc = "scan", !.target = l.target + 1, !.persp = 1,
                        !.settled = FALSE]
      BY <2>1, <2>3 DEF Advance
    <3> HIDE DEF m, l
    <3> QED
      BY <1>2, <2>3, <3>1 DEF Loop
  <2>4. CASE l.persp \notin Perspectives /\ ~(l.target < NumTargets)
    <3>1. m = [l EXCEPT !.pc = "finish"]
      BY <2>1, <2>4 DEF Advance
    <3> HIDE DEF m, l
    <3> QED
      BY <1>2, <2>4, <3>1 DEF Loop
  <2> QED
    BY <2>2, <2>3, <2>4
<1>7. HandGood(y)
  BY <1>1, <1>6 DEF Good, HandGood, Walks, SameUnits, OnCheck, OnRecheck, InHand
<1>8. /\ \A t : Tidy(y, t) <=> Tidy(x, t)
      /\ \A t : Issued(y, t) <=> Issued(x, t)
      /\ y.check = x.check
  BY <1>1, UnitsKept DEF Walks, SameUnits
<1>9. /\ \A t \in Targets : t < l.target => Tidy(x, t)
      /\ \A p \in Perspectives : p < l.persp => ~Open(x.check[<<l.target, p>>])
      /\ l.settled => Issued(x, l.target)
  BY <1>1 DEF Good, BehindGood
<1> HIDE DEF l, m
<1>10. \A t \in Targets : t < m.target => Tidy(y, t)
  <2> SUFFICES ASSUME NEW t \in Targets, t < m.target
               PROVE  Tidy(x, t)
    BY <1>8
  <2>1. t \in Nat /\ l.target \in Nat
    BY <1>2, Numbers
  <2>2. CASE m.target = l.target
    BY <1>9, <2>2
  <2>3. CASE m.target = l.target + 1 /\ l.persp \notin Perspectives
    <3>1. t < l.target \/ t = l.target
      BY <2>1, <2>3
    <3> QED
      BY <1>5, <1>9, <2>3, <3>1
  <2> QED
    BY <1>6, <2>2, <2>3
<1>11. \A p \in Perspectives : p < m.persp => ~Open(y.check[<<m.target, p>>])
  BY <1>2, <1>4, <1>6, <1>8, <1>9, Numbers
<1>12. m.settled => Tidy(y, m.target) /\ Issued(y, m.target)
  BY <1>3, <1>6, <1>8, <1>9
<1>13. BehindGood(y)
  BY <1>6, <1>10, <1>11, <1>12 DEF BehindGood, m
<1>14. PlaceGood(y)
  <2>1. m.pc = "finish" =>
          m.target = NumTargets /\ m.persp = NumPerspectives + 1 /\ Tidy(y, m.target)
    <3> SUFFICES ASSUME m.pc = "finish"
                 PROVE  l.target = NumTargets /\ l.persp = NumPerspectives + 1
      BY <1>5, <1>6, <1>8
    <3>1. l.persp \notin Perspectives /\ ~(l.target < NumTargets)
      BY <1>6
    <3>2. l.persp = NumPerspectives + 1
      BY <1>2, <3>1, Numbers
    <3>3. l.target \in Nat /\ l.target <= NumTargets /\ NumTargets \in Nat
      BY <1>2, Numbers
    <3> QED
      BY <3>1, <3>2, <3>3
  <2> QED
    BY <1>6, <2>1 DEF PlaceGood, OnRecheck, InHand, m
<1> QED
  BY <1>1, <1>7, <1>13, <1>14, WalkGood DEF l

-----------------------------------------------------------------------------
(* A loop about to start has nothing behind it.                             *)
LEMMA FreshGood ==
  ASSUME NEW y \in RunView, Fresh(y.loop), y.row.status = "running",
         \A u \in CheckUnits : y.check[u] # "running",
         \A s \in Slots : y.recheck[s] # "running",
         PlanGood(y), ClosedGood(y)
  PROVE  Good(y)
<1>1. HandGood(y)
  BY Pairs DEF HandGood, Fresh, OnCheck, OnRecheck, InHand
<1>2. BehindGood(y)
  BY Numbers DEF BehindGood, Fresh
<1>3. PlaceGood(y)
  BY DEF PlaceGood, Fresh, OnRecheck, InHand
<1> QED
  BY <1>1, <1>2, <1>3 DEF Good, RunsOnlyWhileRunning, SaysGood

(* A run without a loop, at rest                                            *)
LEMMA RestGood ==
  ASSUME NEW y \in RunView, y.loop.pc = "off", y.loop.halt = "none",
         \A u \in CheckUnits : y.check[u] # "running",
         \A s \in Slots : y.recheck[s] # "running",
         PlanGood(y), ClosedGood(y), SaysGood(y)
  PROVE  Good(y)
  BY DEF Good, RunsOnlyWhileRunning, HandGood, BehindGood, PlaceGood, OnRecheck, InHand

LEMMA PlannedGood ==
  ASSUME NEW x \in RunView, NEW y \in RunView, Good(x), Planned(x, y)
  PROVE  Good(y)
<1>1. <<1, 1>> \in CheckUnits
  BY Numbers, Pairs
<1>2. \A u \in CheckUnits : x.check[u] = "none"
  BY DEF Good, PlanGood, Planned
<1>3. \A s \in Slots : x.recheck[s] = "none" /\ y.recheck[s] = "none"
  BY <1>1, <1>2 DEF Good, PlanGood, Planned
<1>4. x.loop.pc = "off" /\ x.loop.halt = "none"
  BY DEF Good, RunsOnlyWhileRunning, PlaceGood, Planned
<1>5. PlanGood(y)
  BY <1>1, <1>3 DEF PlanGood, Planned
<1>6. ClosedGood(y)
  BY <1>3 DEF ClosedGood
<1>7. \A u \in CheckUnits : y.check[u] # "running"
  BY DEF Planned
<1>8. CASE y.row.status = "running"
  BY <1>3, <1>5, <1>6, <1>7, <1>8, FreshGood DEF Planned
<1>9. CASE y.row.status = "stopped"
  BY <1>3, <1>4, <1>5, <1>6, <1>7, <1>9, RestGood DEF Planned, SaysGood
<1> QED
  BY <1>8, <1>9 DEF Planned

LEMMA RelaunchedGood ==
  ASSUME NEW x \in RunView, NEW y \in RunView, Good(x), Relaunched(x, y)
  PROVE  Good(y)
<1>1. \A u \in CheckUnits : x.check[u] # "none"
  BY DEF Good, PlanGood, Relaunched
<1>2. /\ \A u \in CheckUnits : y.check[u] \notin {"running", "none"}
      /\ \A s \in Slots : y.recheck[s] # "running"
  BY <1>1 DEF Good, RunsOnlyWhileRunning, Relaunched
<1>3. PlanGood(y)
  BY <1>2 DEF PlanGood, Relaunched
<1>4. ClosedGood(y)
  BY DEF Good, ClosedGood, Relaunched
<1> QED
  BY <1>2, <1>3, <1>4, FreshGood DEF Relaunched

LEMMA DeletedGood ==
  ASSUME NEW x \in RunView, NEW y \in RunView, Good(x), Deleted(x, y)
  PROVE  Good(y)
<1>1. y.loop.pc = "off" /\ y.loop.halt = "none"
  BY DEF Good, PlaceGood, Deleted
<1>2. PlanGood(y)
  BY DEF Deleted, PlanGood
<1>3. ClosedGood(y)
  BY DEF Deleted, ClosedGood
<1>4. SaysGood(y)
  BY DEF Deleted, SaysGood
<1> QED
  BY <1>1, <1>2, <1>3, <1>4, RestGood DEF Deleted

LEMMA ResetGood ==
  ASSUME NEW x \in RunView, NEW y \in RunView, Good(x), Reset(x, y)
  PROVE  Good(y)
<1>1. y.loop.pc = "off" /\ y.loop.halt = "none"
  BY DEF Good, PlaceGood, Reset, NoLoop
<1>2. /\ \A u \in CheckUnits : y.check[u] \notin {"running", "none"}
      /\ \A s \in Slots : y.recheck[s] # "running"
  BY DEF Reset, Good, PlanGood
<1>3. PlanGood(y)
  BY <1>2 DEF Reset, PlanGood
<1>4. ClosedGood(y)
  BY DEF Reset, Good, ClosedGood
<1> QED
  BY <1>1, <1>2, <1>3, <1>4, RestGood DEF Reset, SaysGood

LEMMA FinalizedGood ==
  ASSUME NEW x \in RunView, NEW y \in RunView, Good(x), Finalized(x, y)
  PROVE  Good(y)
<1> DEFINE l == x.loop
<1>1. /\ y.loop.pc = "off" /\ y.loop.halt = "none" /\ l.pc = "finish" /\ l.pc # "off"
      /\ y.check = x.check /\ y.finding = x.finding /\ y.recheck = x.recheck
      /\ y.row.recheckOn = x.row.recheckOn
      /\ y.row.status \in {"stopped", "recovery-waiting", "partially-failed", "completed"}
  BY DEF Finalized, SameUnits, NoLoop
<1>2. /\ \A u \in CheckUnits : y.check[u] # "running"
      /\ \A s \in Slots : y.recheck[s] # "running"
  BY <1>1, Pairs DEF Good, HandGood, OnCheck, OnRecheck, InHand
<1>3. \A u \in CheckUnits : x.check[u] # "none"
  BY <1>1 DEF Good, RunsOnlyWhileRunning, PlanGood
<1>4. PlanGood(y)
  BY <1>1, <1>3 DEF PlanGood
<1>5. ClosedGood(y)
  BY <1>1 DEF Good, ClosedGood
<1>6. SaysGood(y)
  <2> SUFFICES ASSUME y.row.status \in {"completed", "partially-failed"}
               PROVE  SaysGood(y)
    BY DEF SaysGood
  <2>1. l.halt = "none"
    BY DEF Finalized
  <2>2. /\ \A t \in Targets : t < l.target => Tidy(x, t)
        /\ l.target = NumTargets /\ Tidy(x, l.target)
    BY <1>1, <2>1 DEF Good, BehindGood, PlaceGood
  <2>3. \A t \in Targets : Tidy(x, t)
    BY <2>2, Numbers
  <2>4. \A t \in Targets : Tidy(y, t)
    BY <1>1, <2>3 DEF Tidy, Issued
  <2> QED
    BY <1>1, <2>1, <2>4 DEF SaysGood, Finalized
<1> QED
  BY <1>1, <1>2, <1>4, <1>5, <1>6, RestGood

-----------------------------------------------------------------------------
(* What is said of a target depends on its own units.                       *)
LEMMA TargetKept ==
  ASSUME NEW x \in RunView, NEW y \in RunView, NEW t \in Targets,
         y.row.recheckOn = x.row.recheckOn,
         \A p \in Perspectives : y.check[<<t, p>>] = x.check[<<t, p>>],
         \A g \in Findings : /\ y.finding[<<t, g>>] = x.finding[<<t, g>>]
                             /\ y.recheck[<<t, g>>] = x.recheck[<<t, g>>]
  PROVE  /\ Issued(y, t) <=> Issued(x, t)
         /\ Tidy(y, t) <=> Tidy(x, t)
<1>1. Issued(y, t) <=> Issued(x, t)
  BY DEF Issued
<1> QED
  BY <1>1 DEF Tidy

(* A run at work has its check units.                                       *)
LEMMA AtWorkPlanned ==
  ASSUME NEW x \in RunView, Good(x), x.loop.pc # "off"
  PROVE  /\ x.row.status = "running"
         /\ \A u \in CheckUnits : x.check[u] # "none"
<1>1. x.row.status = "running"
  BY DEF Good, RunsOnlyWhileRunning
<1> QED
  BY <1>1 DEF Good, PlanGood

(* A write of the loop to the units of its run keeps the rest.              *)
LEMMA WriteGood ==
  ASSUME NEW x \in RunView, NEW y \in RunView, Good(x), SameRow(x, y),
         x.loop.pc # "off",
         \A u \in CheckUnits : y.check[u] # "none",
         HandGood(y), ClosedGood(y), BehindGood(y), PlaceGood(y)
  PROVE  Good(y)
<1>1. y.row.status = "running"
  BY AtWorkPlanned DEF SameRow
<1>2. RunsOnlyWhileRunning(y)
  BY <1>1 DEF RunsOnlyWhileRunning
<1>3. PlanGood(y)
  BY <1>1 DEF PlanGood
<1>4. SaysGood(y)
  BY <1>1 DEF SaysGood
<1> QED
  BY <1>2, <1>3, <1>4 DEF Good

LEMMA ClaimedGood ==
  ASSUME NEW x \in RunView, NEW y \in RunView, Good(x), Claimed(x, y)
  PROVE  Good(y)
<1> DEFINE l == x.loop
           m == y.loop
           here == <<l.target, l.persp>>
<1>1. /\ l.pc = "scan" /\ l.pc # "off" /\ l.target \in Targets /\ l.persp \in Perspectives
      /\ m.target = l.target /\ m.persp = l.persp /\ m.settled = l.settled
      /\ m.pc = "queued" /\ m.job = 0 /\ m.halt = "none"
      /\ y.finding = x.finding /\ y.recheck = x.recheck
      /\ y.row.recheckOn = x.row.recheckOn
  BY ViewFields DEF Claimed, SamePlace, SameRow, Good, PlaceGood
<1>2. here \in CheckUnits /\ x.check[here] = "pending"
  BY <1>1, Pairs DEF Claimed
<1>3. /\ y.check[here] = "running"
      /\ \A t \in Targets, p \in Perspectives :
           t # l.target \/ p # l.persp => y.check[<<t, p>>] = x.check[<<t, p>>]
  <2>1. y.check = [x.check EXCEPT ![here] = "running"] /\ DOMAIN x.check = CheckUnits
    BY ViewFields DEF Claimed
  <2>2. \A t \in Targets, p \in Perspectives :
          <<t, p>> \in CheckUnits /\ (t # l.target \/ p # l.persp => <<t, p>> # here)
    BY Pairs
  <2> HIDE DEF here
  <2> QED
    BY <1>2, <2>1, <2>2
<1>4. /\ \A t \in Targets, p \in Perspectives : x.check[<<t, p>>] # "running"
      /\ \A t \in Targets, g \in Findings : x.recheck[<<t, g>>] # "running"
  BY <1>1 DEF Good, HandGood, OnCheck, OnRecheck, InHand
<1>5. HandGood(y)
  BY <1>1, <1>3, <1>4 DEF HandGood, OnCheck, OnRecheck, InHand
<1>6. \A u \in CheckUnits : y.check[u] # "none"
  <2>1. \A u \in CheckUnits : x.check[u] # "none"
    BY <1>1, AtWorkPlanned
  <2>2. \A t \in Targets, p \in Perspectives : y.check[<<t, p>>] # "none"
    BY <1>3, <2>1, Pairs
  <2> QED
    BY <2>2, Pairs
<1>7. ClosedGood(y)
  BY <1>1 DEF Good, ClosedGood
<1>8. ~l.settled
  BY <1>1, <1>2 DEF Good, BehindGood, Issued, Open
<1>9. \A t \in Targets : t < l.target => Tidy(y, t)
  <2> SUFFICES ASSUME NEW t \in Targets, t < l.target PROVE Tidy(y, t)
    OBVIOUS
  <2>1. Tidy(x, t)
    BY <1>1 DEF Good, BehindGood
  <2>2. t # l.target
    BY <1>1, Numbers
  <2> QED
    BY <1>1, <1>3, <2>1, <2>2, TargetKept
<1>10. \A p \in Perspectives : p < l.persp => ~Open(y.check[<<l.target, p>>])
  <2> SUFFICES ASSUME NEW p \in Perspectives, p < l.persp
               PROVE  ~Open(y.check[<<l.target, p>>])
    OBVIOUS
  <2>1. ~Open(x.check[<<l.target, p>>])
    BY <1>1 DEF Good, BehindGood
  <2>2. p # l.persp
    BY <1>1, Numbers
  <2> QED
    BY <1>1, <1>3, <2>1, <2>2
<1>11. BehindGood(y)
  BY <1>1, <1>8, <1>9, <1>10 DEF BehindGood
<1>12. PlaceGood(y)
  BY <1>1 DEF PlaceGood, OnRecheck
<1> QED
  BY <1>1, <1>5, <1>6, <1>7, <1>11, <1>12, WriteGood DEF Claimed

(* What issueRechecks makes of one recheck unit                             *)
LEMMA ReissuedUnit ==
  ASSUME NEW x \in RunView, Good(x), NEW s \in Slots
  PROVE  /\ Reissued(x, s) = "running" => x.recheck[s] = "running"
         /\ Reissued(x, s) # "none" => x.finding[s] # "none"
         /\ x.finding[s] # "none" => Reissued(x, s) # "none"
         /\ Reissued(x, s) = "disabled" => ~x.row.recheckOn
         /\ Reissued(x, s) = "unlocated" => x.finding[s] = "unlocated"
         /\ x.finding[s] = "open" /\ x.row.recheckOn =>
              Open(Reissued(x, s)) \/ Reissued(x, s) \in {"done", "failed"}
         /\ x.recheck[s] \in {"done", "disabled", "unlocated"} =>
              Reissued(x, s) = x.recheck[s]
<1>1. /\ x.recheck[s] # "none" => x.finding[s] # "none"
      /\ x.recheck[s] = "disabled" => ~x.row.recheckOn
      /\ x.recheck[s] = "unlocated" => x.finding[s] = "unlocated"
  BY DEF Good, ClosedGood
<1>2. x.recheck[s] \in RecheckStatus /\ x.finding[s] \in FindingState
  BY ViewFields
<1>3. CASE x.finding[s] = "none"
  <2>1. Reissued(x, s) = "none"
    BY <1>3 DEF Reissued
  <2> QED
    BY <1>1, <1>3, <2>1
<1>4. CASE x.finding[s] # "none" /\ x.recheck[s] = "none"
  <2>1. \/ Reissued(x, s) = "disabled" /\ ~x.row.recheckOn
        \/ Reissued(x, s) = "unlocated" /\ x.finding[s] = "unlocated"
        \/ Reissued(x, s) = "suppressed" /\ x.finding[s] = "suppressed"
        \/ Reissued(x, s) = "pending" /\ x.finding[s] # "unlocated"
    BY <1>4 DEF Reissued
  <2> QED
    BY <1>4, <2>1 DEF Open
<1>5. CASE /\ x.finding[s] # "none" /\ x.recheck[s] = "suppressed"
           /\ x.row.recheckOn /\ x.finding[s] = "open"
  <2>1. Reissued(x, s) = "pending"
    BY <1>5 DEF Reissued
  <2> QED
    BY <1>5, <2>1 DEF Open
<1>6. CASE /\ x.finding[s] # "none" /\ x.recheck[s] # "none"
           /\ ~(x.recheck[s] = "suppressed" /\ x.row.recheckOn /\ x.finding[s] = "open")
  <2>1. Reissued(x, s) = x.recheck[s]
    BY <1>6 DEF Reissued
  <2> QED
    BY <1>1, <1>2, <1>6, <2>1 DEF Open, RecheckStatus
<1> QED
  BY <1>3, <1>4, <1>5, <1>6

LEMMA OpenedGood ==
  ASSUME NEW x \in RunView, NEW y \in RunView, Good(x), Opened(x, y)
  PROVE  Good(y)
<1> DEFINE l == x.loop
           m == y.loop
<1>1. /\ l.pc = "settle" /\ l.pc # "off" /\ l.target \in Targets
      /\ y.check = x.check /\ y.finding = x.finding
      /\ y.row.recheckOn = x.row.recheckOn
      /\ \A p \in Perspectives : ~Open(x.check[<<l.target, p>>])
      /\ l.halt = "none"
  BY ViewFields DEF Opened, SameRow, Good, PlaceGood
<1>2. /\ m.target = l.target /\ m.persp = l.persp /\ m.settled
      /\ m.pc = "recheck" /\ m.halt = "none"
  <2>1. m = [l EXCEPT !.pc = "recheck", !.settled = TRUE] /\ l \in Loop
    BY ViewFields DEF Opened
  <2> HIDE DEF l, m
  <2> QED
    BY <1>1, <2>1 DEF Loop
<1>3. \A t \in Targets, g \in Findings :
        \/ t # l.target /\ y.recheck[<<t, g>>] = x.recheck[<<t, g>>]
        \/ t = l.target /\ y.recheck[<<t, g>>] = Reissued(x, <<t, g>>)
  BY DEF Opened
<1>4. /\ \A t \in Targets, p \in Perspectives : x.check[<<t, p>>] # "running"
      /\ \A t \in Targets, g \in Findings : x.recheck[<<t, g>>] # "running"
  BY <1>1 DEF Good, HandGood, OnCheck, OnRecheck, InHand
<1>5. \A t \in Targets, g \in Findings : y.recheck[<<t, g>>] # "running"
  <2> TAKE t \in Targets, g \in Findings
  <2>1. <<t, g>> \in Slots /\ x.recheck[<<t, g>>] # "running"
    BY <1>4, Pairs
  <2>2. Reissued(x, <<t, g>>) # "running"
    BY <2>1, ReissuedUnit
  <2> QED
    BY <1>3, <2>1, <2>2
<1>6. HandGood(y)
  BY <1>1, <1>2, <1>4, <1>5 DEF HandGood, OnCheck, OnRecheck, InHand
<1>7. ClosedGood(y)
  <2>1. \A t \in Targets, g \in Findings :
          /\ y.recheck[<<t, g>>] # "none" => y.finding[<<t, g>>] # "none"
          /\ y.recheck[<<t, g>>] = "disabled" => ~y.row.recheckOn
          /\ y.recheck[<<t, g>>] = "unlocated" => y.finding[<<t, g>>] = "unlocated"
    <3> TAKE t \in Targets, g \in Findings
    <3>1. CASE t # l.target
      BY <1>1, <1>3, <3>1, Pairs DEF Good, ClosedGood
    <3>2. CASE t = l.target
      BY <1>1, <1>3, <3>2, Pairs, ReissuedUnit
    <3> QED
      BY <3>1, <3>2
  <2> QED
    BY <2>1, Pairs DEF ClosedGood
<1>8. \A t \in Targets : t < l.target => Tidy(y, t)
  <2> SUFFICES ASSUME NEW t \in Targets, t < l.target PROVE Tidy(y, t)
    OBVIOUS
  <2>1. Tidy(x, t)
    BY <1>1 DEF Good, BehindGood
  <2>2. t # l.target
    BY <1>1, Numbers
  <2> QED
    BY <1>1, <1>3, <2>1, <2>2, TargetKept
<1>9. Issued(y, l.target)
  <2>1. \A g \in Findings : <<l.target, g>> \in Slots
    BY <1>1, Pairs
  <2>2. \A g \in Findings : y.recheck[<<l.target, g>>] = Reissued(x, <<l.target, g>>)
    BY <1>1, <1>3
  <2>3. \A g \in Findings :
          /\ x.finding[<<l.target, g>>] # "none" => y.recheck[<<l.target, g>>] # "none"
          /\ x.finding[<<l.target, g>>] = "open" /\ x.row.recheckOn =>
               \/ Open(y.recheck[<<l.target, g>>])
               \/ y.recheck[<<l.target, g>>] \in {"done", "failed"}
    BY <2>1, <2>2, ReissuedUnit
  <2> QED
    BY <1>1, <2>3 DEF Issued
<1>10. \A p \in Perspectives : ~Open(y.check[<<l.target, p>>])
  BY <1>1
<1>11. BehindGood(y)
  BY <1>2, <1>8, <1>9, <1>10 DEF BehindGood
<1>12. PlaceGood(y)
  <2>1. m.persp \in Perspectives => ~Open(y.check[<<m.target, m.persp>>])
    BY <1>2, <1>10
  <2> HIDE DEF m
  <2> QED
    BY <1>2, <2>1 DEF PlaceGood, OnRecheck, InHand, m
<1>13. \A u \in CheckUnits : y.check[u] # "none"
  BY <1>1, AtWorkPlanned
<1> QED
  BY <1>1, <1>6, <1>7, <1>11, <1>12, <1>13, WriteGood DEF Opened

LEMMA ReclaimedGood ==
  ASSUME NEW x \in RunView, NEW y \in RunView, Good(x), Reclaimed(x, y)
  PROVE  Good(y)
<1> DEFINE l == x.loop
           m == y.loop
           here == <<l.target, m.job>>
<1>1. /\ l.pc = "recheck" /\ l.pc # "off" /\ l.target \in Targets /\ m.job \in Findings
      /\ m.target = l.target /\ m.persp = l.persp /\ m.settled = l.settled
      /\ m.pc \in {"queued", "resolved"}
      /\ m.pc = "resolved" => m.result = "failed"
      /\ m.halt = "none"
      /\ y.finding = x.finding /\ y.check = x.check
      /\ y.row.recheckOn = x.row.recheckOn
  BY ViewFields DEF Reclaimed, SamePlace, SameRow, Good, PlaceGood
<1>2. /\ here \in Slots /\ x.recheck[here] = "pending" /\ m.job # 0
  <2>1. m.job # 0
    BY <1>1, Numbers DEF Findings
  <2> QED
    BY <1>1, <2>1, Pairs DEF Reclaimed
<1>3. /\ y.recheck[here] = "running"
      /\ \A t \in Targets, g \in Findings :
           t # l.target \/ g # m.job => y.recheck[<<t, g>>] = x.recheck[<<t, g>>]
  <2>1. y.recheck = [x.recheck EXCEPT ![here] = "running"] /\ DOMAIN x.recheck = Slots
    BY ViewFields DEF Reclaimed
  <2>2. \A t \in Targets, g \in Findings :
          <<t, g>> \in Slots /\ (t # l.target \/ g # m.job => <<t, g>> # here)
    BY Pairs
  <2> HIDE DEF here
  <2> QED
    BY <1>2, <2>1, <2>2
<1>4. /\ \A t \in Targets, p \in Perspectives : x.check[<<t, p>>] # "running"
      /\ \A t \in Targets, g \in Findings : x.recheck[<<t, g>>] # "running"
  BY <1>1 DEF Good, HandGood, OnCheck, OnRecheck, InHand
<1>5. HandGood(y)
  BY <1>1, <1>2, <1>3, <1>4 DEF HandGood, OnCheck, OnRecheck, InHand
<1>6. \A u \in CheckUnits : y.check[u] # "none"
  BY <1>1, AtWorkPlanned
<1>7. ClosedGood(y)
  <2>1. \A t \in Targets, g \in Findings :
          /\ y.recheck[<<t, g>>] # "none" => y.finding[<<t, g>>] # "none"
          /\ y.recheck[<<t, g>>] = "disabled" => ~y.row.recheckOn
          /\ y.recheck[<<t, g>>] = "unlocated" => y.finding[<<t, g>>] = "unlocated"
    <3> TAKE t \in Targets, g \in Findings
    <3>1. CASE t # l.target \/ g # m.job
      BY <1>1, <1>3, <3>1, Pairs DEF Good, ClosedGood
    <3>2. CASE t = l.target /\ g = m.job
      BY <1>1, <1>2, <1>3, <3>2 DEF Good, ClosedGood
    <3> QED
      BY <3>1, <3>2
  <2> QED
    BY <2>1, Pairs DEF ClosedGood
<1>8. l.settled /\ Issued(x, l.target)
  BY <1>1 DEF Good, PlaceGood, BehindGood
<1>9. Issued(y, l.target)
  <2> SUFFICES ASSUME NEW g \in Findings
               PROVE  \/ y.recheck[<<l.target, g>>] = x.recheck[<<l.target, g>>]
                      \/ y.recheck[<<l.target, g>>] = "running"
    BY <1>1, <1>8 DEF Issued, Open
  <2> QED
    BY <1>1, <1>3
<1>10. \A t \in Targets : t < l.target => Tidy(y, t)
  <2> SUFFICES ASSUME NEW t \in Targets, t < l.target PROVE Tidy(y, t)
    OBVIOUS
  <2>1. Tidy(x, t)
    BY <1>1 DEF Good, BehindGood
  <2>2. t # l.target
    BY <1>1, Numbers
  <2> QED
    BY <1>1, <1>3, <2>1, <2>2, TargetKept
<1>11. \A p \in Perspectives : ~Open(y.check[<<l.target, p>>])
  BY <1>1, <1>8 DEF Issued
<1>12. BehindGood(y)
  BY <1>1, <1>9, <1>10, <1>11 DEF BehindGood
<1>13. PlaceGood(y)
  <2>1. m.persp \in Perspectives => ~Open(y.check[<<m.target, m.persp>>])
    BY <1>1, <1>11
  <2>2. m.settled
    BY <1>1, <1>8
  <2> HIDE DEF m
  <2> QED
    BY <1>1, <2>1, <2>2 DEF PlaceGood, m
<1> QED
  BY <1>1, <1>5, <1>6, <1>7, <1>12, <1>13, WriteGood DEF Reclaimed

(* Where the loop stands once it has saved                                  *)
LEMMA AfterSaveFields ==
  ASSUME NEW l \in Loop, NEW next \in Pc
  PROVE  LET m == AfterSave(l, next) IN
         /\ m.target = l.target /\ m.persp = l.persp /\ m.settled = l.settled
         /\ m.halt = l.halt /\ m.job = 0
         /\ l.halt = "none" => m.pc = next
         /\ l.halt # "none" => m.pc = "finish"
  BY DEF AfterSave, Loop

LEMMA SavedGood ==
  ASSUME NEW x \in RunView, NEW y \in RunView, Good(x), Saved(x, y)
  PROVE  Good(y)
<1> DEFINE l == x.loop
           m == y.loop
           here == <<l.target, l.persp>>
<1>1. /\ l.pc = "resolved" /\ l.pc # "off" /\ l.job = 0 /\ OnCheck(l) /\ ~OnRecheck(l)
      /\ y.row.recheckOn = x.row.recheckOn
      /\ l.target \in Targets /\ l.persp \in Perspectives
      /\ here \in CheckUnits /\ x.check[here] = "running"
  BY ViewFields, Pairs DEF Saved, SameRow, Good, HandGood, OnCheck, OnRecheck, InHand
<1>2. /\ m.target = l.target /\ m.persp = l.persp /\ m.settled = l.settled
      /\ m.halt = l.halt /\ m.job = 0
      /\ \/ m.pc = "settle" /\ l.halt = "none"
         \/ m.pc = "finish" /\ l.halt # "none"
  <2>1. m = AfterSave(l, "settle") /\ l \in Loop /\ "settle" \in Pc
    BY ViewFields DEF Saved, Pc
  <2> HIDE DEF l, m
  <2> QED
    BY <2>1, AfterSaveFields
<1>3. /\ y.check[here] = l.result
      /\ l.result \in {"pending", "done", "failed", "tooLong"}
      /\ l.halt = "none" => ~Open(l.result)
      /\ \A t \in Targets, p \in Perspectives :
           t # l.target \/ p # l.persp => y.check[<<t, p>>] = x.check[<<t, p>>]
  <2>1. /\ y.check = [x.check EXCEPT ![here] = l.result] /\ DOMAIN x.check = CheckUnits
        /\ l.result \in {"pending", "done", "failed", "tooLong"}
        /\ l.halt = "none" => l.result # "pending"
    BY <1>1, ViewFields DEF Saved, Good, PlaceGood
  <2>2. \A t \in Targets, p \in Perspectives :
          <<t, p>> \in CheckUnits /\ (t # l.target \/ p # l.persp => <<t, p>> # here)
    BY Pairs
  <2>3. l.halt = "none" => ~Open(l.result)
    BY <2>1 DEF Open
  <2> HIDE DEF here
  <2> QED
    BY <1>1, <2>1, <2>2, <2>3
<1>4. /\ \A t \in Targets, p \in Perspectives :
           x.check[<<t, p>>] = "running" => t = l.target /\ p = l.persp
      /\ \A t \in Targets, g \in Findings : x.recheck[<<t, g>>] # "running"
  BY <1>1 DEF Good, HandGood
<1>5. \A t \in Targets, g \in Findings :
        /\ t # l.target => /\ y.finding[<<t, g>>] = x.finding[<<t, g>>]
                           /\ y.recheck[<<t, g>>] = x.recheck[<<t, g>>]
        /\ y.finding[<<t, g>>] \in Merged(x.finding[<<t, g>>])
        /\ \/ y.recheck[<<t, g>>] = x.recheck[<<t, g>>]
           \/ y.finding[<<t, g>>] = "unlocated" /\ x.row.recheckOn
              /\ y.recheck[<<t, g>>] = "unlocated"
           \/ y.finding[<<t, g>>] = "unlocated" /\ ~x.row.recheckOn
              /\ y.recheck[<<t, g>>] = "disabled"
  BY DEF Saved
<1>6. /\ \A t \in Targets, p \in Perspectives : y.check[<<t, p>>] # "running"
      /\ \A t \in Targets, g \in Findings : y.recheck[<<t, g>>] # "running"
  <2>1. \A t \in Targets, p \in Perspectives : y.check[<<t, p>>] # "running"
    <3> TAKE t \in Targets, p \in Perspectives
    <3>1. CASE t = l.target /\ p = l.persp
      BY <1>3, <3>1
    <3>2. CASE t # l.target \/ p # l.persp
      BY <1>3, <1>4, <3>2
    <3> QED
      BY <3>1, <3>2
  <2> QED
    BY <1>4, <1>5, <2>1
<1>7. HandGood(y)
  BY <1>2, <1>6 DEF HandGood, OnCheck, OnRecheck, InHand
<1>8. \A u \in CheckUnits : y.check[u] # "none"
  <2>1. \A u \in CheckUnits : x.check[u] # "none"
    BY <1>1, AtWorkPlanned
  <2>2. \A t \in Targets, p \in Perspectives : y.check[<<t, p>>] # "none"
    <3> TAKE t \in Targets, p \in Perspectives
    <3>1. CASE t = l.target /\ p = l.persp
      BY <1>3, <3>1
    <3>2. CASE t # l.target \/ p # l.persp
      BY <1>3, <2>1, <3>2, Pairs
    <3> QED
      BY <3>1, <3>2
  <2> QED
    BY <2>2, Pairs
<1>9. ClosedGood(y)
  <2>1. \A t \in Targets, g \in Findings :
          /\ y.recheck[<<t, g>>] # "none" => y.finding[<<t, g>>] # "none"
          /\ y.recheck[<<t, g>>] = "disabled" => ~y.row.recheckOn
          /\ y.recheck[<<t, g>>] = "unlocated" => y.finding[<<t, g>>] = "unlocated"
    <3> TAKE t \in Targets, g \in Findings
    <3>1. /\ x.recheck[<<t, g>>] # "none" => x.finding[<<t, g>>] # "none"
          /\ x.recheck[<<t, g>>] = "disabled" => ~x.row.recheckOn
          /\ x.recheck[<<t, g>>] = "unlocated" => x.finding[<<t, g>>] = "unlocated"
      BY Pairs DEF Good, ClosedGood
    <3>2. x.finding[<<t, g>>] # "none" =>
            /\ y.finding[<<t, g>>] # "none"
            /\ x.finding[<<t, g>>] = "unlocated" => y.finding[<<t, g>>] = "unlocated"
      BY <1>5 DEF Merged
    <3> QED
      BY <1>1, <1>5, <3>1, <3>2
  <2> QED
    BY <2>1, Pairs DEF ClosedGood
<1>10. ~l.settled
  BY <1>1 DEF Good, BehindGood, Issued, Open
<1>11. \A t \in Targets : t < l.target => Tidy(y, t)
  <2> SUFFICES ASSUME NEW t \in Targets, t < l.target PROVE Tidy(y, t)
    OBVIOUS
  <2>1. Tidy(x, t)
    BY <1>1 DEF Good, BehindGood
  <2>2. t # l.target
    BY <1>1, Numbers
  <2> QED
    BY <1>1, <1>3, <1>5, <2>1, <2>2, TargetKept
<1>12. \A p \in Perspectives : p < l.persp => ~Open(y.check[<<l.target, p>>])
  <2> SUFFICES ASSUME NEW p \in Perspectives, p < l.persp
               PROVE  ~Open(y.check[<<l.target, p>>])
    OBVIOUS
  <2>1. ~Open(x.check[<<l.target, p>>])
    BY <1>1 DEF Good, BehindGood
  <2>2. p # l.persp
    BY <1>1, Numbers
  <2> QED
    BY <1>1, <1>3, <2>1, <2>2
<1>13. BehindGood(y)
  BY <1>2, <1>10, <1>11, <1>12 DEF BehindGood
<1>14. PlaceGood(y)
  <2>1. m.pc = "settle" => ~Open(y.check[<<m.target, m.persp>>])
    BY <1>2, <1>3
  <2> HIDE DEF m
  <2> QED
    BY <1>2, <2>1 DEF PlaceGood, OnRecheck, InHand, m
<1> QED
  BY <1>1, <1>7, <1>8, <1>9, <1>13, <1>14, WriteGood DEF Saved

LEMMA ResavedGood ==
  ASSUME NEW x \in RunView, NEW y \in RunView, Good(x), Resaved(x, y)
  PROVE  Good(y)
<1> DEFINE l == x.loop
           m == y.loop
           here == <<l.target, l.job>>
<1>1. /\ l.pc = "resolved" /\ l.pc # "off" /\ l.job # 0 /\ OnRecheck(l) /\ ~OnCheck(l)
      /\ y.row.recheckOn = x.row.recheckOn
      /\ y.check = x.check /\ y.finding = x.finding
      /\ l.target \in Targets /\ l.job \in Findings
      /\ here \in Slots /\ x.recheck[here] = "running"
  BY ViewFields, Pairs DEF Resaved, SameRow, Good, HandGood, OnCheck, OnRecheck, InHand
<1>2. /\ m.target = l.target /\ m.persp = l.persp /\ m.settled = l.settled
      /\ m.halt = l.halt /\ m.job = 0
      /\ \/ m.pc = "recheck" /\ l.halt = "none"
         \/ m.pc = "finish" /\ l.halt # "none"
  <2>1. m = AfterSave(l, "recheck") /\ l \in Loop /\ "recheck" \in Pc
    BY ViewFields DEF Resaved, Pc
  <2> HIDE DEF l, m
  <2> QED
    BY <2>1, AfterSaveFields
<1>3. /\ y.recheck[here] = l.result
      /\ l.result \in {"pending", "done", "failed"}
      /\ \A t \in Targets, g \in Findings :
           t # l.target \/ g # l.job => y.recheck[<<t, g>>] = x.recheck[<<t, g>>]
  <2>1. /\ y.recheck = [x.recheck EXCEPT ![here] = l.result] /\ DOMAIN x.recheck = Slots
        /\ l.result \in {"pending", "done", "failed"}
    BY ViewFields DEF Resaved
  <2>2. \A t \in Targets, g \in Findings :
          <<t, g>> \in Slots /\ (t # l.target \/ g # l.job => <<t, g>> # here)
    BY Pairs
  <2> HIDE DEF here
  <2> QED
    BY <1>1, <2>1, <2>2
<1>4. /\ \A t \in Targets, p \in Perspectives : x.check[<<t, p>>] # "running"
      /\ \A t \in Targets, g \in Findings :
           x.recheck[<<t, g>>] = "running" => t = l.target /\ g = l.job
  BY <1>1 DEF Good, HandGood
<1>5. \A t \in Targets, g \in Findings : y.recheck[<<t, g>>] # "running"
  <2> TAKE t \in Targets, g \in Findings
  <2>1. CASE t = l.target /\ g = l.job
    BY <1>3, <2>1
  <2>2. CASE t # l.target \/ g # l.job
    BY <1>3, <1>4, <2>2
  <2> QED
    BY <2>1, <2>2
<1>6. HandGood(y)
  BY <1>1, <1>2, <1>4, <1>5 DEF HandGood, OnCheck, OnRecheck, InHand
<1>7. \A u \in CheckUnits : y.check[u] # "none"
  BY <1>1, AtWorkPlanned
<1>8. ClosedGood(y)
  <2>1. \A t \in Targets, g \in Findings :
          /\ y.recheck[<<t, g>>] # "none" => y.finding[<<t, g>>] # "none"
          /\ y.recheck[<<t, g>>] = "disabled" => ~y.row.recheckOn
          /\ y.recheck[<<t, g>>] = "unlocated" => y.finding[<<t, g>>] = "unlocated"
    <3> TAKE t \in Targets, g \in Findings
    <3>1. CASE t # l.target \/ g # l.job
      BY <1>1, <1>3, <3>1, Pairs DEF Good, ClosedGood
    <3>2. CASE t = l.target /\ g = l.job
      BY <1>1, <1>3, <3>2 DEF Good, ClosedGood
    <3> QED
      BY <3>1, <3>2
  <2> QED
    BY <2>1, Pairs DEF ClosedGood
<1>9. l.settled /\ Issued(x, l.target)
  BY <1>1 DEF Good, PlaceGood, BehindGood
<1>10. Issued(y, l.target)
  <2> SUFFICES ASSUME NEW g \in Findings
               PROVE  \/ y.recheck[<<l.target, g>>] = x.recheck[<<l.target, g>>]
                      \/ y.recheck[<<l.target, g>>] \in {"pending", "done", "failed"}
    BY <1>1, <1>9 DEF Issued, Open
  <2> QED
    BY <1>1, <1>3
<1>11. \A t \in Targets : t < l.target => Tidy(y, t)
  <2> SUFFICES ASSUME NEW t \in Targets, t < l.target PROVE Tidy(y, t)
    OBVIOUS
  <2>1. Tidy(x, t)
    BY <1>1 DEF Good, BehindGood
  <2>2. t # l.target
    BY <1>1, Numbers
  <2> QED
    BY <1>1, <1>3, <2>1, <2>2, TargetKept
<1>12. \A p \in Perspectives : ~Open(y.check[<<l.target, p>>])
  BY <1>1, <1>9 DEF Issued
<1>13. BehindGood(y)
  BY <1>2, <1>10, <1>11, <1>12 DEF BehindGood
<1>14. PlaceGood(y)
  <2>1. m.persp \in Perspectives => ~Open(y.check[<<m.target, m.persp>>])
    BY <1>2, <1>12
  <2>2. m.settled
    BY <1>2, <1>9
  <2> HIDE DEF m
  <2> QED
    BY <1>2, <2>1, <2>2 DEF PlaceGood, OnRecheck, InHand, m
<1> QED
  BY <1>1, <1>6, <1>7, <1>8, <1>13, <1>14, WriteGood DEF Resaved

-----------------------------------------------------------------------------
Moved(x, y) ==
  \/ Noted(x, y) \/ Planned(x, y) \/ Relaunched(x, y) \/ Deleted(x, y)
  \/ Begun(x, y) \/ Halted(x, y) \/ Skipped(x, y) \/ EndReached(x, y) \/ GoneOn(x, y)
  \/ Waited(x, y) \/ Answered(x, y)
  \/ Claimed(x, y) \/ Opened(x, y) \/ Reclaimed(x, y) \/ Saved(x, y) \/ Resaved(x, y)
  \/ Finalized(x, y) \/ Abandoned(x, y) \/ Reset(x, y)

LEMMA MovedGood ==
  ASSUME NEW x \in RunView, NEW y \in RunView, Good(x), Moved(x, y)
  PROVE  Good(y)
  BY NotedGood, PlannedGood, RelaunchedGood, DeletedGood, BegunGood, HaltedGood,
     SkippedGood, EndReachedGood, GoneOnGood, WaitedGood, AnsweredGood, ClaimedGood,
     OpenedGood, ReclaimedGood, SavedGood, ResavedGood, FinalizedGood, AbandonedGood,
     ResetGood, Zenon DEF Moved

(* Settled work is kept by every move but a deletion.                       *)
KeepsSettled(x, y) ==
  y.row.status # "deleted" =>
    /\ \A u \in CheckUnits : x.check[u] \in {"done", "tooLong"} => y.check[u] = x.check[u]
    /\ \A s \in Slots :
         /\ x.recheck[s] \in {"done", "disabled", "unlocated"} => y.recheck[s] = x.recheck[s]
         /\ x.finding[s] = "open" => y.finding[s] = "open"

LEMMA MovedKeeps ==
  ASSUME NEW x \in RunView, NEW y \in RunView, Good(x), Moved(x, y)
  PROVE  KeepsSettled(x, y)
<1>1. ASSUME SameUnits(x, y) PROVE KeepsSettled(x, y)
  BY <1>1 DEF SameUnits, KeepsSettled
<1>2. CASE \/ Noted(x, y) \/ Begun(x, y) \/ Halted(x, y) \/ Skipped(x, y)
           \/ EndReached(x, y) \/ GoneOn(x, y) \/ Waited(x, y) \/ Answered(x, y)
           \/ Finalized(x, y) \/ Abandoned(x, y)
  BY <1>1, <1>2 DEF Noted, Begun, Halted, Skipped, EndReached, GoneOn, Waited, Answered,
                    Finalized, Abandoned, Walks
<1>3. CASE Planned(x, y)
  <2>1. \A u \in CheckUnits : x.check[u] = "none"
    BY <1>3 DEF Good, PlanGood, Planned
  <2> QED
    BY <1>3, <2>1 DEF Planned, KeepsSettled
<1>4. CASE Relaunched(x, y)
  BY <1>4 DEF Relaunched, KeepsSettled
<1>5. CASE Deleted(x, y)
  BY <1>5 DEF Deleted, KeepsSettled
<1>6. CASE Claimed(x, y)
  <2>1. x.check \in [CheckUnits -> CheckStatus]
    BY ViewFields
  <2> QED
    BY <1>6, <2>1 DEF Claimed, KeepsSettled
<1>7. CASE Opened(x, y)
  <2>1. \A t \in Targets, g \in Findings :
          x.recheck[<<t, g>>] \in {"done", "disabled", "unlocated"} =>
            y.recheck[<<t, g>>] = x.recheck[<<t, g>>]
    <3> TAKE t \in Targets, g \in Findings
    <3>1. <<t, g>> \in Slots
      BY Pairs
    <3>2. x.recheck[<<t, g>>] \in {"done", "disabled", "unlocated"} =>
            Reissued(x, <<t, g>>) = x.recheck[<<t, g>>]
      BY <3>1, ReissuedUnit
    <3>3. y.recheck[<<t, g>>] \in {Reissued(x, <<t, g>>), x.recheck[<<t, g>>]}
      BY <1>7 DEF Opened
    <3> QED
      BY <3>2, <3>3
  <2>2. \A s \in Slots : x.recheck[s] \in {"done", "disabled", "unlocated"} =>
          y.recheck[s] = x.recheck[s]
    BY <2>1, Pairs
  <2>3. y.check = x.check /\ y.finding = x.finding
    BY <1>7 DEF Opened
  <2> QED
    BY <2>2, <2>3 DEF KeepsSettled
<1>8. CASE Reclaimed(x, y)
  <2>1. x.recheck \in [Slots -> RecheckStatus]
    BY ViewFields
  <2> QED
    BY <1>8, <2>1 DEF Reclaimed, KeepsSettled
<1>9. CASE Saved(x, y)
  <2>1. x.check \in [CheckUnits -> CheckStatus] /\ x.loop.pc # "off" /\ OnCheck(x.loop)
    BY <1>9, ViewFields DEF Saved, OnCheck, InHand
  <2>2. x.check[<<x.loop.target, x.loop.persp>>] = "running"
    BY <2>1 DEF Good, HandGood
  <2>3. \A u \in CheckUnits : x.check[u] \in {"done", "tooLong"} => y.check[u] = x.check[u]
    BY <1>9, <2>1, <2>2 DEF Saved
  <2>4. \A t \in Targets, g \in Findings :
          /\ x.recheck[<<t, g>>] # "none" => y.recheck[<<t, g>>] = x.recheck[<<t, g>>]
          /\ x.finding[<<t, g>>] = "open" => y.finding[<<t, g>>] = "open"
    BY <1>9 DEF Saved, Merged
  <2>5. \A s \in Slots :
          /\ x.recheck[s] # "none" => y.recheck[s] = x.recheck[s]
          /\ x.finding[s] = "open" => y.finding[s] = "open"
    BY <2>4, Pairs
  <2> QED
    BY <2>3, <2>5 DEF KeepsSettled
<1>10. CASE Resaved(x, y)
  <2>1. x.recheck \in [Slots -> RecheckStatus] /\ x.loop.pc # "off" /\ OnRecheck(x.loop)
    BY <1>10, ViewFields DEF Resaved, OnRecheck, InHand
  <2>2. x.recheck[<<x.loop.target, x.loop.job>>] = "running"
    BY <2>1 DEF Good, HandGood
  <2> QED
    BY <1>10, <2>1, <2>2 DEF Resaved, KeepsSettled
<1>11. CASE Reset(x, y)
  BY <1>11 DEF Reset, KeepsSettled
<1> QED
  BY <1>2, <1>3, <1>4, <1>5, <1>6, <1>7, <1>8, <1>9, <1>10, <1>11 DEF Moved

-----------------------------------------------------------------------------
(* The steps of the system, seen from one run                               *)

Acts(r) == UserStep(r) \/ LoopStep(r) \/ RequestStep(r) \/ InternalError(r) \/ ReconcileRun(r)

SameAs(q) ==
  /\ row'[q] = row[q] /\ check'[q] = check[q] /\ finding'[q] = finding[q]
  /\ recheck'[q] = recheck[q] /\ loop'[q] = loop[q]

LEMMA OthersKept ==
  ASSUME IInv, NEW r \in Runs, NEW q \in Runs \ {r}, Acts(r)
  PROVE  SameAs(q)
<1>a. /\ loop \in [Runs -> Loop] /\ row \in [Runs -> Row]
      /\ check \in [Runs -> [CheckUnits -> CheckStatus]]
      /\ finding \in [Runs -> [Slots -> FindingState]]
      /\ recheck \in [Runs -> [Slots -> RecheckStatus]]
  BY DEF IInv, TypeOK
<1> USE DEF SameAs, dbVars, unitVars, processVars, historyVars
<1>1. CASE StartRun(r)
  BY <1>1, <1>a DEF StartRun, Launch
<1>2. CASE StopRun(r) \/ ConfirmRecovery(r)
  BY <1>2, <1>a DEF StopRun, ConfirmRecovery, MarkRecoveryConfirmed
<1>3. CASE ResumeRun(r)
  BY <1>3, <1>a DEF ResumeRun, MarkRecoveryConfirmed, ClaimRun, Launch
<1>4. CASE RetryFailedUnits(r)
  BY <1>4, <1>a DEF RetryFailedUnits, ClaimRun, Launch
<1>5. CASE DeleteRun(r)
  BY <1>5, <1>a DEF DeleteRun
<1>6. CASE \/ BeginLoop(r) \/ StopBeforeUnit(r) \/ SkipUnit(r) \/ ClaimUnit(r)
           \/ EndOfPerspectives(r)
  BY <1>6, <1>a DEF BeginLoop, StopBeforeUnit, SkipUnit, ClaimUnit, EndOfPerspectives
<1>7. CASE SettleNothing(r) \/ RechecksDone(r) \/ StopBeforeRecheck(r)
  BY <1>7, <1>a DEF SettleNothing, RechecksDone, StopBeforeRecheck
<1>8. CASE IssueRechecks(r)
  BY <1>8, <1>a DEF IssueRechecks
<1>9. CASE ClaimRecheck(r)
  <2>1. PICK f \in PendingRechecks(r) :
          recheck' = [recheck EXCEPT ![r][<<loop[r].target, f>>] = "running"]
    BY <1>9 DEF ClaimRecheck
  <2>2. recheck'[q] = recheck[q]
    BY <1>a, <2>1
  <2>3. loop'[q] = loop[q]
    BY <1>9, <1>a DEF ClaimRecheck
  <2> QED
    BY <1>9, <2>2, <2>3 DEF ClaimRecheck
<1>10. CASE SaveCheck(r)
  BY <1>10, <1>a DEF SaveCheck
<1>11. CASE SaveRecheck(r)
  BY <1>11, <1>a DEF SaveRecheck
<1>12. CASE FinalizeRun(r)
  BY <1>12, <1>a DEF FinalizeRun, FinishRow
<1>13. CASE RequestStep(r)
  BY <1>13, <1>a DEF RequestStep, CancelQueued, TakeTurn, EnsureLoaded, ChatAnswered,
                     RetryChat, ChatLost, Resolve
<1>14. CASE InternalError(r)
  BY <1>14, <1>a DEF InternalError, FinishRow, ResetRunningUnits
<1>15. CASE ReconcileRun(r)
  BY <1>15, <1>a DEF ReconcileRun, FinishRow, ResetRunningUnits
<1> QED
  BY <1>1, <1>2, <1>3, <1>4, <1>5, <1>6, <1>7, <1>8, <1>9, <1>10, <1>11, <1>12, <1>13,
     <1>14, <1>15 DEF Acts, UserStep, LoopStep

(* A run before and after a step                                            *)
LEMMA Views ==
  ASSUME NEW q \in Runs
  PROVE  /\ View(q).row = row[q] /\ View(q).check = check[q] /\ View(q).finding = finding[q]
         /\ View(q).recheck = recheck[q] /\ View(q).loop = loop[q]
         /\ View(q)'.row = row'[q] /\ View(q)'.check = check'[q]
         /\ View(q)'.finding = finding'[q] /\ View(q)'.recheck = recheck'[q]
         /\ View(q)'.loop = loop'[q]
  BY DEF View

LEMMA SameIsNoted ==
  ASSUME NEW q \in Runs, SameAs(q)
  PROVE  Noted(View(q), View(q)')
  BY Views DEF SameAs, Noted, SameRow, SameUnits, SamePlace

(* The user's operations, seen from the run they are about                  *)
LEMMA UserMoves ==
  ASSUME IInv, NEW r \in Runs, UserStep(r)
  PROVE  Moved(View(r), View(r)')
<1>a. /\ loop \in [Runs -> Loop] /\ row \in [Runs -> Row] /\ loop[r] \in Loop /\ row[r] \in Row
      /\ check \in [Runs -> [CheckUnits -> CheckStatus]]
      /\ finding \in [Runs -> [Slots -> FindingState]]
      /\ recheck \in [Runs -> [Slots -> RecheckStatus]]
  BY DEF IInv, TypeOK
<1>f. Launch(r) => Fresh(loop'[r])
  BY <1>a DEF Launch, Fresh, NoLoop
<1> DEFINE x == View(r)
           y == View(r)'
<1>v. /\ x.row = row[r] /\ x.check = check[r] /\ x.finding = finding[r]
      /\ x.recheck = recheck[r] /\ x.loop = loop[r]
      /\ y.row = row'[r] /\ y.check = check'[r] /\ y.finding = finding'[r]
      /\ y.recheck = recheck'[r] /\ y.loop = loop'[r]
  BY Views
<1> HIDE DEF x, y
<1> USE DEF dbVars, unitVars, processVars, historyVars
<1>1. CASE StartRun(r)
  <2>1. PICK on \in RecheckSettings, valid \in BOOLEAN, long \in SUBSET Targets :
          LET planned == valid /\ long = {} IN
          /\ valid \/ long = {}
          /\ row' = [row EXCEPT ![r] =
               [status |-> IF planned THEN "running" ELSE "stopped",
                settings |-> ~planned, stopAt |-> FALSE, confirmed |-> FALSE,
                recheckOn |-> on, endpoint |-> endpoint, version |-> version]]
          /\ check' = [check EXCEPT ![r] =
               [u \in CheckUnits |-> CASE ~valid -> "none"
                                       [] valid /\ u[1] \in long -> "tooLong"
                                       [] OTHER -> "pending"]]
          /\ IF planned THEN Launch(r) ELSE UNCHANGED loop
    BY <1>1, Zenon DEF StartRun
  <2>2. /\ row[r].status = "absent" /\ y.finding = x.finding /\ y.recheck = x.recheck
    BY <1>1, <1>v DEF StartRun
  <2>3. CASE valid /\ long = {}
    <3>1. /\ row'[r].status = "running" /\ ~row'[r].settings
          /\ \A u \in CheckUnits : check'[r][u] = "pending"
          /\ Launch(r)
      BY <1>a, <2>1, <2>3
    <3>2. Planned(x, y)
      BY <1>f, <1>v, <2>2, <3>1 DEF Planned
    <3> QED
      BY <3>2 DEF Moved, x, y
  <2>4. CASE valid /\ long # {}
    <3>1. /\ row'[r].status = "stopped" /\ row'[r].settings /\ loop' = loop
          /\ \A u \in CheckUnits : check'[r][u] \in {"pending", "tooLong"}
      BY <1>a, <2>1, <2>4
    <3>2. Planned(x, y)
      BY <1>v, <2>2, <3>1 DEF Planned
    <3> QED
      BY <3>2 DEF Moved, x, y
  <2>5. CASE ~valid
    <3>1. /\ row'[r].status = "stopped" /\ row'[r].settings /\ loop' = loop
          /\ \A u \in CheckUnits : check'[r][u] = "none"
      BY <1>a, <2>1, <2>5
    <3>2. Planned(x, y)
      BY <1>v, <2>2, <3>1 DEF Planned
    <3> QED
      BY <3>2 DEF Moved, x, y
  <2> QED
    BY <2>3, <2>4, <2>5
<1>2. CASE StopRun(r)
  <2>1. Noted(x, y)
    BY <1>2, <1>a, <1>v DEF StopRun, Noted, SameRow, SameUnits, SamePlace, Row, Loop
  <2> QED
    BY <2>1 DEF Moved, x, y
<1>3. CASE ConfirmRecovery(r)
  <2>1. Noted(x, y)
    BY <1>3, <1>a, <1>v
       DEF ConfirmRecovery, MarkRecoveryConfirmed, Noted, SameRow, SameUnits, SamePlace, Row
  <2> QED
    BY <2>1 DEF Moved, x, y
<1>4. CASE ResumeRun(r)
  <2>1. CASE MarkRecoveryConfirmed(r) /\ UNCHANGED loop
    <3>1. Noted(x, y)
      BY <1>4, <1>a, <1>v, <2>1
         DEF ResumeRun, MarkRecoveryConfirmed, Noted, SameRow, SameUnits, SamePlace, Row
    <3> QED
      BY <3>1 DEF Moved, x, y
  <2>2. CASE ClaimRun(r) /\ Launch(r)
    <3>1. /\ row'[r].status = "running" /\ row'[r].recheckOn = row[r].recheckOn
      BY <1>a, <2>2 DEF ClaimRun, Row
    <3>2. Relaunched(x, y)
      BY <1>4, <1>f, <1>v, <2>2, <3>1 DEF ResumeRun, Relaunched
    <3> QED
      BY <3>2 DEF Moved, x, y
  <2> QED
    BY <1>4, <2>1, <2>2 DEF ResumeRun
<1>5. CASE RetryFailedUnits(r)
  <2>1. PICK cs \in SUBSET RetryableChecks(r), rs \in SUBSET RetryableRechecks(r) :
          /\ cs # {} \/ rs # {}
          /\ check' = [check EXCEPT ![r] =
               [u \in CheckUnits |-> IF u \in cs THEN "pending" ELSE @[u]]]
          /\ recheck' = [recheck EXCEPT ![r] =
               [s \in Slots |-> IF s \in rs THEN "pending" ELSE @[s]]]
    BY <1>5, Zenon DEF RetryFailedUnits
  <2>2. /\ \A u \in CheckUnits :
             check'[r][u] = check[r][u] \/ (check[r][u] = "failed" /\ check'[r][u] = "pending")
        /\ \A s \in Slots :
             recheck'[r][s] = recheck[r][s]
               \/ (recheck[r][s] = "failed" /\ recheck'[r][s] = "pending")
        /\ \/ \E u \in CheckUnits : check[r][u] = "failed"
           \/ \E s \in Slots : recheck[r][s] = "failed"
    BY <1>a, <2>1 DEF RetryableChecks, RetryableRechecks
  <2>3. /\ row'[r].status = "running" /\ row'[r].recheckOn = row[r].recheckOn
        /\ row[r].status \in {"stopped", "partially-failed"}
        /\ finding' = finding /\ Fresh(loop'[r])
    BY <1>5, <1>a, <1>f DEF RetryFailedUnits, ClaimRun, Row
  <2>4. Relaunched(x, y)
    BY <1>v, <2>2, <2>3 DEF Relaunched
  <2> QED
    BY <2>4 DEF Moved, x, y
<1>6. CASE DeleteRun(r)
  <2>1. Deleted(x, y)
    BY <1>6, <1>a, <1>v DEF DeleteRun, Deleted, Registered, Row
  <2> QED
    BY <2>1 DEF Moved, x, y
<1> QED
  BY <1>1, <1>2, <1>3, <1>4, <1>5, <1>6 DEF UserStep

(* The steps of the run loop                                                *)
LEMMA LoopMoves ==
  ASSUME IInv, NEW r \in Runs, LoopStep(r)
  PROVE  Moved(View(r), View(r)')
<1>a. /\ loop \in [Runs -> Loop] /\ row \in [Runs -> Row] /\ loop[r] \in Loop /\ row[r] \in Row
      /\ check \in [Runs -> [CheckUnits -> CheckStatus]]
      /\ finding \in [Runs -> [Slots -> FindingState]]
      /\ recheck \in [Runs -> [Slots -> RecheckStatus]]
  BY DEF IInv, TypeOK
<1> DEFINE x == View(r)
           y == View(r)'
<1>v. /\ x.row = row[r] /\ x.check = check[r] /\ x.finding = finding[r]
      /\ x.recheck = recheck[r] /\ x.loop = loop[r]
      /\ y.row = row'[r] /\ y.check = check'[r] /\ y.finding = finding'[r]
      /\ y.recheck = recheck'[r] /\ y.loop = loop'[r]
  BY Views
<1> HIDE DEF x, y
<1> SUFFICES Moved(x, y)
  BY DEF x, y
<1>w. UNCHANGED dbVars => Walks(x, y)
  BY <1>v DEF dbVars, Walks, SameRow, SameUnits
<1> USE DEF dbVars, unitVars
<1>1. CASE BeginLoop(r)
  BY <1>1, <1>a, <1>v, <1>w DEF BeginLoop, Begun, SamePlace, Loop, Moved
<1>2. CASE StopBeforeUnit(r)
  BY <1>2, <1>a, <1>v, <1>w DEF StopBeforeUnit, Halted, SamePlace, Loop, Moved
<1>3. CASE SkipUnit(r)
  BY <1>3, <1>a, <1>v, <1>w DEF SkipUnit, Unit, Skipped, Moved
<1>4. CASE ClaimUnit(r)
  <2>1. /\ SameRow(x, y) /\ SamePlace(x.loop, y.loop)
        /\ y.finding = x.finding /\ y.recheck = x.recheck
        /\ y.loop.pc = "queued" /\ y.loop.job = 0 /\ y.loop.halt = x.loop.halt
    BY <1>4, <1>a, <1>v DEF ClaimUnit, SameRow, SamePlace, Loop
  <2>2. y.check = [x.check EXCEPT ![<<x.loop.target, x.loop.persp>>] = "running"]
    BY <1>4, <1>a, <1>v DEF ClaimUnit, Unit
  <2> QED
    BY <1>4, <1>v, <2>1, <2>2 DEF ClaimUnit, Unit, Claimed, Moved
<1>5. CASE EndOfPerspectives(r)
  BY <1>5, <1>a, <1>v, <1>w DEF EndOfPerspectives, EndReached, SamePlace, Loop, Moved
<1>6. CASE SettleNothing(r)
  BY <1>6, <1>a, <1>v, <1>w DEF SettleNothing, Unfinished, Open, GoneOn, Moved
<1>7. CASE RechecksDone(r)
  BY <1>7, <1>a, <1>v, <1>w DEF RechecksDone, PendingRechecks, GoneOn, Moved
<1>8. CASE StopBeforeRecheck(r)
  BY <1>8, <1>a, <1>v, <1>w DEF StopBeforeRecheck, Halted, SamePlace, Loop, Moved
<1>9. CASE IssueRechecks(r)
  <2>1. \A s : IssuedRecheck(r, s) = Reissued(x, s)
    BY <1>v DEF IssuedRecheck, Reissued
  <2>2. \A t \in Targets, g \in Findings :
          recheck'[r][<<t, g>>] = IF t = loop[r].target THEN IssuedRecheck(r, <<t, g>>)
                                  ELSE recheck[r][<<t, g>>]
    BY <1>9, <1>a, Pairs DEF IssueRechecks
  <2>3. \A t \in Targets, g \in Findings :
          y.recheck[<<t, g>>] = IF t = x.loop.target THEN Reissued(x, <<t, g>>)
                                ELSE x.recheck[<<t, g>>]
    <3> TAKE t \in Targets, g \in Findings
    <3>1. IssuedRecheck(r, <<t, g>>) = Reissued(x, <<t, g>>)
      BY <2>1
    <3>2. CASE t = loop[r].target
      BY <1>v, <2>2, <3>1, <3>2
    <3>3. CASE t # loop[r].target
      BY <1>v, <2>2, <3>3
    <3> QED
      BY <3>2, <3>3
  <2>4. /\ SameRow(x, y) /\ y.check = x.check /\ y.finding = x.finding
        /\ y.loop = [x.loop EXCEPT !.pc = "recheck", !.settled = TRUE]
        /\ x.loop.pc = "settle" /\ ~x.loop.settled
        /\ \A p \in Perspectives : ~Open(x.check[<<x.loop.target, p>>])
    BY <1>9, <1>a, <1>v DEF IssueRechecks, Unfinished, Open, SameRow
  <2>5. Opened(x, y)
    BY <2>3, <2>4, Zenon DEF Opened
  <2> QED
    BY <2>5 DEF Moved
<1>10. CASE ClaimRecheck(r)
  <2>1. PICK f \in PendingRechecks(r) :
          /\ recheck' = [recheck EXCEPT ![r][<<loop[r].target, f>>] = "running"]
          /\ \/ loop' = [loop EXCEPT ![r].pc = "queued", ![r].job = f, ![r].retried = FALSE]
             \/ loop' = [loop EXCEPT ![r].pc = "resolved", ![r].job = f,
                                     ![r].result = "failed"]
    BY <1>10 DEF ClaimRecheck
  <2>2. /\ SamePlace(loop[r], loop'[r]) /\ loop'[r].job = f /\ loop'[r].halt = loop[r].halt
        /\ \/ loop'[r].pc = "queued"
           \/ loop'[r].pc = "resolved" /\ loop'[r].result = "failed"
    BY <1>a, <2>1 DEF SamePlace, Loop
  <2>3. /\ f \in Findings /\ recheck[r][<<loop[r].target, f>>] = "pending"
        /\ recheck'[r] = [recheck[r] EXCEPT ![<<loop[r].target, f>>] = "running"]
    BY <1>a, <2>1 DEF PendingRechecks
  <2>4. loop[r].pc = "recheck" /\ row' = row /\ check' = check /\ finding' = finding
    BY <1>10 DEF ClaimRecheck
  <2> QED
    BY <1>v, <2>2, <2>3, <2>4 DEF Reclaimed, SameRow, Moved
<1>11. CASE SaveCheck(r)
  <2>1. PICK new \in [Findings -> FindingState] :
          /\ \A f \in Findings : new[f] \in Merged(finding[r][<<loop[r].target, f>>])
          /\ finding' = [finding EXCEPT ![r] =
               [s \in Slots |-> IF loop[r].result = "done" /\ s[1] = loop[r].target
                                THEN new[s[2]] ELSE @[s]]]
          /\ recheck' = [recheck EXCEPT ![r] =
               [s \in Slots |-> IF /\ loop[r].result = "done" /\ s[1] = loop[r].target
                                   /\ @[s] = "none" /\ new[s[2]] = "unlocated"
                                THEN IF row[r].recheckOn THEN "unlocated" ELSE "disabled"
                                ELSE @[s]]]
    BY <1>11 DEF SaveCheck
  <2>2. \A t \in Targets, g \in Findings :
          /\ finding'[r][<<t, g>>] = IF loop[r].result = "done" /\ t = loop[r].target
                                     THEN new[g] ELSE finding[r][<<t, g>>]
          /\ recheck'[r][<<t, g>>] =
               IF /\ loop[r].result = "done" /\ t = loop[r].target
                  /\ recheck[r][<<t, g>>] = "none" /\ new[g] = "unlocated"
               THEN IF row[r].recheckOn THEN "unlocated" ELSE "disabled"
               ELSE recheck[r][<<t, g>>]
    BY <1>a, <2>1, Pairs
  <2>3. \A f \in FindingState : f \in Merged(f)
    BY DEF Merged
  <2>4. \A t \in Targets, g \in Findings :
          /\ t # loop[r].target => /\ finding'[r][<<t, g>>] = finding[r][<<t, g>>]
                                   /\ recheck'[r][<<t, g>>] = recheck[r][<<t, g>>]
          /\ finding'[r][<<t, g>>] \in Merged(finding[r][<<t, g>>])
          /\ \/ recheck'[r][<<t, g>>] = recheck[r][<<t, g>>]
             \/ /\ recheck[r][<<t, g>>] = "none" /\ finding'[r][<<t, g>>] = "unlocated"
                /\ row[r].recheckOn /\ recheck'[r][<<t, g>>] = "unlocated"
             \/ /\ recheck[r][<<t, g>>] = "none" /\ finding'[r][<<t, g>>] = "unlocated"
                /\ ~row[r].recheckOn /\ recheck'[r][<<t, g>>] = "disabled"
    <3> TAKE t \in Targets, g \in Findings
    <3>1. finding[r][<<t, g>>] \in FindingState
      BY <1>a, Pairs
    <3>2. CASE loop[r].result = "done" /\ t = loop[r].target
      <4>1. finding'[r][<<t, g>>] = new[g] /\ new[g] \in Merged(finding[r][<<t, g>>])
        <5>1. new[g] \in Merged(finding[r][<<loop[r].target, g>>])
          BY <2>1
        <5> QED
          BY <2>2, <3>2, <5>1
      <4> QED
        BY <2>2, <3>2, <4>1
    <3>3. CASE ~(loop[r].result = "done" /\ t = loop[r].target)
      BY <2>2, <2>3, <3>1, <3>3
    <3> QED
      BY <3>2, <3>3
  <2>5. /\ SameRow(x, y) /\ x.loop.pc = "resolved" /\ x.loop.job = 0
        /\ y.loop = AfterSave(x.loop, "settle")
    BY <1>11, <1>a, <1>v DEF SaveCheck, SameRow
  <2>6. y.check = [x.check EXCEPT ![<<x.loop.target, x.loop.persp>>] = x.loop.result]
    BY <1>11, <1>a, <1>v DEF SaveCheck, Unit
  <2>7. Saved(x, y)
    BY <1>v, <2>4, <2>5, <2>6 DEF Saved
  <2> QED
    BY <2>7 DEF Moved
<1>12. CASE SaveRecheck(r)
  <2>1. loop[r].result # "tooLong"
    BY <1>12 DEF SaveRecheck, IInv, TooLongIsACheck
  <2>2. y.recheck = [x.recheck EXCEPT ![<<x.loop.target, x.loop.job>>] = x.loop.result]
    BY <1>12, <1>a, <1>v DEF SaveRecheck, Slot
  <2> QED
    BY <1>12, <1>a, <1>v, <2>1, <2>2 DEF SaveRecheck, SameRow, Resaved, Moved
<1>13. CASE FinalizeRun(r)
  <2>1. /\ loop[r].pc = "finish" /\ loop'[r] = NoLoop
        /\ check' = check /\ finding' = finding /\ recheck' = recheck
    BY <1>13, <1>a DEF FinalizeRun
  <2>2. /\ row'[r].recheckOn = row[r].recheckOn
        /\ row'[r].status =
             IF loop[r].halt # "none" THEN StatusForUnconfirmed(loop[r].halt = "unconfirmed")
             ELSE IF AnyFailed(r) THEN "partially-failed" ELSE "completed"
    BY <1>13, <1>a DEF FinalizeRun, FinishRow, Row
  <2>3. /\ loop[r].halt # "none" => row'[r].status \in {"stopped", "recovery-waiting"}
        /\ loop[r].halt = "none" =>
             row'[r].status = IF AnyFailed(r) THEN "partially-failed" ELSE "completed"
    BY <2>2 DEF StatusForUnconfirmed
  <2>4. Finalized(x, y)
    BY <1>v, <2>1, <2>2, <2>3 DEF Finalized, SameUnits, AnyFailed
  <2> QED
    BY <2>4 DEF Moved
<1> QED
  BY <1>1, <1>2, <1>3, <1>4, <1>5, <1>6, <1>7, <1>8, <1>9, <1>10, <1>11, <1>12, <1>13
     DEF LoopStep

(* The steps of a request and the ends a run does not choose                *)
LEMMA OtherMoves ==
  ASSUME IInv, NEW r \in Runs, RequestStep(r) \/ InternalError(r) \/ ReconcileRun(r)
  PROVE  Moved(View(r), View(r)')
<1>a. /\ loop \in [Runs -> Loop] /\ row \in [Runs -> Row] /\ loop[r] \in Loop /\ row[r] \in Row
      /\ check \in [Runs -> [CheckUnits -> CheckStatus]]
      /\ finding \in [Runs -> [Slots -> FindingState]]
      /\ recheck \in [Runs -> [Slots -> RecheckStatus]]
  BY DEF IInv, TypeOK
<1> DEFINE x == View(r)
           y == View(r)'
<1>v. /\ x.row = row[r] /\ x.check = check[r] /\ x.finding = finding[r]
      /\ x.recheck = recheck[r] /\ x.loop = loop[r]
      /\ y.row = row'[r] /\ y.check = check'[r] /\ y.finding = finding'[r]
      /\ y.recheck = recheck'[r] /\ y.loop = loop'[r]
  BY Views
<1> HIDE DEF x, y
<1> SUFFICES Moved(x, y)
  BY DEF x, y
<1>w. UNCHANGED dbVars => Walks(x, y)
  BY <1>v DEF dbVars, Walks, SameRow, SameUnits
<1>r. ASSUME NEW result, NEW halt, Resolve(r, result, halt), UNCHANGED dbVars,
             loop[r].pc \in {"queued", "ensure", "chat"},
             result = "pending" => halt # "none"
      PROVE  Moved(x, y)
  BY <1>r, <1>a, <1>v, <1>w DEF Resolve, Answered, SamePlace, Loop, Moved
<1>1. CASE CancelQueued(r)
  BY <1>1, <1>r DEF CancelQueued
<1>2. CASE TakeTurn(r)
  <2>1. CASE loop' = [loop EXCEPT ![r].pc = "ensure"]
    BY <1>2, <2>1, <1>a, <1>v, <1>w DEF TakeTurn, Waited, SamePlace, Loop, Moved
  <2>2. CASE Resolve(r, "pending", "stop")
    BY <1>2, <2>2, <1>r DEF TakeTurn
  <2> QED
    BY <1>2, <2>1, <2>2 DEF TakeTurn
<1>3. CASE EnsureLoaded(r)
  <2>1. CASE loop' = [loop EXCEPT ![r].pc = "chat"]
    BY <1>3, <2>1, <1>a, <1>v, <1>w DEF EnsureLoaded, Waited, SamePlace, Loop, Moved
  <2>2. ASSUME NEW halt \in {"stop", "settings"}, Resolve(r, "pending", halt)
        PROVE  Moved(x, y)
    BY <1>3, <2>2, <1>r DEF EnsureLoaded
  <2> QED
    BY <1>3, <2>1, <2>2 DEF EnsureLoaded
<1>4. CASE ChatAnswered(r)
  <2>1. PICK a \in Answers(r) : Resolve(r, a[1], a[2])
    BY <1>4 DEF ChatAnswered
  <2>2. a[1] = "pending" => a[2] # "none"
    BY DEF Answers
  <2> QED
    BY <1>4, <2>1, <2>2, <1>r DEF ChatAnswered
<1>5. CASE RetryChat(r)
  <2>1. CASE loop' = [loop EXCEPT ![r].pc = "ensure", ![r].retried = TRUE]
    BY <1>5, <2>1, <1>a, <1>v, <1>w DEF RetryChat, Waited, SamePlace, Loop, Moved
  <2>2. CASE Resolve(r, "failed", "stop")
    BY <1>5, <2>2, <1>r DEF RetryChat
  <2> QED
    BY <1>5, <2>1, <2>2 DEF RetryChat
<1>6. CASE ChatLost(r)
  BY <1>6, <1>r DEF ChatLost
<1>7. ASSUME row[r].status = "running", NEW b \in BOOLEAN,
             row' = FinishRow(r, StatusForUnconfirmed(b), FALSE),
             ResetRunningUnits(r),
             y.loop = NoLoop \/ (y.loop = x.loop /\ x.loop.pc = "off")
      PROVE  Moved(x, y)
  <2>1. /\ row'[r].status \in {"stopped", "recovery-waiting"}
        /\ row'[r].recheckOn = row[r].recheckOn
    BY <1>7, <1>a DEF FinishRow, StatusForUnconfirmed, Row
  <2>2. /\ finding' = finding
        /\ \A u \in CheckUnits :
             check'[r][u] = IF check[r][u] = "running" THEN "pending" ELSE check[r][u]
        /\ \A s \in Slots :
             recheck'[r][s] = IF recheck[r][s] = "running" THEN "pending" ELSE recheck[r][s]
    BY <1>7, <1>a DEF ResetRunningUnits
  <2> QED
    BY <1>7, <1>v, <2>1, <2>2 DEF Reset, Moved
<1>8. CASE InternalError(r)
  <2>1. row[r].status = "running" /\ loop'[r] = NoLoop
    BY <1>8, <1>a DEF InternalError, IInv, LiveRows, Registered
  <2>2. CASE UNCHANGED dbVars
    BY <1>v, <1>w, <2>1, <2>2 DEF Walks, Abandoned, Moved
  <2>3. CASE /\ row' = FinishRow(r, StatusForUnconfirmed(r \in gate), FALSE)
             /\ ResetRunningUnits(r)
    <3> DEFINE b == r \in gate
    <3>1. b \in BOOLEAN /\ row' = FinishRow(r, StatusForUnconfirmed(b), FALSE)
      BY <2>3
    <3> HIDE DEF b
    <3> QED
      BY <1>7, <1>v, <2>1, <2>3, <3>1
  <2> QED
    BY <1>8, <2>2, <2>3 DEF InternalError
<1>9. CASE ReconcileRun(r)
  <2>1. loop[r].pc = "off" /\ loop' = loop
    BY <1>9 DEF ReconcileRun, IInv, QuietWhenNotUp, NoLoop
  <2>2. HasRunningUnit(r) \in BOOLEAN
    BY DEF HasRunningUnit
  <2> QED
    BY <1>7, <1>9, <1>v, <2>1, <2>2 DEF ReconcileRun
<1> QED
  BY <1>1, <1>2, <1>3, <1>4, <1>5, <1>6, <1>8, <1>9 DEF RequestStep

(* Whatever the step, a run makes one of the moves.                         *)
LEMMA NextMoves ==
  ASSUME IInv, [Next]_vars, NEW q \in Runs
  PROVE  Moved(View(q), View(q)')
<1>1. ASSUME SameAs(q) PROVE Moved(View(q), View(q)')
  BY <1>1, SameIsNoted, Zenon DEF Moved
<1>2. ASSUME NEW r \in Runs, Acts(r) PROVE Moved(View(q), View(q)')
  <2>1. CASE q = r
    BY <1>2, <2>1, UserMoves, LoopMoves, OtherMoves, Zenon DEF Acts
  <2>2. CASE q # r
    BY <1>1, <1>2, <2>2, OthersKept
  <2> QED
    BY <2>1, <2>2
<1>3. CASE ChangeConnection \/ Boot \/ Listen
  BY <1>1, <1>3 DEF ChangeConnection, Boot, Listen, SameAs, dbVars
<1>4. CASE Crash
  <2>1. /\ row' = row /\ check' = check /\ finding' = finding /\ recheck' = recheck
        /\ loop'[q] = NoLoop
    BY <1>4 DEF Crash, dbVars
  <2>2. Abandoned(View(q), View(q)')
    BY <2>1, Views DEF Abandoned, SameRow, SameUnits
  <2> QED
    BY <2>2, Zenon DEF Moved
<1>5. CASE UNCHANGED vars
  BY <1>1, <1>5 DEF vars, SameAs, dbVars
<1> QED
  BY <1>2, <1>3, <1>4, <1>5 DEF Next, Acts

-----------------------------------------------------------------------------
(* The invariant of the work of every run                                   *)

Work == \A r \in Runs : Good(View(r))

LEMMA ViewType ==
  ASSUME TypeOK, NEW r \in Runs PROVE View(r) \in RunView
  BY DEF TypeOK, View, RunView

LEMMA InitWork == Init => Work
<1> SUFFICES ASSUME Init, NEW r \in Runs PROVE Good(View(r))
  BY DEF Work
<1>1. /\ row[r].status = "absent" /\ loop[r].pc = "off" /\ loop[r].halt = "none"
      /\ \A u \in CheckUnits : check[r][u] = "none"
      /\ \A s \in Slots : recheck[r][s] = "none" /\ finding[r][s] = "none"
  BY DEF Init, NoLoop
<1> DEFINE y == View(r)
<1>2. /\ y.row.status = "absent" /\ y.loop.pc = "off" /\ y.loop.halt = "none"
      /\ \A u \in CheckUnits : y.check[u] = "none"
      /\ \A s \in Slots : y.recheck[s] = "none" /\ y.finding[s] = "none"
  BY <1>1 DEF View
<1>3. y \in RunView
  BY InitTypeOK, ViewType
<1> HIDE DEF y
<1>4. PlanGood(y) /\ ClosedGood(y) /\ SaysGood(y)
  BY <1>2 DEF PlanGood, ClosedGood, SaysGood
<1>5. Good(y)
  BY <1>2, <1>3, <1>4, RestGood
<1> QED
  BY <1>5 DEF y

LEMMA NextWork == IInv /\ Work /\ [Next]_vars => Work'
<1> SUFFICES ASSUME IInv, Work, [Next]_vars, NEW r \in Runs
             PROVE  Good(View(r)')
  BY DEF Work
<1>1. View(r) \in RunView
  BY ViewType DEF IInv
<1>2. View(r)' \in RunView
  <2>1. TypeOK'
    BY NextTypeOK
  <2> QED
    BY <2>1 DEF TypeOK, View, RunView
<1>3. Good(View(r)) /\ Moved(View(r), View(r)')
  BY NextMoves DEF Work
<1> QED
  BY <1>1, <1>2, <1>3, MovedGood

(* The units of every run agree with its loop and with what its row says:   *)
(* the inductive invariant behind the theorems below (loop.ts,              *)
(* orchestrator.ts).                                                        *)
THEOREM WorkInvariance == Spec => []Work
<1>1. Init /\ []IInv /\ [][Next]_vars => []Work
  BY InitWork, NextWork, PTL
<1> QED
  BY <1>1, Invariance, PTL DEF Spec

(* The unit a loop has in hand is the run's one running unit, and nothing   *)
(* runs in a run that does not (loop.ts claimUnitChecked; orchestrator.ts   *)
(* resetRunningUnits).                                                      *)
THEOREM HandsKept == Spec => []UnitsInHand
<1>1. TypeOK /\ Work => UnitsInHand
  <2> SUFFICES ASSUME TypeOK, Work, NEW r \in Runs
               PROVE  LET runningChecks   == {u \in CheckUnits : check[r][u] = "running"}
                          runningRechecks == {s \in Slots : recheck[r][s] = "running"}
                          held == loop[r].pc \in InHand
                      IN /\ HasRunningUnit(r) => row[r].status = "running"
                         /\ Registered(r) =>
                              /\ runningChecks = IF held /\ loop[r].job = 0
                                                 THEN {Unit(r)} ELSE {}
                              /\ runningRechecks = IF held /\ loop[r].job # 0
                                                   THEN {Slot(r)} ELSE {}
    BY DEF UnitsInHand
  <2>1. View(r) \in RunView /\ Good(View(r))
    BY ViewType DEF Work
  <2>2. HasRunningUnit(r) => row[r].status = "running"
    BY <2>1, Views DEF Good, RunsOnlyWhileRunning, HasRunningUnit
  <2>3. ASSUME Registered(r)
        PROVE  {u \in CheckUnits : check[r][u] = "running"} =
                 IF loop[r].pc \in InHand /\ loop[r].job = 0 THEN {Unit(r)} ELSE {}
    <3>1. /\ \A t \in Targets, p \in Perspectives :
               check[r][<<t, p>>] = "running" =>
                 OnCheck(loop[r]) /\ t = loop[r].target /\ p = loop[r].persp
          /\ OnCheck(loop[r]) =>
               loop[r].persp \in Perspectives
                 /\ check[r][<<loop[r].target, loop[r].persp>>] = "running"
      BY <2>1, <2>3, Views DEF Good, HandGood, Registered
    <3>2. \A u \in CheckUnits : check[r][u] = "running" => OnCheck(loop[r]) /\ u = Unit(r)
      BY <3>1, Pairs DEF Unit
    <3>3. OnCheck(loop[r]) => Unit(r) \in CheckUnits /\ check[r][Unit(r)] = "running"
      <4>1. loop[r].target \in Targets
        BY DEF TypeOK, Loop
      <4> QED
        BY <3>1, <4>1, Pairs DEF Unit
    <3> QED
      BY <3>2, <3>3 DEF OnCheck
  <2>4. ASSUME Registered(r)
        PROVE  {s \in Slots : recheck[r][s] = "running"} =
                 IF loop[r].pc \in InHand /\ loop[r].job # 0 THEN {Slot(r)} ELSE {}
    <3>1. /\ \A t \in Targets, g \in Findings :
               recheck[r][<<t, g>>] = "running" =>
                 OnRecheck(loop[r]) /\ t = loop[r].target /\ g = loop[r].job
          /\ OnRecheck(loop[r]) =>
               loop[r].job \in Findings
                 /\ recheck[r][<<loop[r].target, loop[r].job>>] = "running"
      BY <2>1, <2>4, Views DEF Good, HandGood, Registered
    <3>2. \A s \in Slots : recheck[r][s] = "running" => OnRecheck(loop[r]) /\ s = Slot(r)
      BY <3>1, Pairs DEF Slot
    <3>3. OnRecheck(loop[r]) => Slot(r) \in Slots /\ recheck[r][Slot(r)] = "running"
      <4>1. loop[r].target \in Targets
        BY DEF TypeOK, Loop
      <4> QED
        BY <3>1, <4>1, Pairs DEF Slot
    <3> QED
      BY <3>2, <3>3 DEF OnRecheck
  <2> QED
    BY <2>2, <2>3, <2>4
<1> QED
  BY <1>1, TypeCorrect, WorkInvariance, PTL

(* A run that says completed has checked every unit and rechecked every     *)
(* open finding, and one that says partially failed has something failed    *)
(* and nothing left to do (loop.ts issueRechecks; orchestrator.ts           *)
(* finalizeRun).                                                            *)
THEOREM FinishedKept == Spec => []FinishedMeansFinished
<1> DEFINE Left(r, s) ==
             \/ finding[r][s] # "none" /\ recheck[r][s] = "none"
             \/ recheck[r][s] \in {"pending", "running"}
             \/ /\ finding[r][s] = "open" /\ row[r].recheckOn
                /\ recheck[r][s] \notin {"done", "failed"}
<1>1. TypeOK /\ Work => FinishedMeansFinished
  <2> SUFFICES ASSUME TypeOK, Work, NEW r \in Runs,
                      row[r].status \in {"completed", "partially-failed"}
               PROVE  /\ row[r].status = "completed" =>
                           /\ \A u \in CheckUnits : check[r][u] = "done"
                           /\ \A s \in Slots : ~Left(r, s) /\ recheck[r][s] # "failed"
                      /\ row[r].status = "partially-failed" =>
                           /\ AnyFailed(r)
                           /\ \A u \in CheckUnits : check[r][u] \in {"done", "failed", "tooLong"}
                           /\ \A s \in Slots : ~Left(r, s)
    BY DEF FinishedMeansFinished
  <2>1. View(r) \in RunView /\ Good(View(r))
    BY ViewType DEF Work
  <2>2. /\ \A t \in Targets : Tidy(View(r), t)
        /\ row[r].status = "partially-failed" <=> AnyFailed(r)
        /\ \A u \in CheckUnits : check[r][u] # "none"
    BY <2>1, Views DEF Good, SaysGood, PlanGood, AnyFailed
  <2>3. \A t \in Targets, p \in Perspectives : ~Open(check[r][<<t, p>>])
    BY <2>2, Views DEF Tidy, Issued
  <2>4. \A u \in CheckUnits : check[r][u] \in {"done", "failed", "tooLong"}
    <3>1. \A u \in CheckUnits : check[r][u] \in CheckStatus
      BY DEF TypeOK
    <3> QED
      BY <2>2, <2>3, <3>1, Pairs DEF Open, CheckStatus
  <2>5. \A t \in Targets, g \in Findings : ~Left(r, <<t, g>>)
    <3> TAKE t \in Targets, g \in Findings
    <3> DEFINE f == finding[r][<<t, g>>]
               k == recheck[r][<<t, g>>]
    <3>1. /\ f # "none" => k # "none"
          /\ f = "open" /\ row[r].recheckOn => Open(k) \/ k \in {"done", "failed"}
          /\ ~Open(k)
      BY <2>2, Views DEF Tidy, Issued
    <3> HIDE DEF f, k
    <3>2. ~(\/ f # "none" /\ k = "none"
            \/ k \in {"pending", "running"}
            \/ f = "open" /\ row[r].recheckOn /\ k \notin {"done", "failed"})
      BY <3>1 DEF Open
    <3> QED
      BY <3>2 DEF f, k
  <2>6. \A s \in Slots : ~Left(r, s)
    BY <2>5, Pairs
  <2>7. row[r].status = "completed" =>
          /\ \A u \in CheckUnits : check[r][u] = "done"
          /\ \A s \in Slots : recheck[r][s] # "failed"
    BY <2>2, <2>4 DEF AnyFailed
  <2> HIDE DEF Left
  <2> QED
    BY <2>2, <2>4, <2>6, <2>7
<1> QED
  BY <1>1, TypeCorrect, WorkInvariance, PTL

(* Work that is settled stays settled until the run is deleted, through     *)
(* every stop, resumption, retry, crash and restart (loop.ts                *)
(* claimUnitChecked; runs.ts retryFailedUnits; merge-store.ts).             *)
THEOREM SettledKept == Spec => SettledStaysSettled
<1> DEFINE Stays(r) ==
             row'[r].status # "deleted" =>
               /\ \A u \in CheckUnits :
                    check[r][u] \in {"done", "tooLong"} => check'[r][u] = check[r][u]
               /\ \A s \in Slots :
                    /\ recheck[r][s] \in {"done", "disabled", "unlocated"}
                         => recheck'[r][s] = recheck[r][s]
                    /\ finding[r][s] = "open" => finding'[r][s] = "open"
<1>1. IInv /\ Work /\ [Next]_vars => \A r \in Runs : Stays(r)
  <2> SUFFICES ASSUME IInv, Work, [Next]_vars, NEW r \in Runs PROVE Stays(r)
    OBVIOUS
  <2>1. View(r) \in RunView /\ Good(View(r))
    BY ViewType DEF Work, IInv
  <2>2. View(r)' \in RunView
    <3>1. TypeOK'
      BY NextTypeOK
    <3> QED
      BY <3>1 DEF TypeOK, View, RunView
  <2>3. Moved(View(r), View(r)')
    BY NextMoves
  <2>4. KeepsSettled(View(r), View(r)')
    BY <2>1, <2>2, <2>3, MovedKeeps
  <2> QED
    BY <2>4, Views DEF KeepsSettled
<1>2. IInv /\ Work /\ [Next]_vars => [\A r \in Runs : Stays(r)]_vars
  BY <1>1
<1>3. []IInv /\ []Work /\ [][Next]_vars => [][\A r \in Runs : Stays(r)]_vars
  BY <1>2, PTL
<1> QED
  BY <1>3, Invariance, WorkInvariance, PTL DEF Spec, SettledStaysSettled
=============================================================================
