------------------------- MODULE FindingStoreProofs -------------------------
(* Theorems about FindingStore, for any manuscript, any answers of the      *)
(* model and any number of launches.                                        *)
EXTENDS FindingStore, TLAPS

-----------------------------------------------------------------------------
(* What the table operations leave in each table.                           *)

TableNames == {"unit", "candidate", "finding", "judgment", "recheck"}

UnitWritten(d, e, u, s) ==
  /\ DOMAIN e = TableNames
  /\ e.unit = [d.unit EXCEPT ![u] = s]
  /\ e.candidate = d.candidate
  /\ e.finding = d.finding
  /\ e.judgment = d.judgment
  /\ e.recheck = d.recheck

LEMMA WithUnitTables ==
  ASSUME NEW d, DOMAIN d = TableNames, NEW u, NEW s
  PROVE  UnitWritten(d, WithUnit(d, u, s), u, s)
  BY DEF WithUnit, UnitWritten, TableNames

RecheckWritten(d, e, f, s) ==
  /\ DOMAIN e = TableNames
  /\ e.unit = d.unit
  /\ e.candidate = d.candidate
  /\ e.finding = d.finding
  /\ e.judgment = d.judgment
  /\ e.recheck = [g \in DOMAIN d.recheck \cup {f} |-> IF g = f THEN s ELSE d.recheck[g]]

LEMMA WithRecheckTables ==
  ASSUME NEW d, DOMAIN d = TableNames, NEW f, NEW s
  PROVE  RecheckWritten(d, WithRecheck(d, f, s), f, s)
  BY DEF WithRecheck, RecheckWritten, TableNames

Row(u, c, f) == [unit |-> u, cand |-> c, finding |-> f]

CandidateAdded(d, e, u, c, f) ==
  /\ DOMAIN e = TableNames
  /\ e.unit = d.unit
  /\ e.candidate = Append(d.candidate, Row(u, c, f))
  /\ e.finding = d.finding
  /\ e.judgment = d.judgment
  /\ e.recheck = d.recheck

LEMMA WithCandidateTables ==
  ASSUME NEW d, DOMAIN d = TableNames, NEW u, NEW c, NEW f
  PROVE  CandidateAdded(d, WithCandidate(d, u, c, f), u, c, f)
  BY DEF WithCandidate, CandidateAdded, Row, TableNames

FindingAdded(d, e, id, made) ==
  /\ DOMAIN e = TableNames
  /\ e.unit = d.unit
  /\ e.candidate = d.candidate
  /\ e.finding = [f \in DOMAIN d.finding \cup {id} |-> IF f = id THEN made ELSE d.finding[f]]
  /\ e.judgment = [f \in DOMAIN d.judgment \cup {id} |->
                     IF f = id THEN "undecided" ELSE d.judgment[f]]
  /\ e.recheck = d.recheck

LEMMA WithFindingTables ==
  ASSUME NEW d, DOMAIN d = TableNames, NEW id, NEW made
  PROVE  FindingAdded(d, WithFinding(d, id, made), id, made)
  BY DEF WithFinding, FindingAdded, TableNames

Reaggregated(old, category, verdict) ==
  [old EXCEPT !.category = category, !.verdict = verdict,
              !.suppressed = Suppressed(category, old.at, old.fix)]

AggregateWritten(d, e, f, category, verdict) ==
  /\ DOMAIN e = TableNames
  /\ e.unit = d.unit
  /\ e.candidate = d.candidate
  /\ e.finding = [d.finding EXCEPT ![f] = Reaggregated(d.finding[f], category, verdict)]
  /\ e.judgment = d.judgment
  /\ e.recheck = d.recheck

LEMMA WithAggregateTables ==
  ASSUME NEW d, DOMAIN d = TableNames, NEW f, NEW category, NEW verdict
  PROVE  AggregateWritten(d, WithAggregate(d, f, category, verdict), f, category, verdict)
<1> DEFINE new == Reaggregated(d.finding[f], category, verdict)
           e   == [d EXCEPT !.finding[f] = new]
<1>1. WithAggregate(d, f, category, verdict) = e
  BY DEF WithAggregate, Reaggregated
<1> HIDE DEF new
<1>2. /\ DOMAIN e = TableNames /\ e.unit = d.unit /\ e.candidate = d.candidate
      /\ e.judgment = d.judgment /\ e.recheck = d.recheck
      /\ e.finding = [d.finding EXCEPT ![f] = new]
  BY DEF TableNames
<1> QED BY <1>1, <1>2 DEF AggregateWritten, new

-----------------------------------------------------------------------------
(* The three things saving one candidate may do to the tables.              *)

NewFinding(u, c) ==
  [target |-> u[1], unit |-> u, locate |-> c.locate, at |-> c.at, fix |-> c.fix,
   key |-> IF IsLocated(c) THEN MergeKey(c) ELSE NoKey,
   category |-> c.category, verdict |-> c.verdict,
   suppressed |-> IsLocated(c) /\ Suppressed(c.category, c.at, c.fix)]

(* The recheck of a finding that was not located, closed from the start     *)
ClosedRecheck == IF run.recheckOn THEN "unlocated" ELSE "disabled"

Made(d, e, u, c, n) ==
  /\ c.locate # "outside-target"
  /\ IsLocated(c) => FoundByKey(d, MergeKey(c)) = {}
  /\ e.candidate = Append(d.candidate, Row(u, c, n))
  /\ e.finding = [f \in DOMAIN d.finding \cup {n} |->
                    IF f = n THEN NewFinding(u, c) ELSE d.finding[f]]
  /\ e.judgment = [f \in DOMAIN d.judgment \cup {n} |->
                     IF f = n THEN "undecided" ELSE d.judgment[f]]
  /\ IsLocated(c) => e.recheck = d.recheck
  /\ ~IsLocated(c) =>
       e.recheck = [f \in DOMAIN d.recheck \cup {n} |->
                      IF f = n THEN ClosedRecheck ELSE d.recheck[f]]

MembersWith(d, f, c) == {d.candidate[i].cand : i \in Sources(d, f)} \cup {c}

Joined(d, e, u, c, f) ==
  /\ IsLocated(c)
  /\ f \in FoundByKey(d, MergeKey(c))
  /\ e.candidate = Append(d.candidate, Row(u, c, f))
  /\ e.finding = [d.finding EXCEPT ![f] =
       Reaggregated(d.finding[f], AggregateCategory(MembersWith(d, f, c)),
                                  AggregateVerdict(MembersWith(d, f, c)))]
  /\ e.judgment = d.judgment
  /\ e.recheck = d.recheck

Outside(d, e, u, c) ==
  /\ c.locate = "outside-target"
  /\ e.candidate = Append(d.candidate, Row(u, c, 0))
  /\ e.finding = d.finding
  /\ e.judgment = d.judgment
  /\ e.recheck = d.recheck

Saved(d, e, u, c) ==
  /\ DOMAIN e = TableNames
  /\ e.unit = d.unit
  /\ \/ Made(d, e, u, c, NextIndex(d))
     \/ \E f \in DOMAIN d.finding : Joined(d, e, u, c, f)
     \/ Outside(d, e, u, c)

LEMMA SavedTables ==
  ASSUME NEW d, TablesOK(d), NEW u \in CheckUnits, NEW c \in Candidate,
         NEW e, e = SavedCandidate(d, u, c)
  PROVE  Saved(d, e, u, c)
<1>0. DOMAIN d = TableNames
  BY DEF TablesOK, TableNames
<1>n. PICK n : n = NextIndex(d)
  OBVIOUS
<1>1. CASE IsLocated(c) /\ FoundByKey(d, MergeKey(c)) = {}
  <2>1. c.locate = "located"
    BY <1>1 DEF IsLocated
  <2>2. NewFinding(u, c)
          = [target |-> u[1], unit |-> u, locate |-> "located", at |-> c.at, fix |-> c.fix,
             key |-> MergeKey(c), category |-> c.category, verdict |-> c.verdict,
             suppressed |-> Suppressed(c.category, c.at, c.fix)]
    BY <1>1, <2>1, Zenon DEF NewFinding, Suppressed
  <2>3. PICK made : made = WithFinding(d, n, NewFinding(u, c))
    OBVIOUS
  <2>4. e = CreateFinding(d, u, c)
    BY <1>1 DEF SavedCandidate, MergeCandidateIntoRun
  <2>5. e = WithCandidate(made, u, c, n)
    BY <1>n, <2>2, <2>3, <2>4, Zenon DEF CreateFinding
  <2>6. FindingAdded(d, made, n, NewFinding(u, c))
    BY <1>0, <2>3, WithFindingTables, Zenon
  <2>6a. DOMAIN made = TableNames
    BY <2>6 DEF FindingAdded
  <2>7. CandidateAdded(made, e, u, c, n)
    BY <2>5, <2>6a, WithCandidateTables, Zenon
  <2>8. Made(d, e, u, c, n)
    BY <1>1, <2>1, <2>6, <2>7 DEF Made, FindingAdded, CandidateAdded
  <2> QED BY <1>n, <2>6, <2>7, <2>8 DEF Saved, FindingAdded, CandidateAdded
<1>2. CASE IsLocated(c) /\ FoundByKey(d, MergeKey(c)) # {}
  <2>1. PICK f : f = CHOOSE g \in FoundByKey(d, MergeKey(c)) : TRUE
    OBVIOUS
  <2>2. f \in FoundByKey(d, MergeKey(c)) /\ f \in DOMAIN d.finding
    BY <1>2, <2>1 DEF FoundByKey
  <2>3. PICK w : w = WithCandidate(d, u, c, f)
    OBVIOUS
  <2>4. PICK category, verdict :
          /\ category = AggregateCategory(MembersWith(d, f, c))
          /\ verdict = AggregateVerdict(MembersWith(d, f, c))
    OBVIOUS
  <2>5. e = WithAggregate(w, f, category, verdict)
    BY <1>2, <2>1, <2>3, <2>4, Zenon
       DEF SavedCandidate, MergeCandidateIntoRun, AttachToFinding, MembersWith
  <2>6. CandidateAdded(d, w, u, c, f)
    BY <1>0, <2>3, WithCandidateTables, Zenon
  <2>6a. DOMAIN w = TableNames
    BY <2>6 DEF CandidateAdded
  <2>7. AggregateWritten(w, e, f, category, verdict)
    BY <2>5, <2>6a, WithAggregateTables, Zenon
  <2>8. Joined(d, e, u, c, f)
    BY <1>2, <2>2, <2>4, <2>6, <2>7 DEF Joined, CandidateAdded, AggregateWritten
  <2> QED BY <2>2, <2>6, <2>7, <2>8 DEF Saved, CandidateAdded, AggregateWritten
<1>3. CASE c.locate = "outside-target"
  <2>1. n \notin DOMAIN d.finding
    BY <1>n DEF TablesOK, NextIndex
  <2>2. ~IsLocated(c)
    BY <1>3 DEF IsLocated
  <2>3. PICK w : w = WithCandidate(d, u, c, 0)
    OBVIOUS
  <2>4. SaveUnlocatedCandidate(d, u, c) = w
    BY <1>3, <2>3 DEF SaveUnlocatedCandidate
  <2>5. CandidateAdded(d, w, u, c, 0)
    BY <1>0, <2>3, WithCandidateTables, Zenon
  <2>6. e = w
    BY <1>n, <2>1, <2>2, <2>4, <2>5 DEF SavedCandidate, SaveUnlocated, CandidateAdded
  <2> QED BY <1>3, <2>5, <2>6 DEF Saved, Outside, CandidateAdded
<1>4. CASE ~IsLocated(c) /\ c.locate # "outside-target"
  <2>1. c.at = NoRange
    BY <1>4 DEF Candidate, LocatedCandidate, UnlocatedCandidate, IsLocated
  <2>2. NewFinding(u, c)
          = [target |-> u[1], unit |-> u, locate |-> c.locate, at |-> NoRange,
             fix |-> c.fix, key |-> NoKey, category |-> c.category,
             verdict |-> c.verdict, suppressed |-> FALSE]
    BY <1>4, <2>1, Zenon DEF NewFinding
  <2>3. PICK made : made = WithFinding(d, n, NewFinding(u, c))
    OBVIOUS
  <2>4. PICK saved : saved = WithCandidate(made, u, c, n)
    OBVIOUS
  <2>5. SaveUnlocatedCandidate(d, u, c) = saved
    BY <1>4, <1>n, <2>2, <2>3, <2>4, Zenon DEF SaveUnlocatedCandidate
  <2>6. FindingAdded(d, made, n, NewFinding(u, c))
    BY <1>0, <2>3, WithFindingTables, Zenon
  <2>6a. DOMAIN made = TableNames
    BY <2>6 DEF FindingAdded
  <2>7. CandidateAdded(made, saved, u, c, n)
    BY <2>4, <2>6a, WithCandidateTables, Zenon
  <2>7a. DOMAIN saved = TableNames
    BY <2>7 DEF CandidateAdded
  <2>8. n \in DOMAIN saved.finding
    BY <2>6, <2>7 DEF FindingAdded, CandidateAdded
  <2>9. PICK s : s = ClosedRecheck
    OBVIOUS
  <2>10. e = WithRecheck(saved, n, s)
    BY <1>4, <1>n, <2>5, <2>8, <2>9, Zenon DEF SavedCandidate, SaveUnlocated, ClosedRecheck
  <2>11. RecheckWritten(saved, e, n, s)
    BY <2>7a, <2>10, WithRecheckTables, Zenon
  <2>12. Made(d, e, u, c, n)
    BY <1>4, <2>6, <2>7, <2>9, <2>11 DEF Made, FindingAdded, CandidateAdded, RecheckWritten
  <2> QED BY <1>n, <2>6, <2>7, <2>11, <2>12
          DEF Saved, FindingAdded, CandidateAdded, RecheckWritten
<1> QED BY <1>1, <1>2, <1>3, <1>4 DEF IsLocated

-----------------------------------------------------------------------------
(* Types                                                                    *)

LEMMA CandidateFields ==
  ASSUME NEW c \in Candidate
  PROVE  /\ c.locate \in {"located"} \cup LocateFailures
         /\ IsLocated(c) => c.at \in Ranges
         /\ ~IsLocated(c) => c.at = NoRange
         /\ c.fix \in Fixes \cup {NoFix}
         /\ c.category \in Categories
         /\ c.verdict \in Verdicts
  BY DEF Candidate, LocatedCandidate, UnlocatedCandidate, IsLocated, LocateFailures

LEMMA SuppressedIsBoolean ==
  ASSUME NEW category, NEW at, NEW fix
  PROVE  Suppressed(category, at, fix) \in BOOLEAN
  BY DEF Suppressed

LEMMA NewFindingTypes ==
  ASSUME NEW u \in CheckUnits, NEW c \in Candidate, c.locate # "outside-target"
  PROVE  NewFinding(u, c) \in Finding
<1>1. u[1] \in Targets
  BY DEF CheckUnits
<1>2. (IsLocated(c) /\ Suppressed(c.category, c.at, c.fix)) \in BOOLEAN
  OBVIOUS
<1>3. c.locate \in {"located", "not-found", "ambiguous"}
  BY CandidateFields DEF LocateFailures
<1>4. (IF IsLocated(c) THEN MergeKey(c) ELSE NoKey) \in Key
  BY CandidateFields DEF MergeKey, Key
<1>5. c.at \in Ranges \cup {NoRange}
  BY CandidateFields
<1> QED BY <1>1, <1>2, <1>3, <1>4, <1>5, CandidateFields DEF NewFinding, Finding

LEMMA ReaggregatedTypes ==
  ASSUME NEW old \in Finding, NEW category \in Categories, NEW verdict \in Verdicts
  PROVE  /\ Reaggregated(old, category, verdict) \in Finding
         /\ Reaggregated(old, category, verdict).category = category
         /\ Reaggregated(old, category, verdict).verdict = verdict
         /\ Reaggregated(old, category, verdict).suppressed
              = Suppressed(category, old.at, old.fix)
         /\ Reaggregated(old, category, verdict).target = old.target
         /\ Reaggregated(old, category, verdict).locate = old.locate
         /\ Reaggregated(old, category, verdict).at = old.at
         /\ Reaggregated(old, category, verdict).fix = old.fix
         /\ Reaggregated(old, category, verdict).key = old.key
<1>1. Suppressed(category, old.at, old.fix) \in BOOLEAN
  BY SuppressedIsBoolean
<1> QED BY <1>1 DEF Reaggregated, Finding

(* The category and verdict a set of candidates has, seen from one of them  *)
LEMMA AggregateOf ==
  ASSUME NEW cs, NEW c \in cs
  PROVE  /\ AggregateCategory(cs)
              = IF \A e \in cs : e.category = c.category THEN c.category ELSE "unclear"
         /\ AggregateVerdict(cs)
              = IF \A e \in cs : e.verdict = "likely-error" THEN "likely-error"
                ELSE "confirm-with-author"
  BY DEF AggregateCategory, AggregateVerdict

LEMMA AggregateTypes ==
  ASSUME NEW cs, NEW c \in cs, c \in Candidate
  PROVE  AggregateCategory(cs) \in Categories /\ AggregateVerdict(cs) \in Verdicts
  BY AggregateOf, CandidateFields DEF Categories, Verdicts

LEMMA SavedTypes ==
  ASSUME NEW d, TablesOK(d), NEW u \in CheckUnits, NEW c \in Candidate,
         NEW e, Saved(d, e, u, c)
  PROVE  TablesOK(e)
<1>1. PICK n : n = NextIndex(d) /\ n = Len(d.candidate) + 1 /\ n \in Nat
  BY DEF NextIndex, TablesOK
<1>2. ASSUME NEW f \in Nat, e.candidate = Append(d.candidate, Row(u, c, f))
      PROVE  e.candidate \in Seq(CandidateRow) /\ Len(e.candidate) = n
  <2>1. Row(u, c, f) \in CandidateRow
    BY DEF Row, CandidateRow
  <2> QED BY <1>1, <1>2, <2>1 DEF TablesOK
<1>3. CASE Made(d, e, u, c, n)
  <2>1. NewFinding(u, c) \in Finding
    BY <1>3, NewFindingTypes DEF Made
  <2>2. DOMAIN e.finding \subseteq 1 .. n /\ e.finding \in [DOMAIN e.finding -> Finding]
        /\ DOMAIN e.finding = DOMAIN d.finding \cup {n}
    BY <1>1, <1>3, <2>1 DEF Made, TablesOK
  <2>3. e.judgment \in [DOMAIN e.finding -> {"undecided", "adopt"}]
    BY <1>3, <2>2 DEF Made, TablesOK
  <2>4. DOMAIN e.recheck \subseteq DOMAIN e.finding
        /\ e.recheck \in [DOMAIN e.recheck -> RecheckStatus]
    <3>1. DOMAIN d.recheck \subseteq DOMAIN d.finding
          /\ d.recheck \in [DOMAIN d.recheck -> RecheckStatus]
      BY DEF TablesOK
    <3>2. CASE IsLocated(c)
      <4>1. e.recheck = d.recheck
        BY <1>3, <3>2 DEF Made
      <4> QED BY <2>2, <3>1, <4>1
    <3>3. CASE ~IsLocated(c)
      <4>1. ClosedRecheck \in RecheckStatus
        BY DEF ClosedRecheck, RecheckStatus, NotApplicable
      <4>2. e.recheck = [f \in DOMAIN d.recheck \cup {n} |->
                           IF f = n THEN ClosedRecheck ELSE d.recheck[f]]
        BY <1>3, <3>3 DEF Made
      <4> QED BY <2>2, <3>1, <4>1, <4>2
    <3> QED BY <3>2, <3>3
  <2>5. e.candidate \in Seq(CandidateRow) /\ Len(e.candidate) = n
    BY <1>1, <1>2, <1>3 DEF Made
  <2> QED BY <2>2, <2>3, <2>4, <2>5 DEF Saved, TableNames, TablesOK
<1>4. ASSUME NEW f \in DOMAIN d.finding, Joined(d, e, u, c, f) PROVE TablesOK(e)
  <2>1. f \in Nat /\ f \in 1 .. Len(d.candidate)
    BY DEF TablesOK
  <2>2. c \in MembersWith(d, f, c)
    BY DEF MembersWith
  <2>3. Reaggregated(d.finding[f], AggregateCategory(MembersWith(d, f, c)),
                                   AggregateVerdict(MembersWith(d, f, c))) \in Finding
    BY <2>2, AggregateTypes, ReaggregatedTypes DEF TablesOK
  <2>4. DOMAIN e.finding = DOMAIN d.finding /\ e.finding \in [DOMAIN e.finding -> Finding]
    BY <1>4, <2>3 DEF Joined, TablesOK
  <2>5. e.candidate \in Seq(CandidateRow) /\ Len(e.candidate) = n
    BY <1>2, <1>4, <2>1 DEF Joined
  <2>6. DOMAIN e.finding \subseteq 1 .. Len(e.candidate)
    BY <1>1, <2>4, <2>5 DEF TablesOK
  <2> QED BY <1>4, <2>4, <2>5, <2>6 DEF Joined, Saved, TableNames, TablesOK
<1>5. CASE Outside(d, e, u, c)
  <2>1. e.candidate \in Seq(CandidateRow) /\ Len(e.candidate) = n
    BY <1>2, <1>5 DEF Outside
  <2>2. DOMAIN e.finding \subseteq 1 .. Len(e.candidate)
    BY <1>1, <1>5, <2>1 DEF Outside, TablesOK
  <2> QED BY <1>5, <2>1, <2>2 DEF Outside, Saved, TableNames, TablesOK
<1> QED BY <1>1, <1>3, <1>4, <1>5 DEF Saved

-----------------------------------------------------------------------------
(* Groups.  GroupsOf compares the findings with one merge of all candidates *)
(* and is not inductive.  What each table row tells of the others is: a     *)
(* located candidate shares place and correction with its finding, which is *)
(* older or its own; a finding is named by the candidate that made it; no   *)
(* two findings share a key; and category, verdict and suppression are      *)
(* those of the finding's candidates together.                              *)

CandOf(d, i) == d.candidate[i].cand

RowsHaveFindings(d) ==
  \A i \in DOMAIN d.candidate :
    LET f == d.candidate[i].finding IN
    IF IsLocated(CandOf(d, i))
    THEN /\ f \in DOMAIN d.finding /\ f <= i
         /\ d.finding[f].locate = "located"
         /\ d.finding[f].at = CandOf(d, i).at
         /\ d.finding[f].fix = CandOf(d, i).fix
         /\ CandOf(d, i).fix = NoFix => f = i
    ELSE f \in {0, i}

FindingsHaveMakers(d) ==
  \A f \in DOMAIN d.finding :
    /\ d.candidate[f].finding = f
    /\ d.finding[f].locate = "located" <=> IsLocated(CandOf(d, f))
    /\ d.finding[f].key = IF IsLocated(CandOf(d, f)) THEN MergeKey(CandOf(d, f)) ELSE NoKey

KeysDiffer(d) ==
  \A f, g \in DOMAIN d.finding :
    d.finding[f].key = d.finding[g].key /\ d.finding[f].key # NoKey => f = g

AggregatesOf(d) ==
  \A f \in DOMAIN d.finding :
    d.finding[f].locate = "located" =>
      LET made == d.finding[f] IN
      /\ made.category = IF \A i \in Sources(d, f) : CandOf(d, i).category = CandOf(d, f).category
                         THEN CandOf(d, f).category ELSE "unclear"
      /\ made.verdict = IF \A i \in Sources(d, f) : CandOf(d, i).verdict = "likely-error"
                        THEN "likely-error" ELSE "confirm-with-author"
      /\ made.suppressed = Suppressed(made.category, made.at, made.fix)

Grouped(d) == /\ RowsHaveFindings(d)
              /\ FindingsHaveMakers(d)
              /\ KeysDiffer(d)
              /\ AggregatesOf(d)

LEMMA RowTypes ==
  ASSUME NEW d, TablesOK(d)
  PROVE  /\ Len(d.candidate) \in Nat
         /\ DOMAIN d.candidate = 1 .. Len(d.candidate)
         /\ \A i \in DOMAIN d.candidate : CandOf(d, i) \in Candidate
         /\ \A f \in DOMAIN d.finding : f \in DOMAIN d.candidate /\ d.finding[f] \in Finding
<1>1. d.candidate \in Seq(CandidateRow)
  BY DEF TablesOK
<1>2. Len(d.candidate) \in Nat /\ DOMAIN d.candidate = 1 .. Len(d.candidate)
  BY <1>1
<1>3. ASSUME NEW i \in DOMAIN d.candidate PROVE CandOf(d, i) \in Candidate
  <2>1. d.candidate[i] \in CandidateRow
    BY <1>1, <1>2
  <2> QED BY <2>1 DEF CandidateRow, CandOf
<1>4. ASSUME NEW f \in DOMAIN d.finding
      PROVE  f \in DOMAIN d.candidate /\ d.finding[f] \in Finding
  BY <1>2 DEF TablesOK
<1> QED BY <1>2, <1>3, <1>4

LEMMA KeyFacts ==
  ASSUME NEW c \in Candidate, NEW e \in Candidate, IsLocated(c)
  PROVE  /\ MergeKey(c) = NoKey <=> c.fix = NoFix
         /\ MergeKey(c) = MergeKey(e) /\ MergeKey(c) # NoKey =>
              IsLocated(e) /\ c.at = e.at /\ c.fix = e.fix
         /\ IsLocated(e) /\ c.at = e.at /\ c.fix = e.fix => MergeKey(c) = MergeKey(e)
<1>1. c.at \in Nat \X Nat /\ c.at # NoRange
  BY CandidateFields, MergingAssumption DEF NoRange
<1>2. ~IsLocated(e) => e.at = NoRange
  BY CandidateFields
<1> QED BY <1>1, <1>2 DEF MergeKey, NoKey

LEMMA GroupedIsGroups ==
  ASSUME NEW d, TablesOK(d), Grouped(d)
  PROVE  GroupsOf(d)
<1>1. \A i \in DOMAIN d.candidate :
        IsLocated(d.candidate[i].cand) => d.candidate[i].finding \in DOMAIN d.finding
  BY DEF Grouped, RowsHaveFindings, CandOf
<1>2. ASSUME NEW f \in DOMAIN d.finding, d.finding[f].locate = "located"
      PROVE  /\ f \in Heads(Cands(d))
             /\ [sources |-> Sources(d, f), at |-> d.finding[f].at, fix |-> d.finding[f].fix,
                 category |-> d.finding[f].category, verdict |-> d.finding[f].verdict]
                  = MergedFinding(Cands(d), f)
             /\ d.finding[f].suppressed
                  = Suppressed(d.finding[f].category, d.finding[f].at, d.finding[f].fix)
  <2>1. /\ f \in DOMAIN d.candidate /\ d.candidate[f].finding = f
        /\ IsLocated(CandOf(d, f)) /\ CandOf(d, f) \in Candidate
        /\ d.finding[f].key = MergeKey(CandOf(d, f))
    BY <1>2, RowTypes DEF Grouped, FindingsHaveMakers
  <2>2. d.finding[f].at = CandOf(d, f).at /\ d.finding[f].fix = CandOf(d, f).fix
    BY <2>1 DEF Grouped, RowsHaveFindings
  <2>3. DOMAIN Cands(d) = DOMAIN d.candidate
        /\ \A i \in DOMAIN d.candidate : Cands(d)[i] = CandOf(d, i)
    BY DEF Cands, CandOf
  <2>4. ASSUME NEW i \in DOMAIN d.candidate
        PROVE  d.candidate[i].finding = f <=> SameGroup(Cands(d), f, i)
    <3>1. CandOf(d, i) \in Candidate
      BY RowTypes
    <3>2. ASSUME d.candidate[i].finding = f PROVE SameGroup(Cands(d), f, i)
      <4>1. CASE IsLocated(CandOf(d, i))
        <5>1. CandOf(d, i).at = CandOf(d, f).at /\ CandOf(d, i).fix = CandOf(d, f).fix
              /\ (CandOf(d, i).fix = NoFix => f = i)
          BY <2>2, <3>2, <4>1 DEF Grouped, RowsHaveFindings
        <5> QED BY <2>1, <2>3, <3>1, <4>1, <5>1, KeyFacts DEF SameGroup
      <4>2. CASE ~IsLocated(CandOf(d, i))
        <5>1. f = i
          BY <2>1, <3>2, <4>2, RowTypes DEF Grouped, RowsHaveFindings
        <5> QED BY <5>1 DEF SameGroup
      <4> QED BY <4>1, <4>2
    <3>3. ASSUME SameGroup(Cands(d), f, i) PROVE d.candidate[i].finding = f
      <4>1. CASE i = f
        BY <2>1, <4>1
      <4>2. CASE i # f
        <5>1. MergeKey(CandOf(d, f)) # NoKey /\ MergeKey(CandOf(d, f)) = MergeKey(CandOf(d, i))
          BY <2>1, <2>3, <3>3, <4>2 DEF SameGroup
        <5>2. IsLocated(CandOf(d, i))
          BY <2>1, <3>1, <5>1, KeyFacts
        <5> DEFINE g == d.candidate[i].finding
        <5>3. /\ g \in DOMAIN d.finding /\ d.finding[g].locate = "located"
              /\ d.finding[g].at = CandOf(d, i).at /\ d.finding[g].fix = CandOf(d, i).fix
          BY <5>2 DEF Grouped, RowsHaveFindings
        <5>4. /\ IsLocated(CandOf(d, g)) /\ d.finding[g].key = MergeKey(CandOf(d, g))
              /\ d.candidate[g].finding = g
          BY <5>3 DEF Grouped, FindingsHaveMakers
        <5>5. CandOf(d, g) \in Candidate /\ g \in DOMAIN d.candidate
          BY <5>3, RowTypes
        <5>6. CandOf(d, g).at = CandOf(d, i).at /\ CandOf(d, g).fix = CandOf(d, i).fix
          BY <5>3, <5>4, <5>5 DEF Grouped, RowsHaveFindings
        <5>7. MergeKey(CandOf(d, i)) = MergeKey(CandOf(d, g))
          BY <3>1, <5>2, <5>4, <5>5, <5>6, KeyFacts
        <5>8. d.finding[g].key = d.finding[f].key /\ d.finding[f].key # NoKey
          BY <2>1, <5>1, <5>4, <5>7
        <5> QED BY <5>3, <5>8 DEF Grouped, KeysDiffer
      <4> QED BY <4>1, <4>2
    <3> QED BY <3>2, <3>3
  <2>5. Members(Cands(d), f) = Sources(d, f)
    BY <2>3, <2>4 DEF Members, Sources
  <2>6. \A i \in Sources(d, f) : f <= i
    <3> SUFFICES ASSUME NEW i \in DOMAIN d.candidate, d.candidate[i].finding = f
                 PROVE  f <= i
      BY DEF Sources
    <3>1. CASE IsLocated(CandOf(d, i))
      BY <3>1 DEF Grouped, RowsHaveFindings
    <3>2. CASE ~IsLocated(CandOf(d, i))
      BY <2>1, <3>2, RowTypes DEF Grouped, RowsHaveFindings
    <3> QED BY <3>1, <3>2
  <2>7. f \in Heads(Cands(d))
    BY <2>1, <2>3, <2>5, <2>6 DEF Heads
  <2>8. \A i \in Sources(d, f) : Cands(d)[i] = CandOf(d, i)
    BY <2>3 DEF Sources
  <2>9. Cands(d)[f] = CandOf(d, f)
    BY <2>1, <2>3
  <2>10. /\ d.finding[f].category
              = IF \A i \in Sources(d, f) : CandOf(d, i).category = CandOf(d, f).category
                THEN CandOf(d, f).category ELSE "unclear"
         /\ d.finding[f].verdict
              = IF \A i \in Sources(d, f) : CandOf(d, i).verdict = "likely-error"
                THEN "likely-error" ELSE "confirm-with-author"
         /\ d.finding[f].suppressed
              = Suppressed(d.finding[f].category, d.finding[f].at, d.finding[f].fix)
    BY <1>2 DEF Grouped, AggregatesOf
  <2>11. [sources |-> Sources(d, f), at |-> d.finding[f].at, fix |-> d.finding[f].fix,
          category |-> d.finding[f].category, verdict |-> d.finding[f].verdict]
           = MergedFinding(Cands(d), f)
    BY <2>2, <2>5, <2>8, <2>9, <2>10 DEF MergedFinding
  <2> QED BY <2>7, <2>10, <2>11
<1> QED BY <1>1, <1>2 DEF GroupsOf

(* What appending one row leaves of the old ones                            *)
RowAdded(d, e, c, f, n) ==
  /\ n = Len(d.candidate) + 1 /\ n \in Nat
  /\ n \notin DOMAIN d.candidate /\ n \notin DOMAIN d.finding
  /\ DOMAIN e.candidate = DOMAIN d.candidate \cup {n}
  /\ \A i \in DOMAIN d.candidate :
       e.candidate[i] = d.candidate[i] /\ CandOf(e, i) = CandOf(d, i)
  /\ CandOf(e, n) = c /\ e.candidate[n].finding = f
  /\ \A g : Sources(e, g) = Sources(d, g) \cup (IF f = g THEN {n} ELSE {})

LEMMA AppendedRow ==
  ASSUME NEW d, TablesOK(d), NEW e, NEW u, NEW c, NEW f,
         e.candidate = Append(d.candidate, Row(u, c, f)),
         NEW n, n = NextIndex(d)
  PROVE  RowAdded(d, e, c, f, n)
<1>1. d.candidate \in Seq(CandidateRow)
  BY DEF TablesOK
<1>2. /\ n = Len(d.candidate) + 1 /\ n \in Nat /\ Len(d.candidate) \in Nat
      /\ DOMAIN d.candidate = 1 .. Len(d.candidate)
  BY <1>1 DEF NextIndex
<1>3. n \notin DOMAIN d.candidate /\ n \notin DOMAIN d.finding
  BY <1>2 DEF TablesOK
<1>4. DOMAIN e.candidate = DOMAIN d.candidate \cup {n}
  BY <1>1, <1>2
<1>5. \A i \in DOMAIN d.candidate : e.candidate[i] = d.candidate[i]
  BY <1>1, <1>2
<1>6. e.candidate[n] = Row(u, c, f)
  BY <1>1, <1>2
<1>7. CandOf(e, n) = c /\ e.candidate[n].finding = f
  <2>1. Row(u, c, f).cand = c /\ Row(u, c, f).finding = f
    BY DEF Row
  <2> QED BY <1>6, <2>1 DEF CandOf
<1>8. \A i \in DOMAIN d.candidate : CandOf(e, i) = CandOf(d, i)
  BY <1>5 DEF CandOf
<1>9. ASSUME NEW g PROVE Sources(e, g) = Sources(d, g) \cup (IF f = g THEN {n} ELSE {})
  BY <1>4, <1>5, <1>7 DEF Sources
<1> QED BY <1>2, <1>3, <1>4, <1>5, <1>7, <1>8, <1>9 DEF RowAdded

LEMMA MadeGrouped ==
  ASSUME NEW d, TablesOK(d), Grouped(d), NEW u \in CheckUnits, NEW c \in Candidate,
         NEW e, NEW n, n = NextIndex(d), Made(d, e, u, c, n)
  PROVE  Grouped(e)
<1>0. e.candidate = Append(d.candidate, Row(u, c, n))
  BY DEF Made
<1>1. RowAdded(d, e, c, n, n)
  BY <1>0, AppendedRow, Zenon
<1> USE DEF RowAdded
<1>2. /\ DOMAIN e.finding = DOMAIN d.finding \cup {n}
      /\ e.finding[n] = NewFinding(u, c)
      /\ \A f \in DOMAIN d.finding : e.finding[f] = d.finding[f]
  BY <1>1 DEF Made
<1>3. /\ e.finding[n].locate = c.locate /\ e.finding[n].at = c.at /\ e.finding[n].fix = c.fix
      /\ e.finding[n].key = IF IsLocated(c) THEN MergeKey(c) ELSE NoKey
      /\ e.finding[n].category = c.category /\ e.finding[n].verdict = c.verdict
      /\ e.finding[n].suppressed = (IsLocated(c) /\ Suppressed(c.category, c.at, c.fix))
  BY <1>2 DEF NewFinding
<1>4. \A f \in DOMAIN d.finding : f \in DOMAIN d.candidate /\ f # n
  BY <1>1, RowTypes
<1>5. RowsHaveFindings(e)
  <2> SUFFICES ASSUME NEW i \in DOMAIN e.candidate
               PROVE  LET f == e.candidate[i].finding IN
                      IF IsLocated(CandOf(e, i))
                      THEN /\ f \in DOMAIN e.finding /\ f <= i
                           /\ e.finding[f].locate = "located"
                           /\ e.finding[f].at = CandOf(e, i).at
                           /\ e.finding[f].fix = CandOf(e, i).fix
                           /\ CandOf(e, i).fix = NoFix => f = i
                      ELSE f \in {0, i}
    BY DEF RowsHaveFindings
  <2>1. CASE i \in DOMAIN d.candidate
    BY <1>1, <1>2, <2>1 DEF Grouped, RowsHaveFindings
  <2>2. CASE i = n
    BY <1>1, <1>2, <1>3, <2>2 DEF IsLocated
  <2> QED BY <1>1, <2>1, <2>2
<1>6. FindingsHaveMakers(e)
  <2> SUFFICES ASSUME NEW f \in DOMAIN e.finding
               PROVE  /\ e.candidate[f].finding = f
                      /\ e.finding[f].locate = "located" <=> IsLocated(CandOf(e, f))
                      /\ e.finding[f].key = IF IsLocated(CandOf(e, f))
                                            THEN MergeKey(CandOf(e, f)) ELSE NoKey
    BY DEF FindingsHaveMakers
  <2>1. CASE f \in DOMAIN d.finding
    BY <1>1, <1>2, <1>4, <2>1 DEF Grouped, FindingsHaveMakers
  <2>2. CASE f = n
    BY <1>1, <1>3, <2>2 DEF IsLocated
  <2> QED BY <1>2, <2>1, <2>2
<1>7. KeysDiffer(e)
  <2>1. ASSUME NEW f \in DOMAIN d.finding, e.finding[n].key # NoKey
        PROVE  d.finding[f].key # e.finding[n].key
    BY <1>3, <2>1 DEF Made, FoundByKey
  <2> QED BY <1>2, <2>1 DEF Grouped, KeysDiffer
<1>8. AggregatesOf(e)
  <2> SUFFICES ASSUME NEW f \in DOMAIN e.finding, e.finding[f].locate = "located"
               PROVE  LET made == e.finding[f] IN
                      /\ made.category
                           = IF \A i \in Sources(e, f) : CandOf(e, i).category = CandOf(e, f).category
                             THEN CandOf(e, f).category ELSE "unclear"
                      /\ made.verdict
                           = IF \A i \in Sources(e, f) : CandOf(e, i).verdict = "likely-error"
                             THEN "likely-error" ELSE "confirm-with-author"
                      /\ made.suppressed = Suppressed(made.category, made.at, made.fix)
    BY DEF AggregatesOf
  <2>1. CASE f \in DOMAIN d.finding
    <3>1. Sources(e, f) = Sources(d, f) /\ Sources(d, f) \subseteq DOMAIN d.candidate
      BY <1>1, <1>4, <2>1 DEF Sources
    <3>2. \A i \in Sources(e, f) \cup {f} : CandOf(e, i) = CandOf(d, i)
      BY <1>1, <1>4, <2>1, <3>1
    <3> QED BY <1>2, <2>1, <3>1, <3>2 DEF Grouped, AggregatesOf
  <2>2. CASE f = n
    <3>1. Sources(d, n) = {}
      <4> SUFFICES ASSUME NEW i \in DOMAIN d.candidate, d.candidate[i].finding = n
                   PROVE  FALSE
        BY DEF Sources
      <4>1. i # n /\ n # 0
        BY <1>1, RowTypes
      <4> QED BY <1>1, <4>1 DEF Grouped, RowsHaveFindings
    <3>2. Sources(e, n) = {n}
      BY <1>1, <3>1
    <3>3. c.verdict \in Verdicts
      BY CandidateFields
    <3>4. IsLocated(c)
      BY <1>3, <2>2 DEF IsLocated
    <3>5. e.finding[n].suppressed = Suppressed(e.finding[n].category, e.finding[n].at, e.finding[n].fix)
      <4>1. Suppressed(c.category, c.at, c.fix) \in BOOLEAN
        BY SuppressedIsBoolean
      <4>2. (IsLocated(c) /\ Suppressed(c.category, c.at, c.fix))
              = Suppressed(c.category, c.at, c.fix)
        BY <3>4, <4>1
      <4> QED BY <1>3, <4>2, Zenon
    <3>6. CandOf(e, n) = c
      BY <1>1
    <3>7. e.finding[n].category
            = IF \A i \in Sources(e, n) : CandOf(e, i).category = CandOf(e, n).category
              THEN CandOf(e, n).category ELSE "unclear"
      BY <1>3, <3>2, <3>6
    <3>8. e.finding[n].verdict
            = IF \A i \in Sources(e, n) : CandOf(e, i).verdict = "likely-error"
              THEN "likely-error" ELSE "confirm-with-author"
      BY <1>3, <3>2, <3>3, <3>6 DEF Verdicts
    <3> QED BY <2>2, <3>5, <3>7, <3>8
  <2> QED BY <1>2, <2>1, <2>2
<1> QED BY <1>5, <1>6, <1>7, <1>8 DEF Grouped

LEMMA OutsideGrouped ==
  ASSUME NEW d, TablesOK(d), Grouped(d), NEW u, NEW c, NEW e, Outside(d, e, u, c)
  PROVE  Grouped(e)
<1>n. PICK n : n = NextIndex(d)
  OBVIOUS
<1>0. e.candidate = Append(d.candidate, Row(u, c, 0))
  BY DEF Outside
<1>1. RowAdded(d, e, c, 0, n)
  BY <1>n, <1>0, AppendedRow, Zenon
<1> USE DEF RowAdded
<1>2. e.finding = d.finding
  BY DEF Outside
<1>3. \A f \in DOMAIN d.finding : f \in DOMAIN d.candidate /\ f # 0
  BY RowTypes
<1>4. ~IsLocated(c)
  BY DEF Outside, IsLocated
<1>5. RowsHaveFindings(e)
  BY <1>1, <1>2, <1>4 DEF Grouped, RowsHaveFindings
<1>6. FindingsHaveMakers(e)
  BY <1>1, <1>2, <1>3 DEF Grouped, FindingsHaveMakers
<1>7. KeysDiffer(e)
  BY <1>2 DEF Grouped, KeysDiffer
<1>8. AggregatesOf(e)
  <2>1. \A f \in DOMAIN d.finding : Sources(e, f) = Sources(d, f)
    BY <1>1, <1>3
  <2>2. \A f \in DOMAIN d.finding : \A i \in Sources(d, f) \cup {f} : CandOf(e, i) = CandOf(d, i)
    BY <1>1, <1>3 DEF Sources
  <2> QED BY <1>2, <2>1, <2>2 DEF Grouped, AggregatesOf
<1> QED BY <1>5, <1>6, <1>7, <1>8 DEF Grouped

LEMMA JoinedGrouped ==
  ASSUME NEW d, TablesOK(d), Grouped(d), NEW u \in CheckUnits, NEW c \in Candidate,
         NEW e, NEW f \in DOMAIN d.finding, Joined(d, e, u, c, f)
  PROVE  Grouped(e)
<1>n. PICK n : n = NextIndex(d)
  OBVIOUS
<1>0. e.candidate = Append(d.candidate, Row(u, c, f))
  BY DEF Joined
<1>1. RowAdded(d, e, c, f, n)
  BY <1>n, <1>0, AppendedRow, Zenon
<1> USE DEF RowAdded
<1> DEFINE old == d.finding[f]
           cs  == MembersWith(d, f, c)
           new == Reaggregated(old, AggregateCategory(cs), AggregateVerdict(cs))
<1>2. /\ DOMAIN e.finding = DOMAIN d.finding
      /\ e.finding[f] = new
      /\ \A g \in DOMAIN d.finding : g # f => e.finding[g] = d.finding[g]
  BY DEF Joined
<1>3. f \in DOMAIN d.candidate /\ old \in Finding
  BY RowTypes
<1>4. AggregateCategory(cs) \in Categories /\ AggregateVerdict(cs) \in Verdicts
  <2>1. c \in cs
    BY DEF MembersWith
  <2> QED BY <2>1, AggregateTypes
<1>5. /\ new.category = AggregateCategory(cs) /\ new.verdict = AggregateVerdict(cs)
      /\ new.suppressed = Suppressed(AggregateCategory(cs), old.at, old.fix)
      /\ new.locate = old.locate /\ new.at = old.at /\ new.fix = old.fix /\ new.key = old.key
  BY <1>3, <1>4, ReaggregatedTypes
<1>6. MergeKey(c) # NoKey /\ old.key = MergeKey(c) /\ IsLocated(c)
  BY DEF Joined, FoundByKey
<1> HIDE DEF new, cs
<1>7. /\ d.candidate[f].finding = f /\ IsLocated(CandOf(d, f)) /\ CandOf(d, f) \in Candidate
      /\ MergeKey(CandOf(d, f)) = MergeKey(c)
  BY <1>3, <1>6, RowTypes DEF Grouped, FindingsHaveMakers
<1>8. old.locate = "located" /\ old.at = CandOf(d, f).at /\ old.fix = CandOf(d, f).fix
  BY <1>3, <1>7 DEF Grouped, RowsHaveFindings
<1>9. c.at = CandOf(d, f).at /\ c.fix = CandOf(d, f).fix /\ c.fix # NoFix
  BY <1>6, <1>7, KeyFacts
<1>10. \A g \in DOMAIN d.finding :
         /\ e.finding[g].locate = d.finding[g].locate /\ e.finding[g].at = d.finding[g].at
         /\ e.finding[g].fix = d.finding[g].fix /\ e.finding[g].key = d.finding[g].key
  BY <1>2, <1>5
<1>11. \A g \in DOMAIN d.finding : g \in DOMAIN d.candidate /\ g # n
  BY <1>1, RowTypes
<1>12. f <= n
  BY <1>1, <1>3, RowTypes
<1>13. RowsHaveFindings(e)
  <2> SUFFICES ASSUME NEW i \in DOMAIN e.candidate
               PROVE  LET g == e.candidate[i].finding IN
                      IF IsLocated(CandOf(e, i))
                      THEN /\ g \in DOMAIN e.finding /\ g <= i
                           /\ e.finding[g].locate = "located"
                           /\ e.finding[g].at = CandOf(e, i).at
                           /\ e.finding[g].fix = CandOf(e, i).fix
                           /\ CandOf(e, i).fix = NoFix => g = i
                      ELSE g \in {0, i}
    BY DEF RowsHaveFindings
  <2>1. CASE i \in DOMAIN d.candidate
    BY <1>1, <1>2, <1>10, <2>1 DEF Grouped, RowsHaveFindings
  <2>2. CASE i = n
    BY <1>1, <1>2, <1>6, <1>8, <1>9, <1>10, <1>12, <2>2
  <2> QED BY <1>1, <2>1, <2>2
<1>14. FindingsHaveMakers(e)
  BY <1>1, <1>2, <1>10, <1>11 DEF Grouped, FindingsHaveMakers
<1>15. KeysDiffer(e)
  BY <1>2, <1>10 DEF Grouped, KeysDiffer
<1>16. AggregatesOf(e)
  <2> SUFFICES ASSUME NEW g \in DOMAIN e.finding, e.finding[g].locate = "located"
               PROVE  LET made == e.finding[g] IN
                      /\ made.category
                           = IF \A i \in Sources(e, g) : CandOf(e, i).category = CandOf(e, g).category
                             THEN CandOf(e, g).category ELSE "unclear"
                      /\ made.verdict
                           = IF \A i \in Sources(e, g) : CandOf(e, i).verdict = "likely-error"
                             THEN "likely-error" ELSE "confirm-with-author"
                      /\ made.suppressed = Suppressed(made.category, made.at, made.fix)
    BY DEF AggregatesOf
  <2>1. \A i \in Sources(d, g) \cup {g} : CandOf(e, i) = CandOf(d, i)
    BY <1>1, <1>2, <1>11 DEF Sources
  <2>2. CASE g # f
    <3>1. Sources(e, g) = Sources(d, g)
      BY <1>1, <2>2
    <3> QED BY <1>2, <2>1, <2>2, <3>1 DEF Grouped, AggregatesOf
  <2>3. CASE g = f
    <3>1. Sources(e, f) = Sources(d, f) \cup {n}
      BY <1>1
    <3>2. cs = {CandOf(d, i) : i \in Sources(d, f)} \cup {c}
      BY DEF cs, MembersWith, CandOf
    <3>3. cs = {CandOf(e, i) : i \in Sources(e, f)}
      BY <1>1, <2>1, <2>3, <3>1, <3>2
    <3>4. f \in Sources(e, f) /\ CandOf(e, f) \in cs
      BY <1>3, <1>7, <3>1, <3>3 DEF Sources
    <3>5. AggregateCategory(cs)
            = IF \A i \in Sources(e, f) : CandOf(e, i).category = CandOf(e, f).category
              THEN CandOf(e, f).category ELSE "unclear"
      <4>1. (\A x \in cs : x.category = CandOf(e, f).category)
              <=> \A i \in Sources(e, f) : CandOf(e, i).category = CandOf(e, f).category
        BY <3>3
      <4> QED BY <3>4, <4>1, AggregateOf
    <3>6. AggregateVerdict(cs)
            = IF \A i \in Sources(e, f) : CandOf(e, i).verdict = "likely-error"
              THEN "likely-error" ELSE "confirm-with-author"
      <4>1. (\A x \in cs : x.verdict = "likely-error")
              <=> \A i \in Sources(e, f) : CandOf(e, i).verdict = "likely-error"
        BY <3>3
      <4> QED BY <3>4, <4>1, AggregateOf
    <3> QED BY <1>2, <1>5, <2>3, <3>5, <3>6
  <2> QED BY <2>2, <2>3
<1> QED BY <1>13, <1>14, <1>15, <1>16 DEF Grouped

LEMMA SavedGrouped ==
  ASSUME NEW d, TablesOK(d), Grouped(d), NEW u \in CheckUnits, NEW c \in Candidate,
         NEW e, Saved(d, e, u, c)
  PROVE  Grouped(e)
  BY MadeGrouped, JoinedGrouped, OutsideGrouped DEF Saved

-----------------------------------------------------------------------------
(* Growth                                                                   *)

LEMMA GrownIsReflexive ==
  ASSUME NEW d, TablesOK(d)
  PROVE  Grown(d, d)
  BY DEF Grown

LEMMA GrownIsTransitive ==
  ASSUME NEW d, NEW e, NEW g, Grown(d, e), Grown(e, g)
  PROVE  Grown(d, g)
<1> SUFFICES ASSUME NEW f \in DOMAIN d.finding
             PROVE  LET old == d.finding[f]
                        new == g.finding[f]
                    IN /\ f \in DOMAIN g.finding
                       /\ <<new.target, new.locate, new.at, new.fix>>
                            = <<old.target, old.locate, old.at, old.fix>>
                       /\ Sources(d, f) \subseteq Sources(g, f)
                       /\ new.category \in {old.category, "unclear"}
                       /\ new.suppressed => old.suppressed
                       /\ d.judgment[f] # "undecided" => g.judgment[f] = d.judgment[f]
                       /\ f \in DOMAIN d.recheck /\ d.recheck[f] \in RecheckVerdicts
                            => f \in DOMAIN g.recheck /\ g.recheck[f] = d.recheck[f]
  BY DEF Grown
<1>1. /\ f \in DOMAIN e.finding
      /\ <<e.finding[f].target, e.finding[f].locate, e.finding[f].at, e.finding[f].fix>>
           = <<d.finding[f].target, d.finding[f].locate, d.finding[f].at, d.finding[f].fix>>
      /\ Sources(d, f) \subseteq Sources(e, f)
      /\ e.finding[f].category \in {d.finding[f].category, "unclear"}
      /\ e.finding[f].suppressed => d.finding[f].suppressed
      /\ d.judgment[f] # "undecided" => e.judgment[f] = d.judgment[f]
      /\ f \in DOMAIN d.recheck /\ d.recheck[f] \in RecheckVerdicts
           => f \in DOMAIN e.recheck /\ e.recheck[f] = d.recheck[f]
  BY DEF Grown
<1>2. /\ f \in DOMAIN g.finding
      /\ <<g.finding[f].target, g.finding[f].locate, g.finding[f].at, g.finding[f].fix>>
           = <<e.finding[f].target, e.finding[f].locate, e.finding[f].at, e.finding[f].fix>>
      /\ Sources(e, f) \subseteq Sources(g, f)
      /\ g.finding[f].category \in {e.finding[f].category, "unclear"}
      /\ g.finding[f].suppressed => e.finding[f].suppressed
      /\ e.judgment[f] # "undecided" => g.judgment[f] = e.judgment[f]
      /\ f \in DOMAIN e.recheck /\ e.recheck[f] \in RecheckVerdicts
           => f \in DOMAIN g.recheck /\ g.recheck[f] = e.recheck[f]
  BY <1>1 DEF Grown
<1> QED BY <1>1, <1>2

(* A write that leaves candidates, findings, judgments made and verdicts    *)
Kept(d, e) ==
  /\ e.candidate = d.candidate
  /\ e.finding = d.finding
  /\ \A f \in DOMAIN d.finding :
       d.judgment[f] # "undecided" => e.judgment[f] = d.judgment[f]
  /\ \A f \in DOMAIN d.recheck : d.recheck[f] \in RecheckVerdicts =>
       f \in DOMAIN e.recheck /\ e.recheck[f] = d.recheck[f]

LEMMA KeptGrouped ==
  ASSUME NEW d, NEW e, Kept(d, e), Grouped(d)
  PROVE  Grouped(e)
<1>1. e.candidate = d.candidate /\ e.finding = d.finding
  BY DEF Kept
<1>2. \A f : Sources(e, f) = Sources(d, f)
  BY <1>1 DEF Sources
<1> QED BY <1>1, <1>2
        DEF Grouped, RowsHaveFindings, FindingsHaveMakers, KeysDiffer, AggregatesOf, CandOf

LEMMA KeptGrown ==
  ASSUME NEW d, NEW e, Kept(d, e)
  PROVE  Grown(d, e)
<1>1. e.candidate = d.candidate /\ e.finding = d.finding
  BY DEF Kept
<1>2. \A f : Sources(e, f) = Sources(d, f)
  BY <1>1 DEF Sources
<1> QED BY <1>1, <1>2 DEF Kept, Grown

LEMMA SavedGrown ==
  ASSUME NEW d, TablesOK(d), Grouped(d), NEW u \in CheckUnits, NEW c \in Candidate,
         NEW e, Saved(d, e, u, c)
  PROVE  Grown(d, e)
<1>n. PICK n : n = NextIndex(d)
  OBVIOUS
<1>1. CASE Made(d, e, u, c, n)
  <2>0. e.candidate = Append(d.candidate, Row(u, c, n))
    BY <1>1 DEF Made
  <2>1. RowAdded(d, e, c, n, n)
    BY <1>n, <2>0, AppendedRow, Zenon
  <2>2. \A f \in DOMAIN d.finding :
          /\ f # n /\ f \in DOMAIN e.finding /\ e.finding[f] = d.finding[f]
          /\ e.judgment[f] = d.judgment[f]
          /\ Sources(d, f) \subseteq Sources(e, f)
    BY <1>1, <2>1 DEF Made, RowAdded, TablesOK
  <2>3. \A f \in DOMAIN d.recheck : f \in DOMAIN e.recheck /\ e.recheck[f] = d.recheck[f]
    <3>1. \A f \in DOMAIN d.recheck : f # n
      BY <2>2 DEF TablesOK
    <3>2. CASE e.recheck = d.recheck
      BY <3>2
    <3>3. CASE e.recheck = [f \in DOMAIN d.recheck \cup {n} |->
                              IF f = n THEN ClosedRecheck ELSE d.recheck[f]]
      BY <3>1, <3>3
    <3> QED BY <1>1, <3>2, <3>3 DEF Made
  <2> QED BY <2>2, <2>3 DEF Grown
<1>2. ASSUME NEW f \in DOMAIN d.finding, Joined(d, e, u, c, f)
      PROVE  Grown(d, e)
  <2> DEFINE old == d.finding[f]
             cs  == MembersWith(d, f, c)
             new == Reaggregated(old, AggregateCategory(cs), AggregateVerdict(cs))
  <2>0. e.candidate = Append(d.candidate, Row(u, c, f))
    BY <1>2 DEF Joined
  <2>1. RowAdded(d, e, c, f, n)
    BY <1>n, <2>0, AppendedRow, Zenon
  <2>2. \A g \in DOMAIN d.finding : Sources(d, g) \subseteq Sources(e, g)
    BY <2>1 DEF RowAdded
  <2>3. /\ DOMAIN e.finding = DOMAIN d.finding
        /\ e.finding[f] = new
        /\ \A g \in DOMAIN d.finding : g # f => e.finding[g] = d.finding[g]
        /\ e.judgment = d.judgment /\ e.recheck = d.recheck
    BY <1>2 DEF Joined
  <2>4. f \in DOMAIN d.candidate /\ old \in Finding /\ CandOf(d, f) \in Candidate
    BY RowTypes
  <2>5. AggregateCategory(cs) \in Categories /\ AggregateVerdict(cs) \in Verdicts
    <3>1. c \in cs
      BY DEF MembersWith
    <3> QED BY <3>1, AggregateTypes
  <2>6. /\ new.category = AggregateCategory(cs)
        /\ new.suppressed = Suppressed(AggregateCategory(cs), old.at, old.fix)
        /\ new.locate = old.locate /\ new.at = old.at /\ new.fix = old.fix
        /\ new.target = old.target
    BY <2>4, <2>5, ReaggregatedTypes
  <2> HIDE DEF new, cs
  <2>7. /\ d.candidate[f].finding = f /\ IsLocated(CandOf(d, f)) /\ old.locate = "located"
    <3>1. MergeKey(c) # NoKey /\ old.key = MergeKey(c)
      BY <1>2 DEF Joined, FoundByKey
    <3> QED BY <2>4, <3>1 DEF Grouped, FindingsHaveMakers
  <2>8. f \in Sources(d, f)
    BY <2>4, <2>7 DEF Sources
  <2>9. \A i \in Sources(d, f) : CandOf(d, i) \in cs
    BY DEF cs, MembersWith, CandOf
  <2>10. /\ old.category
              = IF \A i \in Sources(d, f) : CandOf(d, i).category = CandOf(d, f).category
                THEN CandOf(d, f).category ELSE "unclear"
         /\ old.suppressed = Suppressed(old.category, old.at, old.fix)
    BY <2>7 DEF Grouped, AggregatesOf
  <2>11. AggregateCategory(cs)
           = IF \A x \in cs : x.category = CandOf(d, f).category
             THEN CandOf(d, f).category ELSE "unclear"
    BY <2>8, <2>9, AggregateOf
  <2>12. new.category \in {old.category, "unclear"}
    BY <2>6, <2>9, <2>10, <2>11
  <2>13. new.suppressed => old.suppressed
    BY <2>6, <2>10, <2>12 DEF Suppressed
  <2> QED BY <2>2, <2>3, <2>6, <2>12, <2>13 DEF Grown, TablesOK
<1>3. CASE Outside(d, e, u, c)
  <2>0. e.candidate = Append(d.candidate, Row(u, c, 0))
    BY <1>3 DEF Outside
  <2>1. RowAdded(d, e, c, 0, n)
    BY <1>n, <2>0, AppendedRow, Zenon
  <2>2. \A g \in DOMAIN d.finding : Sources(d, g) \subseteq Sources(e, g)
    BY <2>1 DEF RowAdded
  <2> QED BY <1>3, <2>2 DEF Outside, Grown
<1> QED BY <1>n, <1>1, <1>2, <1>3 DEF Saved

-----------------------------------------------------------------------------
(* The writes outside of saving an answer                                   *)

(* e is a well-typed table state that keeps what Kept says of d             *)
Safe(d, e) == TablesOK(e) /\ Kept(d, e)

LEMMA VerdictsAreFinal ==
  ASSUME NEW v \in RecheckVerdicts
  PROVE  v \notin {"pending", "running", "failed", "suppressed"} /\ v \in RecheckStatus
  BY MergingAssumption DEF RecheckStatus

LEMMA UnitSafe ==
  ASSUME NEW d, TablesOK(d), NEW u \in CheckUnits, NEW s \in UnitStatus
  PROVE  Safe(d, WithUnit(d, u, s)) /\ WithUnit(d, u, s).recheck = d.recheck
<1> DEFINE e == WithUnit(d, u, s)
<1>1. UnitWritten(d, e, u, s)
  <2>1. DOMAIN d = TableNames
    BY DEF TablesOK, TableNames
  <2> QED BY <2>1, WithUnitTables, Zenon
<1> HIDE DEF e
<1>2. TablesOK(e)
  BY <1>1 DEF TablesOK, UnitWritten, TableNames
<1>3. Kept(d, e)
  BY <1>1 DEF TablesOK, UnitWritten, Kept
<1> QED BY <1>1, <1>2, <1>3 DEF Safe, e, UnitWritten

LEMMA RecheckSafe ==
  ASSUME NEW d, TablesOK(d), NEW f \in DOMAIN d.finding, NEW s \in RecheckStatus,
         f \in DOMAIN d.recheck => d.recheck[f] \in {"pending", "running"}
  PROVE  LET e == WithRecheck(d, f, s) IN
         Safe(d, e) /\ f \in DOMAIN e.recheck /\ e.recheck[f] = s
<1> DEFINE e == WithRecheck(d, f, s)
<1>1. RecheckWritten(d, e, f, s)
  <2>1. DOMAIN d = TableNames
    BY DEF TablesOK, TableNames
  <2> QED BY <2>1, WithRecheckTables, Zenon
<1> HIDE DEF e
<1>2. /\ DOMAIN e.recheck = DOMAIN d.recheck \cup {f}
      /\ e.recheck[f] = s
      /\ \A g \in DOMAIN d.recheck : g # f => e.recheck[g] = d.recheck[g]
  BY <1>1 DEF RecheckWritten
<1>3. e.recheck \in [DOMAIN e.recheck -> RecheckStatus]
  BY <1>1 DEF RecheckWritten, TablesOK
<1>4. TablesOK(e)
  BY <1>1, <1>2, <1>3 DEF TablesOK, RecheckWritten, TableNames
<1>5. Kept(d, e)
  <2>1. \A g \in DOMAIN d.recheck : d.recheck[g] \in RecheckVerdicts => g # f
    BY VerdictsAreFinal
  <2> QED BY <1>1, <1>2, <2>1 DEF RecheckWritten, Kept
<1> QED BY <1>2, <1>4, <1>5 DEF Safe, e

LEMMA JudgmentSafe ==
  ASSUME NEW d, TablesOK(d), NEW f \in DOMAIN d.judgment, d.judgment[f] = "undecided"
  PROVE  LET e == [d EXCEPT !.judgment[f] = "adopt"] IN
         Safe(d, e) /\ e.recheck = d.recheck
<1> DEFINE e == [d EXCEPT !.judgment[f] = "adopt"]
<1>1. /\ DOMAIN e = DOMAIN d /\ e.unit = d.unit /\ e.candidate = d.candidate
      /\ e.finding = d.finding /\ e.recheck = d.recheck
      /\ e.judgment = [d.judgment EXCEPT ![f] = "adopt"]
  BY DEF TablesOK
<1> HIDE DEF e
<1>2. TablesOK(e)
  BY <1>1 DEF TablesOK
<1>3. Kept(d, e)
  BY <1>1 DEF TablesOK, Kept
<1> QED BY <1>1, <1>2, <1>3 DEF Safe, e

(* Putting units and rechecks back, on retry or after an interruption       *)
PutBack(d, us, fs) ==
  [d EXCEPT !.unit = [u \in CheckUnits |-> IF u \in us THEN "pending" ELSE d.unit[u]],
            !.recheck = [f \in DOMAIN d.recheck |->
                           IF f \in fs THEN "pending" ELSE d.recheck[f]]]

LEMMA PutBackSafe ==
  ASSUME NEW d, TablesOK(d), NEW us, NEW fs,
         \A f \in DOMAIN d.recheck : f \in fs => d.recheck[f] \in {"running", "failed"}
  PROVE  Safe(d, PutBack(d, us, fs))
<1> DEFINE unit    == [u \in CheckUnits |-> IF u \in us THEN "pending" ELSE d.unit[u]]
           recheck == [f \in DOMAIN d.recheck |->
                         IF f \in fs THEN "pending" ELSE d.recheck[f]]
           e == [d EXCEPT !.unit = unit, !.recheck = recheck]
<1> HIDE DEF unit, recheck
<1>1. /\ DOMAIN e = DOMAIN d /\ e.unit = unit /\ e.candidate = d.candidate
      /\ e.finding = d.finding /\ e.recheck = recheck /\ e.judgment = d.judgment
  BY DEF TablesOK
<1> HIDE DEF e
<1>2. unit \in [CheckUnits -> UnitStatus]
  BY DEF TablesOK, unit, UnitStatus
<1>3. DOMAIN recheck = DOMAIN d.recheck /\ recheck \in [DOMAIN d.recheck -> RecheckStatus]
  BY DEF TablesOK, recheck, RecheckStatus
<1>4. TablesOK(e)
  BY <1>1, <1>2, <1>3 DEF TablesOK
<1>5. \A f \in DOMAIN d.recheck : d.recheck[f] \in RecheckVerdicts => recheck[f] = d.recheck[f]
  BY VerdictsAreFinal DEF recheck
<1>6. Kept(d, e)
  BY <1>1, <1>3, <1>5 DEF Kept
<1> QED BY <1>4, <1>6 DEF Safe, PutBack, e, unit, recheck

LEMMA ResetSafe ==
  ASSUME NEW d, TablesOK(d)
  PROVE  Safe(d, ResetRunning(d))
<1> DEFINE us == {u \in CheckUnits : d.unit[u] = "running"}
           fs == {f \in DOMAIN d.recheck : d.recheck[f] = "running"}
<1>1. [u \in CheckUnits |-> IF d.unit[u] = "running" THEN "pending" ELSE d.unit[u]]
        = [u \in CheckUnits |-> IF u \in us THEN "pending" ELSE d.unit[u]]
  OBVIOUS
<1>2. [f \in DOMAIN d.recheck |-> IF d.recheck[f] = "running" THEN "pending" ELSE d.recheck[f]]
        = [f \in DOMAIN d.recheck |-> IF f \in fs THEN "pending" ELSE d.recheck[f]]
  OBVIOUS
<1>3. ResetRunning(d) = PutBack(d, us, fs)
  BY <1>1, <1>2 DEF ResetRunning, PutBack
<1>4. \A f \in DOMAIN d.recheck : f \in fs => d.recheck[f] \in {"running", "failed"}
  OBVIOUS
<1> HIDE DEF us, fs
<1>5. Safe(d, PutBack(d, us, fs))
  BY <1>4, PutBackSafe, Zenon
<1> QED BY <1>3, <1>5, Zenon

LEMMA IssuedRecheckTypes ==
  ASSUME TypeOK, NEW f \in DOMAIN db.finding
  PROVE  /\ IssuedRecheck(f) \in RecheckStatus
         /\ f \in DOMAIN db.recheck /\ db.recheck[f] \in RecheckVerdicts
              => IssuedRecheck(f) = db.recheck[f]
<1>1. FreshRecheck(f) \in RecheckStatus
  BY DEF FreshRecheck, RecheckStatus, NotApplicable
<1>2. f \in DOMAIN db.recheck => db.recheck[f] \in RecheckStatus
  BY DEF TypeOK, TablesOK
<1>3. "pending" \in RecheckStatus /\ "suppressed" \notin RecheckVerdicts
  BY VerdictsAreFinal DEF RecheckStatus
<1> QED BY <1>1, <1>2, <1>3 DEF IssuedRecheck

LEMMA IssueSafe ==
  ASSUME TypeOK, NEW fs \in SUBSET DOMAIN db.finding
  PROVE  Safe(db, [db EXCEPT !.recheck =
           [f \in DOMAIN db.recheck \cup fs |->
              IF f \in fs THEN IssuedRecheck(f) ELSE db.recheck[f]]])
<1> DEFINE new == [f \in DOMAIN db.recheck \cup fs |->
                     IF f \in fs THEN IssuedRecheck(f) ELSE db.recheck[f]]
           e   == [db EXCEPT !.recheck = new]
<1>1. /\ DOMAIN new = DOMAIN db.recheck \cup fs /\ DOMAIN new \subseteq DOMAIN db.finding
      /\ new \in [DOMAIN new -> RecheckStatus]
      /\ \A f \in DOMAIN db.recheck : db.recheck[f] \in RecheckVerdicts =>
           f \in DOMAIN new /\ new[f] = db.recheck[f]
  BY IssuedRecheckTypes DEF TypeOK, TablesOK
<1> HIDE DEF new
<1>2. /\ DOMAIN e = DOMAIN db /\ e.unit = db.unit /\ e.candidate = db.candidate
      /\ e.finding = db.finding /\ e.recheck = new /\ e.judgment = db.judgment
  BY DEF TypeOK, TablesOK
<1> HIDE DEF e
<1>3. TablesOK(e)
  BY <1>1, <1>2 DEF TypeOK, TablesOK
<1>4. Kept(db, e)
  BY <1>1, <1>2 DEF Kept
<1> QED BY <1>3, <1>4 DEF Safe, e, new

-----------------------------------------------------------------------------
(* The inductive invariant.  Beside the groups it needs that the tables     *)
(* differ from the committed ones only while an answer is being saved, and  *)
(* then only by growth; and where in its work the loop is.                  *)

LoopInv ==
  /\ loop.pc # "save" => db = disk
  /\ run.status = "absent" => loop.pc = "off"
  /\ loop.pc \in {"sent", "save"} => loop.persp \in Perspectives
  /\ loop.pc = "resent" => loop.job \in DOMAIN db.recheck /\ db.recheck[loop.job] = "running"

IInv ==
  /\ TypeOK
  /\ LoopInv
  /\ Grouped(db)
  /\ Grouped(disk)
  /\ Grown(disk, db)

ControlOK ==
  /\ run \in [status : RunStatus, reason : Halt \cup {"internal-error", "backend-restarted"},
              recheckOn : BOOLEAN]
  /\ loop \in Loop
  /\ launches \in 0 .. MaxLaunches
  /\ given \in [CheckUnits -> Seq(Candidate)]

Steps == IInv' /\ Grown(disk, disk')

LEMMA QuietStep ==
  ASSUME IInv, UNCHANGED <<db, disk>>, ControlOK', LoopInv'
  PROVE  Steps
<1>1. TypeOK'
  BY DEF IInv, TypeOK, ControlOK
<1>2. Grouped(db)' /\ Grouped(disk)' /\ Grown(disk, db)'
  BY DEF IInv
<1>3. Grown(disk, disk')
  BY GrownIsReflexive DEF IInv, TypeOK
<1> QED BY <1>1, <1>2, <1>3 DEF IInv, Steps

LEMMA WriteStep ==
  ASSUME IInv, NEW d \in {db, disk}, NEW e, Safe(d, e), Write(e), ControlOK', LoopInv'
  PROVE  Steps
<1>1. TablesOK(e) /\ Grouped(e) /\ Grown(d, e) /\ Grown(disk, d)
  BY KeptGrouped, KeptGrown, GrownIsReflexive DEF IInv, Safe, TypeOK
<1>2. db' = e /\ disk' = e
  BY DEF Write
<1>3. TypeOK'
  BY <1>1, <1>2 DEF TypeOK, ControlOK
<1>4. Grown(disk, e) /\ Grown(e, e)
  BY <1>1, GrownIsTransitive, GrownIsReflexive
<1>5. Grouped(db)' /\ Grouped(disk)' /\ Grown(disk, db)' /\ Grown(disk, disk')
  BY <1>1, <1>2, <1>4
<1> QED BY <1>3, <1>5 DEF IInv, Steps

LEMMA UnitType ==
  ASSUME TypeOK, loop.persp \in Perspectives
  PROVE  Unit \in CheckUnits
  BY DEF TypeOK, Loop, Unit, CheckUnits

LEMMA NoLoopType == NoLoop \in Loop
<1>1. 1 \in Targets /\ 1 \in 1 .. NumPerspectives + 1
  BY MergingAssumption DEF Targets
<1>2. <<>> \in Seq(Candidate)
  OBVIOUS
<1> QED BY <1>1, <1>2 DEF NoLoop, Loop, Pc, Halt

LEMMA LaunchStep ==
  ASSUME IInv, Launch
  PROVE  /\ run' \in [status : RunStatus,
                      reason : Halt \cup {"internal-error", "backend-restarted"},
                      recheckOn : BOOLEAN]
         /\ loop' \in Loop
         /\ launches' \in 0 .. MaxLaunches
         /\ run'.status = "running"
         /\ loop'.pc = "scan"
<1>1. loop' \in Loop /\ loop'.pc = "scan"
  BY NoLoopType DEF Launch, Loop, Pc
<1>2. run' \in [status : RunStatus,
                reason : Halt \cup {"internal-error", "backend-restarted"},
                recheckOn : BOOLEAN] /\ run'.status = "running"
  BY DEF Launch, IInv, TypeOK, RunStatus, Halt
<1>3. launches' \in 0 .. MaxLaunches
  BY StoreAssumption DEF Launch, IInv, TypeOK
<1> QED BY <1>1, <1>2, <1>3

LEMMA StartStep ==
  ASSUME IInv, StartRun \/ ResumeRun
  PROVE  Steps
<1>1. Launch /\ UNCHANGED <<db, disk, given>> /\ loop.pc = "off"
  BY DEF StartRun, ResumeRun, IInv, LoopInv
<1>2. ControlOK'
  BY <1>1, LaunchStep DEF ControlOK, IInv, TypeOK
<1>3. LoopInv'
  BY <1>1, LaunchStep DEF LoopInv, IInv
<1> QED BY <1>1, <1>2, <1>3, QuietStep

LEMMA RetryStep ==
  ASSUME IInv, RetryFailedUnits
  PROVE  Steps
<1>1. PICK us \in SUBSET {u \in CheckUnits : db.unit[u] = "failed"},
           fs \in SUBSET {f \in DOMAIN db.recheck : db.recheck[f] = "failed"} :
        Write([db EXCEPT
            !.unit = [u \in CheckUnits |-> IF u \in us THEN "pending" ELSE @[u]],
            !.recheck = [f \in DOMAIN @ |-> IF f \in fs THEN "pending" ELSE @[f]]])
  BY DEF RetryFailedUnits
<1>2. Write(PutBack(db, us, fs))
  BY <1>1 DEF PutBack
<1>3. Safe(db, PutBack(db, us, fs))
  BY PutBackSafe DEF IInv, TypeOK
<1>4. ControlOK'
  BY LaunchStep DEF RetryFailedUnits, ControlOK, IInv, TypeOK
<1>5. LoopInv'
  BY <1>2, LaunchStep DEF RetryFailedUnits, LoopInv, IInv, Write
<1> QED BY <1>2, <1>3, <1>4, <1>5, WriteStep

(* Steps that move the loop on and write nothing                            *)
LEMMA MoveStep ==
  ASSUME IInv, UNCHANGED <<db, disk, run, launches, given>>, loop' \in Loop,
         loop.pc \notin {"off", "save"} /\ loop'.pc \notin {"off", "save", "sent", "resent"}
  PROVE  Steps
<1>1. ControlOK'
  BY DEF ControlOK, IInv, TypeOK
<1>2. LoopInv'
  BY DEF LoopInv, IInv
<1> QED BY <1>1, <1>2, QuietStep

LEMMA StopStep ==
  ASSUME IInv, StopRun
  PROVE  Steps
<1>1. loop' \in Loop /\ loop'.pc = loop.pc /\ loop'.persp = loop.persp /\ loop'.job = loop.job
  BY DEF StopRun, IInv, TypeOK, Loop
<1>2. ControlOK'
  BY <1>1 DEF StopRun, ControlOK, IInv, TypeOK
<1>3. LoopInv'
  BY <1>1 DEF StopRun, LoopInv, IInv
<1> QED BY <1>2, <1>3, QuietStep DEF StopRun

LEMMA JudgeStep ==
  ASSUME IInv, Judge
  PROVE  Steps
<1>1. PICK f \in DOMAIN db.judgment : db.judgment[f] = "undecided"
                                    /\ Write([db EXCEPT !.judgment[f] = "adopt"])
  BY DEF Judge
<1> DEFINE e == [db EXCEPT !.judgment[f] = "adopt"]
<1>2. Safe(db, e) /\ e.recheck = db.recheck
  BY <1>1, JudgmentSafe DEF IInv, TypeOK
<1>3. Write(e)
  BY <1>1
<1> HIDE DEF e
<1>4. ControlOK'
  BY DEF Judge, ControlOK, IInv, TypeOK
<1>5. LoopInv'
  BY <1>2, <1>3 DEF Judge, Yielded, LoopInv, IInv, Write
<1> QED BY <1>2, <1>3, <1>4, <1>5, WriteStep

LEMMA ScanSteps ==
  ASSUME IInv, StopBeforeUnit \/ SkipUnit \/ EndOfPerspectives \/ SettleNothing
               \/ RechecksDone \/ StopBeforeRecheck
  PROVE  Steps
<1>1. ASSUME StopBeforeUnit \/ StopBeforeRecheck PROVE Steps
  <2>1. loop' \in Loop /\ loop'.pc = "finish"
    BY <1>1 DEF StopBeforeUnit, StopBeforeRecheck, IInv, TypeOK, Loop, Pc, Halt
  <2> QED BY <1>1, <2>1, MoveStep DEF StopBeforeUnit, StopBeforeRecheck
<1>2. ASSUME SkipUnit PROVE Steps
  <2>1. loop' \in Loop /\ loop'.pc = "scan"
    <3>1. loop.persp + 1 \in 1 .. NumPerspectives + 1
      BY <1>2, MergingAssumption DEF SkipUnit, Perspectives
    <3>2. loop \in Loop /\ loop.pc = "scan" /\ loop' = [loop EXCEPT !.persp = loop.persp + 1]
      BY <1>2 DEF SkipUnit, IInv, TypeOK
    <3> QED BY <3>1, <3>2 DEF Loop
  <2> QED BY <1>2, <2>1, MoveStep DEF SkipUnit
<1>3. ASSUME EndOfPerspectives PROVE Steps
  <2>1. loop' \in Loop /\ loop'.pc = "settle"
    BY <1>3 DEF EndOfPerspectives, IInv, TypeOK, Loop, Pc
  <2> QED BY <1>3, <2>1, MoveStep DEF EndOfPerspectives
<1>4. ASSUME SettleNothing \/ RechecksDone PROVE Steps
  <2>1. loop' = Advance(loop) /\ UNCHANGED <<db, disk, run, launches, given>>
        /\ loop.pc \in {"settle", "recheck"}
    BY <1>4 DEF SettleNothing, RechecksDone
  <2>2. Advance(loop) \in Loop /\ Advance(loop).pc \in {"scan", "finish"}
    <3>0. loop \in Loop /\ {"scan", "finish"} \subseteq Pc /\ 1 \in 1 .. NumPerspectives + 1
      BY MergingAssumption DEF IInv, TypeOK, Pc
    <3>1. CASE loop.persp \in Perspectives
      <4>1. loop.persp + 1 \in 1 .. NumPerspectives + 1
        BY <3>1, MergingAssumption DEF Perspectives
      <4>2. Advance(loop) = [loop EXCEPT !.pc = "scan", !.persp = loop.persp + 1]
        BY <3>1 DEF Advance
      <4> QED BY <3>0, <4>1, <4>2 DEF Loop
    <3>2. CASE loop.persp \notin Perspectives /\ loop.target < NumTargets
      <4>1. loop.target + 1 \in Targets
        BY <3>0, <3>2, MergingAssumption DEF Loop, Targets
      <4>2. Advance(loop) = [loop EXCEPT !.pc = "scan", !.target = loop.target + 1,
                                        !.persp = 1, !.settled = FALSE]
        BY <3>2 DEF Advance
      <4> QED BY <3>0, <4>1, <4>2 DEF Loop
    <3>3. CASE loop.persp \notin Perspectives /\ ~(loop.target < NumTargets)
      <4>1. Advance(loop) = [loop EXCEPT !.pc = "finish"]
        BY <3>3 DEF Advance
      <4> QED BY <3>0, <4>1 DEF Loop
    <3> QED BY <3>1, <3>2, <3>3
  <2> QED BY <2>1, <2>2, MoveStep
<1> QED BY <1>1, <1>2, <1>3, <1>4

LEMMA EndingTypes ==
  ASSUME NEW e \in Endings
  PROVE  e[1] \in {"failed", "pending"} /\ e[2] \in Halt
  BY DEF Endings, Halt

LEMMA ClaimUnitStep ==
  ASSUME IInv, ClaimUnit
  PROVE  Steps
<1>1. Unit \in CheckUnits /\ "running" \in UnitStatus
  BY UnitType DEF ClaimUnit, IInv, UnitStatus
<1>2. Safe(db, WithUnit(db, Unit, "running")) /\ Write(WithUnit(db, Unit, "running"))
  BY <1>1, UnitSafe DEF ClaimUnit, IInv, TypeOK
<1>3. loop' \in Loop /\ loop'.pc = "sent" /\ loop'.persp = loop.persp
  BY DEF ClaimUnit, IInv, TypeOK, Loop, Pc
<1>4. ControlOK'
  BY <1>3 DEF ClaimUnit, ControlOK, IInv, TypeOK
<1>5. LoopInv'
  BY <1>2, <1>3 DEF ClaimUnit, LoopInv, IInv, Write
<1> QED BY <1>2, <1>4, <1>5, WriteStep

LEMMA AnswerStep ==
  ASSUME IInv, AnswerUnit
  PROVE  Steps
<1>1. Unit \in CheckUnits
  BY UnitType DEF AnswerUnit, IInv, LoopInv
<1>2. PICK a \in AnswersTo[Unit] : /\ loop' = [loop EXCEPT !.pc = "save", !.rest = a]
                                  /\ given' = [given EXCEPT ![Unit] = a]
  BY DEF AnswerUnit
<1>3. a \in Seq(Candidate)
  BY <1>1, MergingAssumption
<1>4. loop' \in Loop /\ loop'.pc = "save" /\ loop'.persp = loop.persp
  BY <1>2, <1>3 DEF IInv, TypeOK, Loop, Pc
<1>5. given' \in [CheckUnits -> Seq(Candidate)]
  BY <1>2, <1>3 DEF IInv, TypeOK
<1>6. ControlOK'
  BY <1>4, <1>5 DEF AnswerUnit, ControlOK, IInv, TypeOK
<1>7. LoopInv'
  BY <1>4 DEF AnswerUnit, LoopInv, IInv
<1> QED BY <1>6, <1>7, QuietStep DEF AnswerUnit

LEMMA LoseStep ==
  ASSUME IInv, LoseUnit
  PROVE  Steps
<1>1. PICK e \in Endings :
        /\ Write(WithUnit(db, Unit, e[1]))
        /\ loop' = [loop EXCEPT !.pc = IF e[2] = "none" THEN "settle" ELSE "finish",
                                !.halt = e[2]]
  BY DEF LoseUnit
<1>2. Unit \in CheckUnits /\ e[1] \in UnitStatus /\ e[2] \in Halt
  BY UnitType, EndingTypes DEF LoseUnit, IInv, LoopInv, UnitStatus
<1>3. Safe(db, WithUnit(db, Unit, e[1]))
  BY <1>2, UnitSafe DEF IInv, TypeOK
<1>4. loop' \in Loop /\ loop'.pc \in {"settle", "finish"}
  BY <1>1, <1>2 DEF IInv, TypeOK, Loop, Pc
<1>5. ControlOK'
  BY <1>4 DEF LoseUnit, ControlOK, IInv, TypeOK
<1>6. LoopInv'
  BY <1>1, <1>4 DEF LoseUnit, LoopInv, IInv, Write
<1> QED BY <1>1, <1>3, <1>5, <1>6, WriteStep

LEMMA SaveStep ==
  ASSUME IInv, SaveCandidate
  PROVE  Steps
<1> DEFINE c == Head(loop.rest)
<1>1. c \in Candidate /\ Tail(loop.rest) \in Seq(Candidate)
  BY DEF SaveCandidate, IInv, TypeOK, Loop
<1>2. Unit \in CheckUnits
  BY UnitType DEF SaveCandidate, IInv, LoopInv
<1>3. db' = SavedCandidate(db, Unit, c) /\ disk' = disk
  BY DEF SaveCandidate
<1> HIDE DEF c
<1>4. Saved(db, db', Unit, c)
  BY <1>1, <1>2, <1>3, SavedTables DEF IInv, TypeOK
<1>5. TablesOK(db') /\ Grouped(db') /\ Grown(db, db')
  BY <1>1, <1>2, <1>4, SavedTypes, SavedGrouped, SavedGrown DEF IInv, TypeOK
<1>6. loop' \in Loop /\ loop'.pc = "save" /\ loop'.persp = loop.persp
  BY <1>1 DEF SaveCandidate, IInv, TypeOK, Loop
<1>7. TypeOK'
  BY <1>3, <1>5, <1>6 DEF SaveCandidate, IInv, TypeOK
<1>8. LoopInv'
  BY <1>6 DEF SaveCandidate, LoopInv, IInv
<1>9. Grown(disk, db') /\ Grown(disk, disk)
  BY <1>5, GrownIsTransitive, GrownIsReflexive DEF IInv, TypeOK
<1> QED BY <1>3, <1>5, <1>7, <1>8, <1>9 DEF IInv, Steps

LEMMA CommitStep ==
  ASSUME IInv, CommitUnit
  PROVE  Steps
<1>1. Unit \in CheckUnits /\ "done" \in UnitStatus
  BY UnitType DEF CommitUnit, IInv, LoopInv, UnitStatus
<1>2. Safe(db, WithUnit(db, Unit, "done")) /\ Write(WithUnit(db, Unit, "done"))
  BY <1>1, UnitSafe DEF CommitUnit, IInv, TypeOK
<1>3. loop' \in Loop /\ loop'.pc = "settle"
  BY DEF CommitUnit, IInv, TypeOK, Loop, Pc
<1>4. ControlOK'
  BY <1>3 DEF CommitUnit, ControlOK, IInv, TypeOK
<1>5. LoopInv'
  BY <1>2, <1>3 DEF CommitUnit, LoopInv, IInv, Write
<1> QED BY <1>2, <1>4, <1>5, WriteStep

(* The two ways the loop ends that roll an open transaction back            *)
LEMMA RollBackStep ==
  ASSUME IInv, SavingFails \/ Restart
  PROVE  Steps
<1>1. Write(ResetRunning(disk)) /\ loop' = NoLoop /\ UNCHANGED <<launches, given>>
  BY DEF SavingFails, Restart, RolledBack
<1>2. Safe(disk, ResetRunning(disk))
  BY ResetSafe DEF IInv, TypeOK
<1>3. run' \in [status : RunStatus, reason : Halt \cup {"internal-error", "backend-restarted"},
                recheckOn : BOOLEAN] /\ run'.status # "absent"
  BY DEF SavingFails, Restart, IInv, TypeOK, RunStatus
<1>4. ControlOK'
  BY <1>1, <1>3, NoLoopType DEF ControlOK, IInv, TypeOK
<1>5. LoopInv'
  BY <1>1, <1>3 DEF LoopInv, NoLoop, Write
<1> QED BY <1>1, <1>2, <1>4, <1>5, WriteStep

LEMMA IssueStep ==
  ASSUME IInv, IssueRechecks
  PROVE  Steps
<1> DEFINE fs == OfTarget(loop.target)
           e  == [db EXCEPT !.recheck =
                    [f \in DOMAIN db.recheck \cup fs |->
                       IF f \in fs THEN IssuedRecheck(f) ELSE db.recheck[f]]]
<1>1. fs \in SUBSET DOMAIN db.finding
  BY DEF OfTarget
<1>2. Write(e)
  BY DEF IssueRechecks
<1> HIDE DEF fs
<1>3. Safe(db, e)
  BY <1>1, IssueSafe DEF IInv
<1> HIDE DEF e
<1>4. loop' \in Loop /\ loop'.pc = "recheck"
  BY DEF IssueRechecks, IInv, TypeOK, Loop, Pc
<1>5. ControlOK'
  BY <1>4 DEF IssueRechecks, ControlOK, IInv, TypeOK
<1>6. LoopInv'
  BY <1>2, <1>4 DEF IssueRechecks, LoopInv, IInv, Write
<1> QED BY <1>2, <1>3, <1>5, <1>6, WriteStep

LEMMA ClaimRecheckStep ==
  ASSUME IInv, ClaimRecheck
  PROVE  Steps
<1>1. PICK f \in PendingRechecks : /\ Write(WithRecheck(db, f, "running"))
                                  /\ loop' = [loop EXCEPT !.pc = "resent", !.job = f]
  BY DEF ClaimRecheck
<1>2. f \in DOMAIN db.finding /\ f \in Nat /\ db.recheck[f] = "pending"
  BY DEF PendingRechecks, OfTarget, IInv, TypeOK, TablesOK
<1> DEFINE e == WithRecheck(db, f, "running")
<1>3. Safe(db, e) /\ f \in DOMAIN e.recheck /\ e.recheck[f] = "running"
  BY <1>2, RecheckSafe DEF IInv, TypeOK, RecheckStatus
<1>4. Write(e)
  BY <1>1
<1> HIDE DEF e
<1>5. loop' \in Loop /\ loop'.pc = "resent" /\ loop'.job = f
  BY <1>1, <1>2 DEF IInv, TypeOK, Loop, Pc
<1>6. ControlOK'
  BY <1>5 DEF ClaimRecheck, ControlOK, IInv, TypeOK
<1>7. LoopInv'
  BY <1>3, <1>4, <1>5 DEF ClaimRecheck, LoopInv, IInv, Write
<1> QED BY <1>3, <1>4, <1>6, <1>7, WriteStep

LEMMA SaveRecheckStep ==
  ASSUME IInv, SaveRecheck
  PROVE  Steps
<1>1. PICK e \in Endings \cup {<<v, "none">> : v \in RecheckVerdicts} :
        /\ Write(WithRecheck(db, loop.job, e[1]))
        /\ loop' = [loop EXCEPT !.pc = IF e[2] = "none" THEN "recheck" ELSE "finish",
                                !.halt = e[2], !.job = 0]
  BY DEF SaveRecheck
<1>2. e[1] \in RecheckStatus /\ e[2] \in Halt
  BY EndingTypes DEF RecheckStatus, Halt
<1>3. /\ loop.job \in DOMAIN db.finding
      /\ loop.job \in DOMAIN db.recheck => db.recheck[loop.job] \in {"pending", "running"}
  BY DEF SaveRecheck, IInv, LoopInv, TypeOK, TablesOK
<1>4. Safe(db, WithRecheck(db, loop.job, e[1]))
  BY <1>2, <1>3, RecheckSafe DEF IInv, TypeOK
<1>5. loop' \in Loop /\ loop'.pc \in {"recheck", "finish"}
  BY <1>1, <1>2 DEF IInv, TypeOK, Loop, Pc
<1>6. ControlOK'
  BY <1>5 DEF SaveRecheck, ControlOK, IInv, TypeOK
<1>7. LoopInv'
  BY <1>1, <1>5 DEF SaveRecheck, LoopInv, IInv, Write
<1> QED BY <1>1, <1>4, <1>6, <1>7, WriteStep

LEMMA FinalizeStep ==
  ASSUME IInv, FinalizeRun
  PROVE  Steps
<1>1. run' \in [status : RunStatus, reason : Halt \cup {"internal-error", "backend-restarted"},
                recheckOn : BOOLEAN] /\ run'.status # "absent"
  BY DEF FinalizeRun, IInv, TypeOK, RunStatus, Loop
<1>2. ControlOK'
  BY <1>1, NoLoopType DEF FinalizeRun, ControlOK, IInv, TypeOK
<1>3. LoopInv'
  BY <1>1 DEF FinalizeRun, LoopInv, IInv, NoLoop
<1> QED BY <1>2, <1>3, QuietStep DEF FinalizeRun

-----------------------------------------------------------------------------
(* Answers are saved once.  While one is being saved, the open tables hold  *)
(* the committed candidates and after them what was taken of the answer.    *)

HandInv == loop.pc \in {"sent", "save"} => disk.unit[Unit] = "running"

(* open is saved with m rows of unit u after it, the first m of the answer; *)
(* rest is what is left of the answer.                                      *)
TakenOf(open, saved, rest, answer, u, m) ==
  /\ Len(rest) = Len(answer) - m
  /\ \A k \in 1 .. Len(rest) : rest[k] = answer[m + k]
  /\ Len(open) = Len(saved) + m
  /\ \A i \in 1 .. Len(saved) : open[i] = saved[i]
  /\ \A k \in 1 .. m : /\ open[Len(saved) + k].unit = u
                       /\ open[Len(saved) + k].cand = answer[k]

Taken(m) == TakenOf(db.candidate, disk.candidate, loop.rest, given[Unit], Unit, m)

SaveInv ==
  loop.pc = "save" =>
    /\ db.unit = disk.unit
    /\ \E m \in 0 .. Len(given[Unit]) : Taken(m)

AnswersInv == AnswersSavedOnce /\ HandInv /\ SaveInv

(* A step that saves no candidates and leaves the units that are done done  *)
SameDone(d, e) ==
  /\ e.candidate = d.candidate
  /\ \A u \in CheckUnits : e.unit[u] = "done" <=> d.unit[u] = "done"

LEMMA AnswersKept ==
  ASSUME AnswersSavedOnce, SameDone(disk, disk'),
         \A u \in CheckUnits : disk.unit[u] = "done" => given'[u] = given[u]
  PROVE  AnswersSavedOnce'
<1> SUFFICES ASSUME NEW u \in CheckUnits
             PROVE  \E n \in 0 .. Len(disk'.candidate) :
                      SavedAfter(disk', u, n, IF disk'.unit[u] = "done" THEN given'[u] ELSE <<>>)
  BY DEF AnswersSavedOnce
<1>1. PICK n \in 0 .. Len(disk.candidate) :
        SavedAfter(disk, u, n, IF disk.unit[u] = "done" THEN given[u] ELSE <<>>)
  BY DEF AnswersSavedOnce
<1>2. SavedAfter(disk', u, n, IF disk'.unit[u] = "done" THEN given'[u] ELSE <<>>)
  BY <1>1 DEF SavedAfter, SameDone
<1> QED BY <1>2 DEF SameDone

LEMMA AnswersRest ==
  ASSUME AnswersInv, UNCHANGED given, SameDone(disk, disk'),
         loop'.pc \notin {"sent", "save"}
  PROVE  AnswersInv'
  BY AnswersKept DEF AnswersInv, HandInv, SaveInv

LEMMA AnswersYielded ==
  ASSUME IInv, AnswersInv, StopRun \/ Judge
  PROVE  AnswersInv'
<1>1. SameDone(disk, disk') /\ disk'.unit = disk.unit /\ loop.pc # "save"
  BY DEF StopRun, Judge, Write, Yielded, SameDone, IInv, LoopInv, TypeOK, TablesOK
<1>2. /\ loop'.pc = loop.pc /\ loop'.target = loop.target /\ loop'.persp = loop.persp
      /\ given' = given
  BY DEF StopRun, Judge, IInv, TypeOK, Loop
<1>3. AnswersSavedOnce'
  BY <1>1, <1>2, AnswersKept DEF AnswersInv
<1> QED BY <1>1, <1>2, <1>3 DEF AnswersInv, HandInv, SaveInv, Unit

LEMMA ClaimAnswers ==
  ASSUME IInv, AnswersInv, ClaimUnit
  PROVE  AnswersInv'
<1>1. Unit \in CheckUnits /\ db = disk /\ disk.unit[Unit] = "pending"
  BY UnitType DEF ClaimUnit, IInv, LoopInv
<1>2. UnitWritten(disk, disk', Unit, "running")
  BY <1>1, WithUnitTables DEF ClaimUnit, Write, IInv, TypeOK, TablesOK, TableNames
<1>3. SameDone(disk, disk') /\ disk'.unit[Unit] = "running"
  BY <1>1, <1>2 DEF UnitWritten, SameDone, IInv, TypeOK, TablesOK
<1>4. loop'.pc = "sent" /\ Unit' = Unit
  BY DEF ClaimUnit, IInv, TypeOK, Loop, Unit
<1>5. AnswersSavedOnce'
  BY <1>3, AnswersKept DEF ClaimUnit, AnswersInv
<1> QED BY <1>3, <1>4, <1>5 DEF AnswersInv, HandInv, SaveInv

LEMMA AnswerAnswers ==
  ASSUME IInv, AnswersInv, AnswerUnit
  PROVE  AnswersInv'
<1>1. Unit \in CheckUnits /\ db = disk /\ disk.unit[Unit] = "running"
  BY UnitType DEF AnswerUnit, IInv, LoopInv, AnswersInv, HandInv
<1>2. PICK a \in AnswersTo[Unit] : /\ loop' = [loop EXCEPT !.pc = "save", !.rest = a]
                                  /\ given' = [given EXCEPT ![Unit] = a]
  BY DEF AnswerUnit
<1>3. a \in Seq(Candidate)
  BY <1>1, MergingAssumption
<1>4. loop'.pc = "save" /\ loop'.rest = a /\ Unit' = Unit
  BY <1>2 DEF IInv, TypeOK, Loop, Unit
<1>5. given'[Unit] = a /\ \A u \in CheckUnits : disk.unit[u] = "done" => given'[u] = given[u]
  BY <1>1, <1>2 DEF IInv, TypeOK
<1>6. AnswersSavedOnce'
  BY <1>5, AnswersKept DEF AnswerUnit, AnswersInv, SameDone
<1>7. Taken(0)'
  BY <1>1, <1>3, <1>4, <1>5 DEF AnswerUnit, Taken, TakenOf, IInv, TypeOK, TablesOK
<1> QED BY <1>1, <1>3, <1>4, <1>5, <1>6, <1>7 DEF AnswerUnit, AnswersInv, HandInv, SaveInv

LEMMA OneMoreTaken ==
  ASSUME NEW R, NEW open \in Seq(R), NEW saved \in Seq(R),
         NEW C, NEW rest \in Seq(C), NEW answer \in Seq(C), NEW u, NEW m \in 0 .. Len(answer),
         TakenOf(open, saved, rest, answer, u, m), rest # <<>>,
         NEW row \in R, row.unit = u, row.cand = Head(rest)
  PROVE  m + 1 \in 0 .. Len(answer)
         /\ TakenOf(Append(open, row), saved, Tail(rest), answer, u, m + 1)
<1> DEFINE more == Append(open, row)
           left == Tail(rest)
<1>1. Len(rest) \in Nat /\ Len(rest) > 0 /\ Len(answer) \in Nat /\ Len(saved) \in Nat
  OBVIOUS
<1>2. /\ Len(more) = Len(open) + 1 /\ more[Len(open) + 1] = row
      /\ \A i \in 1 .. Len(open) : more[i] = open[i]
  OBVIOUS
<1>3. Len(left) = Len(rest) - 1 /\ \A k \in 1 .. Len(left) : left[k] = rest[k + 1]
  BY <1>1
<1> HIDE DEF more, left
<1>4. m + 1 \in 0 .. Len(answer) /\ Len(left) = Len(answer) - (m + 1)
      /\ Len(more) = Len(saved) + (m + 1)
  BY <1>1, <1>2, <1>3 DEF TakenOf
<1>5. ASSUME NEW k \in 1 .. Len(left) PROVE left[k] = answer[m + 1 + k]
  <2>1. k + 1 \in 1 .. Len(rest) /\ m + (k + 1) = m + 1 + k
    BY <1>1, <1>3
  <2>2. rest[k + 1] = answer[m + (k + 1)]
    BY <2>1 DEF TakenOf
  <2> QED BY <1>3, <2>1, <2>2
<1>6. ASSUME NEW i \in 1 .. Len(saved) PROVE more[i] = saved[i]
  BY <1>1, <1>2 DEF TakenOf
<1>7. ASSUME NEW k \in 1 .. m + 1
      PROVE  more[Len(saved) + k].unit = u /\ more[Len(saved) + k].cand = answer[k]
  <2>1. CASE k = m + 1
    <3>1. Head(rest) = answer[m + 1]
      <4>1. 1 \in 1 .. Len(rest) /\ Head(rest) = rest[1]
        BY <1>1
      <4> QED BY <4>1 DEF TakenOf
    <3>2. more[Len(saved) + k] = row
      BY <1>2, <2>1 DEF TakenOf
    <3> QED BY <2>1, <3>1, <3>2
  <2>2. CASE k # m + 1
    <3>1. k \in 1 .. m /\ Len(saved) + k \in 1 .. Len(open)
      BY <1>1, <2>2 DEF TakenOf
    <3> QED BY <1>2, <3>1 DEF TakenOf
  <2> QED BY <2>1, <2>2
<1>8. TakenOf(more, saved, left, answer, u, m + 1)
  BY <1>4, <1>5, <1>6, <1>7 DEF TakenOf
<1> QED BY <1>4, <1>8 DEF more, left

(* The rows of other units stay where they are when a block is added.       *)
LEMMA BlockAdded ==
  ASSUME NEW R, NEW d, NEW e, d.candidate \in Seq(R), e.candidate \in Seq(R),
         NEW C, NEW block \in Seq(C), NEW u,
         TakenOf(e.candidate, d.candidate, <<>>, block, u, Len(block))
  PROVE  /\ SavedAfter(d, u, 0, <<>>) => SavedAfter(e, u, Len(d.candidate), block)
         /\ \A w : \A n \in Nat, answer \in Seq(C) :
              w # u /\ SavedAfter(d, w, n, answer) => SavedAfter(e, w, n, answer)
         /\ Len(e.candidate) = Len(d.candidate) + Len(block)
<1> DEFINE old  == Len(d.candidate)
           size == Len(block)
           D(i) == d.candidate[i]
           E(i) == e.candidate[i]
<1>1. /\ old \in Nat /\ size \in Nat /\ Len(e.candidate) = old + size
      /\ DOMAIN d.candidate = 1 .. old /\ DOMAIN e.candidate = 1 .. old + size
      /\ DOMAIN block = 1 .. size
      /\ \A i \in 1 .. old : E(i) = D(i)
      /\ \A k \in 1 .. size : E(old + k).unit = u /\ E(old + k).cand = block[k]
  BY DEF TakenOf
<1>2. \A i \in old + 1 .. old + size : E(i).unit = u
  <2> SUFFICES ASSUME NEW i \in old + 1 .. old + size PROVE E(i).unit = u
    OBVIOUS
  <2> HIDE DEF old, size, E
  <2>1. PICK k \in 1 .. size : k = i - old
    BY <1>1
  <2>2. i = old + k
    BY <1>1, <2>1
  <2> QED BY <1>1, <2>2
<1>3. ASSUME NEW w
      PROVE  {i \in DOMAIN e.candidate : E(i).unit = w}
               = {i \in 1 .. old : D(i).unit = w} \cup {i \in old + 1 .. old + size : w = u}
  <2> HIDE DEF old, size, D, E
  <2>1. 1 .. old + size = (1 .. old) \cup (old + 1 .. old + size)
    BY <1>1
  <2> QED BY <1>1, <1>2, <2>1
<1>4. ASSUME SavedAfter(d, u, 0, <<>>) PROVE SavedAfter(e, u, old, block)
  <2>1. {i \in 1 .. old : D(i).unit = u} = {}
    BY <1>1, <1>4 DEF SavedAfter
  <2>2. {i \in DOMAIN e.candidate : E(i).unit = u} = old + 1 .. old + size
    BY <1>3, <2>1
  <2> QED BY <1>1, <2>2 DEF SavedAfter
<1>5. ASSUME NEW w, NEW n \in Nat, NEW answer \in Seq(C), w # u, SavedAfter(d, w, n, answer)
      PROVE  SavedAfter(e, w, n, answer)
  <2>1. {i \in DOMAIN e.candidate : E(i).unit = w} = {i \in 1 .. old : D(i).unit = w}
    BY <1>3, <1>5
  <2>2. {i \in 1 .. old : D(i).unit = w} = n + 1 .. n + Len(answer)
        /\ \A k \in DOMAIN answer : D(n + k).cand = answer[k]
    BY <1>1, <1>5 DEF SavedAfter
  <2>3. \A k \in DOMAIN answer : n + k \in 1 .. old
    <3> HIDE DEF old, D
    <3> SUFFICES ASSUME NEW k \in DOMAIN answer PROVE n + k \in 1 .. old
      OBVIOUS
    <3>1. n + k \in n + 1 .. n + Len(answer)
      OBVIOUS
    <3> QED BY <2>2, <3>1
  <2> QED BY <1>1, <2>1, <2>2, <2>3 DEF SavedAfter
<1> QED BY <1>1, <1>4, <1>5

LEMMA SavedRow ==
  ASSUME NEW d, NEW e, NEW u, NEW c, Saved(d, e, u, c)
  PROVE  /\ e.unit = d.unit
         /\ \E f : e.candidate = Append(d.candidate, Row(u, c, f))
  BY DEF Saved, Made, Joined, Outside

LEMMA SaveAnswers ==
  ASSUME IInv, AnswersInv, SaveCandidate
  PROVE  AnswersInv'
<1> DEFINE c == Head(loop.rest)
<1>1. c \in Candidate /\ loop.rest \in Seq(Candidate) /\ loop.rest # <<>>
  BY DEF SaveCandidate, IInv, TypeOK, Loop
<1>2. Unit \in CheckUnits /\ given[Unit] \in Seq(Candidate)
  BY UnitType DEF SaveCandidate, IInv, LoopInv, TypeOK
<1>3. Saved(db, db', Unit, c)
  BY <1>1, <1>2, SavedTables DEF SaveCandidate, IInv, TypeOK
<1>4. PICK f : db'.candidate = Append(db.candidate, Row(Unit, c, f)) /\ db'.unit = db.unit
  BY <1>3, SavedRow
<1>5. /\ loop'.pc = "save" /\ loop'.rest = Tail(loop.rest) /\ Unit' = Unit
      /\ disk' = disk /\ given' = given
  BY DEF SaveCandidate, IInv, TypeOK, Loop, Unit
<1>6. PICK m \in 0 .. Len(given[Unit]) : Taken(m)
  BY DEF SaveCandidate, AnswersInv, SaveInv
<1>7. m + 1 \in 0 .. Len(given[Unit]) /\ Taken(m + 1)'
  <2>1. db.candidate \in Seq(CandidateRow \cup {Row(Unit, c, f)})
        /\ disk.candidate \in Seq(CandidateRow \cup {Row(Unit, c, f)})
    BY DEF IInv, TypeOK, TablesOK
  <2>2. Row(Unit, c, f).unit = Unit /\ Row(Unit, c, f).cand = Head(loop.rest)
    BY DEF Row
  <2>3. m + 1 \in 0 .. Len(given[Unit])
        /\ TakenOf(Append(db.candidate, Row(Unit, c, f)), disk.candidate, Tail(loop.rest),
                   given[Unit], Unit, m + 1)
    BY <1>1, <1>2, <1>6, <2>1, <2>2, OneMoreTaken DEF Taken
  <2> QED BY <1>4, <1>5, <2>3 DEF Taken
<1> QED BY <1>4, <1>5, <1>7
        DEF SaveCandidate, AnswersInv, AnswersSavedOnce, HandInv, SaveInv

LEMMA CommitAnswers ==
  ASSUME IInv, AnswersInv, CommitUnit
  PROVE  AnswersInv'
<1>1. Unit \in CheckUnits /\ given[Unit] \in Seq(Candidate) /\ disk.unit[Unit] = "running"
      /\ db.unit = disk.unit
  BY UnitType DEF CommitUnit, IInv, LoopInv, TypeOK, AnswersInv, HandInv, SaveInv
<1>2. UnitWritten(db, disk', Unit, "done")
  BY <1>1, WithUnitTables DEF CommitUnit, Write, IInv, TypeOK, TablesOK, TableNames
<1>3. /\ disk'.candidate = db.candidate
      /\ \A u \in CheckUnits : disk'.unit[u] = IF u = Unit THEN "done" ELSE disk.unit[u]
  BY <1>1, <1>2 DEF UnitWritten, IInv, TypeOK, TablesOK
<1>4. loop'.pc = "settle" /\ given' = given
  BY DEF CommitUnit, IInv, TypeOK, Loop
<1>5. Taken(Len(given[Unit]))
  <2>1. PICK m \in 0 .. Len(given[Unit]) : Taken(m)
    BY DEF CommitUnit, AnswersInv, SaveInv
  <2>2. Len(loop.rest) = 0
    BY DEF CommitUnit
  <2>3. m = Len(given[Unit])
    BY <1>1, <2>1, <2>2 DEF Taken, TakenOf
  <2> QED BY <2>1, <2>3
<1>6. TakenOf(disk'.candidate, disk.candidate, <<>>, given[Unit], Unit, Len(given[Unit]))
  BY <1>3, <1>5 DEF CommitUnit, Taken
<1>7. db.candidate \in Seq(CandidateRow) /\ disk.candidate \in Seq(CandidateRow)
  BY DEF IInv, TypeOK, TablesOK
<1> DEFINE old   == disk
           new   == disk'
           block == given[Unit]
           unit  == Unit
<1>8. /\ new.candidate \in Seq(CandidateRow) /\ old.candidate \in Seq(CandidateRow)
      /\ block \in Seq(Candidate)
      /\ TakenOf(new.candidate, old.candidate, <<>>, block, unit, Len(block))
  BY <1>1, <1>3, <1>6, <1>7
<1>9. /\ SavedAfter(old, unit, 0, <<>>) => SavedAfter(new, unit, Len(old.candidate), block)
      /\ \A w : \A n \in Nat, answer \in Seq(Candidate) :
           w # unit /\ SavedAfter(old, w, n, answer) => SavedAfter(new, w, n, answer)
      /\ Len(old.candidate) \in Nat /\ Len(block) \in Nat
      /\ Len(new.candidate) = Len(old.candidate) + Len(block)
  <2> HIDE DEF old, new, block, unit
  <2>1. SavedAfter(old, unit, 0, <<>>) => SavedAfter(new, unit, Len(old.candidate), block)
    BY <1>8, BlockAdded
  <2>2. \A w : \A n \in Nat, answer \in Seq(Candidate) :
          w # unit /\ SavedAfter(old, w, n, answer) => SavedAfter(new, w, n, answer)
    BY <1>8, BlockAdded
  <2>3. Len(new.candidate) = Len(old.candidate) + Len(block)
    BY <1>8 DEF TakenOf
  <2> QED BY <1>8, <2>1, <2>2, <2>3
<1>10. AnswersSavedOnce'
  <2> SUFFICES ASSUME NEW u \in CheckUnits
               PROVE  \E n \in 0 .. Len(disk'.candidate) :
                        SavedAfter(disk', u, n,
                                   IF disk'.unit[u] = "done" THEN given[u] ELSE <<>>)
    BY <1>4 DEF AnswersSavedOnce
  <2> DEFINE answer == IF disk.unit[u] = "done" THEN given[u] ELSE <<>>
  <2>1. PICK n \in 0 .. Len(disk.candidate) : SavedAfter(disk, u, n, answer)
    BY DEF AnswersSavedOnce, AnswersInv
  <2>2. answer \in Seq(Candidate)
    BY DEF IInv, TypeOK
  <2>3. CASE u # Unit
    <3>1. SavedAfter(disk', u, n, answer)
      <4>1. n \in Nat /\ u # unit /\ SavedAfter(old, u, n, answer)
        BY <1>9, <2>1, <2>3
      <4> HIDE DEF answer, old, new, block, unit
      <4>2. SavedAfter(new, u, n, answer)
        BY <1>9, <2>2, <4>1
      <4> QED BY <4>2 DEF new
    <3>2. disk'.unit[u] = disk.unit[u]
      BY <1>3, <2>3
    <3>3. n \in 0 .. Len(disk'.candidate)
      <4> HIDE DEF block
      <4> QED BY <1>9
    <3> QED BY <3>1, <3>2, <3>3
  <2>4. CASE u = Unit
    <3>1. SavedAfter(disk, Unit, 0, <<>>)
      BY <1>1, <1>9, <2>1, <2>4 DEF SavedAfter
    <3>2. SavedAfter(disk', u, Len(disk.candidate), given[u])
      BY <1>9, <2>4, <3>1
    <3>3. Len(disk.candidate) \in 0 .. Len(disk'.candidate)
      <4> HIDE DEF block
      <4> QED BY <1>9
    <3> QED BY <1>3, <2>4, <3>2, <3>3
  <2> QED BY <2>3, <2>4
<1> QED BY <1>4, <1>10 DEF AnswersInv, HandInv, SaveInv

LEMMA RestAnswers ==
  ASSUME IInv, AnswersInv,
         StartRun \/ ResumeRun \/ StopBeforeUnit \/ SkipUnit \/ EndOfPerspectives
         \/ SettleNothing \/ RechecksDone \/ StopBeforeRecheck \/ FinalizeRun
  PROVE  AnswersInv'
<1>1. disk' = disk /\ given' = given
  BY DEF StartRun, ResumeRun, StopBeforeUnit, SkipUnit, EndOfPerspectives, SettleNothing,
         RechecksDone, StopBeforeRecheck, FinalizeRun
<1>2. loop'.pc \notin {"sent", "save"}
  <2>1. CASE StartRun \/ ResumeRun
    BY <2>1, LaunchStep DEF StartRun, ResumeRun
  <2>2. CASE StopBeforeUnit \/ EndOfPerspectives \/ StopBeforeRecheck
    BY <2>2 DEF StopBeforeUnit, EndOfPerspectives, StopBeforeRecheck, IInv, TypeOK, Loop
  <2>4. CASE SkipUnit
    BY <2>4 DEF SkipUnit, IInv, TypeOK, Loop
  <2>5. CASE FinalizeRun
    BY <2>5 DEF FinalizeRun, NoLoop
  <2>3. CASE SettleNothing \/ RechecksDone
    BY <2>3 DEF SettleNothing, RechecksDone, Advance, IInv, TypeOK, Loop
  <2> QED BY <2>1, <2>2, <2>3, <2>4, <2>5
<1> QED BY <1>1, <1>2, AnswersRest DEF SameDone

LEMMA ResetAnswers ==
  ASSUME IInv, AnswersInv, SavingFails \/ Restart
  PROVE  AnswersInv'
<1>1. disk' = ResetRunning(disk) /\ loop' = NoLoop /\ given' = given
  BY DEF SavingFails, Restart, RolledBack, Write
<1>2. SameDone(disk, disk')
  BY <1>1 DEF ResetRunning, SameDone, IInv, TypeOK, TablesOK, TableNames
<1> QED BY <1>1, <1>2, AnswersRest DEF NoLoop

LEMMA RetryAnswers ==
  ASSUME IInv, AnswersInv, RetryFailedUnits
  PROVE  AnswersInv'
<1>1. PICK us \in SUBSET {u \in CheckUnits : db.unit[u] = "failed"},
           fs \in SUBSET {f \in DOMAIN db.recheck : db.recheck[f] = "failed"} :
        disk' = [db EXCEPT
            !.unit = [u \in CheckUnits |-> IF u \in us THEN "pending" ELSE @[u]],
            !.recheck = [f \in DOMAIN @ |-> IF f \in fs THEN "pending" ELSE @[f]]]
  BY DEF RetryFailedUnits, Write
<1>2. db = disk
  BY DEF RetryFailedUnits, IInv, LoopInv
<1>3. SameDone(disk, disk')
  BY <1>1, <1>2 DEF SameDone, IInv, TypeOK, TablesOK
<1> QED BY <1>3, LaunchStep, AnswersRest DEF RetryFailedUnits

LEMMA LoseAnswers ==
  ASSUME IInv, AnswersInv, LoseUnit
  PROVE  AnswersInv'
<1>1. PICK e \in Endings :
        /\ Write(WithUnit(db, Unit, e[1]))
        /\ loop' = [loop EXCEPT !.pc = IF e[2] = "none" THEN "settle" ELSE "finish",
                                !.halt = e[2]]
  BY DEF LoseUnit
<1>2. Unit \in CheckUnits /\ e[1] # "done" /\ db = disk /\ disk.unit[Unit] = "running"
  BY UnitType, EndingTypes DEF LoseUnit, IInv, LoopInv, AnswersInv, HandInv
<1>3. UnitWritten(disk, disk', Unit, e[1])
  BY <1>1, <1>2, WithUnitTables DEF Write, IInv, TypeOK, TablesOK, TableNames
<1>4. SameDone(disk, disk')
  BY <1>2, <1>3 DEF UnitWritten, SameDone, IInv, TypeOK, TablesOK
<1>5. loop'.pc \notin {"sent", "save"} /\ given' = given
  BY <1>1 DEF LoseUnit, IInv, TypeOK, Loop
<1> QED BY <1>4, <1>5, AnswersRest

LEMMA RecheckAnswers ==
  ASSUME IInv, AnswersInv, IssueRechecks \/ ClaimRecheck \/ SaveRecheck
  PROVE  AnswersInv'
<1>1. db = disk
  BY DEF IssueRechecks, ClaimRecheck, SaveRecheck, IInv, LoopInv
<1>2. disk'.candidate = disk.candidate /\ disk'.unit = disk.unit
  <2>1. CASE IssueRechecks
    BY <1>1, <2>1 DEF IssueRechecks, Write, IInv, TypeOK, TablesOK
  <2>2. CASE ClaimRecheck
    BY <1>1, <2>2 DEF ClaimRecheck, WithRecheck, Write, IInv, TypeOK, TablesOK
  <2>3. CASE SaveRecheck
    BY <1>1, <2>3 DEF SaveRecheck, WithRecheck, Write, IInv, TypeOK, TablesOK
  <2> QED BY <2>1, <2>2, <2>3
<1>3. loop'.pc \notin {"sent", "save"} /\ given' = given
  BY DEF IssueRechecks, ClaimRecheck, SaveRecheck, IInv, TypeOK, Loop
<1> QED BY <1>2, <1>3, AnswersRest DEF SameDone

LEMMA AnswersSteps == IInv /\ AnswersInv /\ [Next]_vars => AnswersInv'
<1> SUFFICES ASSUME IInv, AnswersInv, [Next]_vars PROVE AnswersInv'
  OBVIOUS
<1>1. CASE UNCHANGED vars
  BY <1>1 DEF vars, AnswersInv, AnswersSavedOnce, HandInv, SaveInv, Taken, Unit
<1>2. CASE Next
  BY <1>2, AnswersYielded, ClaimAnswers, AnswerAnswers, SaveAnswers, CommitAnswers,
     RestAnswers, ResetAnswers, RetryAnswers, LoseAnswers, RecheckAnswers DEF Next
<1> QED BY <1>1, <1>2

LEMMA InitAnswers == Init => AnswersInv
<1> SUFFICES ASSUME Init PROVE AnswersInv
  OBVIOUS
<1>1. disk.candidate = <<>> /\ \A u \in CheckUnits : disk.unit[u] # "done"
  BY DEF Init, NoTables
<1>2. ASSUME NEW u \in CheckUnits PROVE SavedAfter(disk, u, 0, <<>>)
  BY <1>1 DEF SavedAfter
<1>3. AnswersSavedOnce
  BY <1>1, <1>2 DEF AnswersSavedOnce
<1> QED BY <1>3 DEF Init, NoLoop, AnswersInv, HandInv, SaveInv

-----------------------------------------------------------------------------
(* A run at rest is closed: it says why it stopped, no unit is under way,   *)
(* what is told of the rechecks fits the findings, and a run that is not    *)
(* stopped left nothing to do.                                              *)

RestInv ==
  /\ loop.pc = "off" <=> run.status # "running"
  /\ run.status = "stopped" => run.reason # "none"
  /\ run.status \in {"completed", "partially-failed"} => run.reason = "none"

(* The only unit or recheck under way is the loop's own.                    *)
UnderWay(d, l) ==
  /\ \A u \in CheckUnits :
       d.unit[u] = "running" => l.pc \in {"sent", "save"} /\ u = <<l.target, l.persp>>
  /\ \A f \in DOMAIN d.recheck :
       d.recheck[f] = "running" => l.pc = "resent" /\ f = l.job

(* A recheck fits its finding and the run's setting.                        *)
RecheckFits(d, on, f) ==
  LET made == d.finding[f] IN
  /\ d.recheck[f] = "disabled" <=> ~on
  /\ on => (d.recheck[f] = "unlocated" <=> made.locate # "located")
  /\ made.locate = "located" /\ made.suppressed /\ on => d.recheck[f] = "suppressed"

RechecksFit(d, on) == \A f \in DOMAIN d.recheck : RecheckFits(d, on, f)

(* What was not located is a finding of its own, or none if it lay outside  *)
(* the target; a finding belongs to the target of the unit that made it.    *)
UnlocatedApart(d) ==
  /\ \A i \in DOMAIN d.candidate :
       ~IsLocated(CandOf(d, i)) =>
         IF CandOf(d, i).locate = "outside-target" THEN d.candidate[i].finding = 0
         ELSE /\ d.candidate[i].finding = i /\ i \in DOMAIN d.finding
              /\ d.finding[i].locate = CandOf(d, i).locate
  /\ \A f \in DOMAIN d.finding : d.finding[f].target = d.candidate[f].unit[1]

(* Every candidate is of an answer the model may give.                      *)
RowsAnswered(d) ==
  \A i \in DOMAIN d.candidate :
    \E a \in AnswersTo[d.candidate[i].unit] : \E j \in DOMAIN a : a[j] = CandOf(d, i)

RowsInv ==
  /\ UnlocatedApart(db) /\ UnlocatedApart(disk)
  /\ RowsAnswered(db) /\ RowsAnswered(disk)
  /\ loop.pc = "save" => given[Unit] \in AnswersTo[Unit]

RechecksInv ==
  /\ RechecksFit(db, run.recheckOn) /\ RechecksFit(disk, run.recheckOn)
  /\ UnderWay(db, loop)

(* Unit p of target t needs no run any more.                                *)
Past(d, t, p) == d.unit[<<t, p>>] \notin {"pending", "running"}

(* The findings of target t have their rechecks, in none of the states of   *)
(* still.                                                                   *)
Issued(d, t, still) ==
  \A f \in DOMAIN d.finding :
    d.finding[f].target = t =>
      /\ f \in DOMAIN d.recheck
      /\ d.recheck[f] \notin still
      /\ d.recheck[f] = "suppressed" => d.finding[f].suppressed

Tidy(d, t) == (\A p \in Perspectives : Past(d, t, p)) /\ Issued(d, t, {"pending", "running"})

TidyUpTo(d, l) ==
  /\ l.pc # "off" => \A t \in 1 .. l.target - 1 : Tidy(d, t)
  /\ l.pc \in {"scan", "sent", "save"} => \A p \in 1 .. l.persp - 1 : Past(d, l.target, p)
  /\ l.pc = "settle" => \A p \in 1 .. l.persp : p \in Perspectives => Past(d, l.target, p)
  /\ l.pc \in {"recheck", "resent"} =>
       /\ \A p \in Perspectives : Past(d, l.target, p)
       /\ Issued(d, l.target, {})
       /\ l.settled
  /\ l.settled /\ l.pc \notin {"recheck", "resent", "finish"} => Tidy(d, l.target)
  /\ l.pc = "finish" /\ l.halt = "none" => \A t \in Targets : Tidy(d, t)

TidyInv ==
  /\ TidyUpTo(db, loop)
  /\ run.status \in {"completed", "partially-failed"} => \A t \in Targets : Tidy(db, t)

-----------------------------------------------------------------------------
(* What the steps write, table by table                                     *)

(* A write that leaves candidates and findings alone                        *)
SameRows(d, e) == e.candidate = d.candidate /\ e.finding = d.finding

Reset(status) == IF status = "running" THEN "pending" ELSE status

LEMMA ResetTables ==
  ASSUME NEW d, TablesOK(d), NEW e, e = ResetRunning(d)
  PROVE  /\ SameRows(d, e)
         /\ \A u \in CheckUnits : e.unit[u] = Reset(d.unit[u])
         /\ DOMAIN e.recheck = DOMAIN d.recheck
         /\ \A f \in DOMAIN d.recheck : e.recheck[f] = Reset(d.recheck[f])
<1> DEFINE unit    == [u \in CheckUnits |-> Reset(d.unit[u])]
           recheck == [f \in DOMAIN d.recheck |-> Reset(d.recheck[f])]
           x == [d EXCEPT !.unit = unit, !.recheck = recheck]
<1>1. e = x
  BY DEF ResetRunning, Reset
<1> HIDE DEF unit, recheck
<1>2. /\ x.unit = unit /\ x.recheck = recheck
      /\ x.candidate = d.candidate /\ x.finding = d.finding
  BY DEF TablesOK
<1> QED BY <1>1, <1>2 DEF SameRows, unit, recheck

LEMMA RetryTables ==
  ASSUME IInv, RetryFailedUnits
  PROVE  /\ SameRows(db, db') /\ disk' = db'
         /\ \A u \in CheckUnits : db'.unit[u] # db.unit[u] => db'.unit[u] = "pending"
         /\ DOMAIN db'.recheck = DOMAIN db.recheck
         /\ \A f \in DOMAIN db.recheck :
              \/ db'.recheck[f] = db.recheck[f]
              \/ db.recheck[f] = "failed" /\ db'.recheck[f] = "pending"
<1>1. PICK us \in SUBSET {u \in CheckUnits : db.unit[u] = "failed"},
           fs \in SUBSET {f \in DOMAIN db.recheck : db.recheck[f] = "failed"} :
        Write([db EXCEPT
            !.unit = [u \in CheckUnits |-> IF u \in us THEN "pending" ELSE @[u]],
            !.recheck = [f \in DOMAIN @ |-> IF f \in fs THEN "pending" ELSE @[f]]])
  BY DEF RetryFailedUnits
<1> DEFINE unit    == [u \in CheckUnits |-> IF u \in us THEN "pending" ELSE db.unit[u]]
           recheck == [f \in DOMAIN db.recheck |-> IF f \in fs THEN "pending" ELSE db.recheck[f]]
           x == [db EXCEPT !.unit = unit, !.recheck = recheck]
<1>2. db' = x /\ disk' = x
  BY <1>1 DEF Write
<1>3. /\ DOMAIN recheck = DOMAIN db.recheck
      /\ \A u \in CheckUnits : unit[u] # db.unit[u] => unit[u] = "pending"
      /\ \A f \in DOMAIN db.recheck : \/ recheck[f] = db.recheck[f]
                                      \/ db.recheck[f] = "failed" /\ recheck[f] = "pending"
  OBVIOUS
<1> HIDE DEF unit, recheck
<1>4. /\ x.unit = unit /\ x.recheck = recheck
      /\ x.candidate = db.candidate /\ x.finding = db.finding
  BY DEF IInv, TypeOK, TablesOK
<1> HIDE DEF x
<1> QED BY <1>2, <1>3, <1>4 DEF SameRows

LEMMA IssueTables ==
  ASSUME IInv, IssueRechecks
  PROVE  /\ SameRows(db, db') /\ disk' = db' /\ db'.unit = db.unit
         /\ DOMAIN db'.recheck = DOMAIN db.recheck \cup OfTarget(loop.target)
         /\ \A f \in DOMAIN db'.recheck :
              db'.recheck[f] = IF f \in OfTarget(loop.target) THEN IssuedRecheck(f)
                               ELSE db.recheck[f]
<1> DEFINE new == [f \in DOMAIN db.recheck \cup OfTarget(loop.target) |->
                     IF f \in OfTarget(loop.target) THEN IssuedRecheck(f) ELSE db.recheck[f]]
           x   == [db EXCEPT !.recheck = new]
<1>1. db' = x /\ disk' = x
  BY DEF IssueRechecks, Write
<1>2. /\ DOMAIN new = DOMAIN db.recheck \cup OfTarget(loop.target)
      /\ \A f \in DOMAIN new :
           new[f] = IF f \in OfTarget(loop.target) THEN IssuedRecheck(f) ELSE db.recheck[f]
  OBVIOUS
<1> HIDE DEF new
<1>3. /\ x.unit = db.unit /\ x.recheck = new
      /\ x.candidate = db.candidate /\ x.finding = db.finding
  BY DEF IInv, TypeOK, TablesOK
<1> HIDE DEF x
<1> QED BY <1>1, <1>2, <1>3 DEF SameRows

(* A write of unit u's status, the loop's own                               *)
LEMMA UnitTables ==
  ASSUME IInv, NEW s, Write(WithUnit(db, Unit, s)), Unit \in CheckUnits
  PROVE  /\ SameRows(db, db') /\ disk' = db' /\ db'.recheck = db.recheck
         /\ \A u \in CheckUnits : db'.unit[u] = IF u = Unit THEN s ELSE db.unit[u]
<1>1. UnitWritten(db, db', Unit, s) /\ disk' = db'
  BY WithUnitTables DEF Write, IInv, TypeOK, TablesOK, TableNames
<1> QED BY <1>1 DEF UnitWritten, SameRows, IInv, TypeOK, TablesOK

LEMMA RecheckTables ==
  ASSUME IInv, NEW f, NEW s, Write(WithRecheck(db, f, s)), f \in DOMAIN db.recheck
  PROVE  /\ SameRows(db, db') /\ disk' = db' /\ db'.unit = db.unit
         /\ DOMAIN db'.recheck = DOMAIN db.recheck
         /\ \A g \in DOMAIN db.recheck : db'.recheck[g] = IF g = f THEN s ELSE db.recheck[g]
<1>1. RecheckWritten(db, db', f, s) /\ disk' = db'
  BY WithRecheckTables DEF Write, IInv, TypeOK, TablesOK, TableNames
<1> QED BY <1>1 DEF RecheckWritten, SameRows

LEMMA JudgeTables ==
  ASSUME IInv, Judge
  PROVE  SameRows(db, db') /\ disk' = db' /\ db'.unit = db.unit /\ db'.recheck = db.recheck
<1>1. PICK f \in DOMAIN db.judgment : Write([db EXCEPT !.judgment[f] = "adopt"])
  BY DEF Judge
<1>2. /\ [db EXCEPT !.judgment[f] = "adopt"].unit = db.unit
      /\ [db EXCEPT !.judgment[f] = "adopt"].candidate = db.candidate
      /\ [db EXCEPT !.judgment[f] = "adopt"].finding = db.finding
      /\ [db EXCEPT !.judgment[f] = "adopt"].recheck = db.recheck
  BY DEF IInv, TypeOK, TablesOK
<1> QED BY <1>1, <1>2 DEF Write, SameRows

(* The unit the loop is at has not been claimed, or has                     *)
LEMMA ClaimTables ==
  ASSUME IInv, ClaimUnit
  PROVE  /\ Unit \in CheckUnits /\ SameRows(db, db') /\ disk' = db' /\ db'.recheck = db.recheck
         /\ \A u \in CheckUnits : db'.unit[u] = IF u = Unit THEN "running" ELSE db.unit[u]
         /\ loop' = [loop EXCEPT !.pc = "sent"] /\ loop.pc = "scan" /\ db.unit[Unit] = "pending"
<1>1. Unit \in CheckUnits
  BY UnitType DEF ClaimUnit, IInv
<1> QED BY <1>1, UnitTables DEF ClaimUnit

LEMMA LoseTables ==
  ASSUME IInv, LoseUnit
  PROVE  /\ Unit \in CheckUnits /\ SameRows(db, db') /\ disk' = db' /\ db'.recheck = db.recheck
         /\ loop.pc = "sent"
         /\ \E e \in Endings :
              /\ \A u \in CheckUnits : db'.unit[u] = IF u = Unit THEN e[1] ELSE db.unit[u]
              /\ loop' = [loop EXCEPT !.pc = IF e[2] = "none" THEN "settle" ELSE "finish",
                                      !.halt = e[2]]
<1>1. Unit \in CheckUnits
  BY UnitType DEF LoseUnit, IInv, LoopInv
<1>2. PICK e \in Endings :
        /\ Write(WithUnit(db, Unit, e[1]))
        /\ loop' = [loop EXCEPT !.pc = IF e[2] = "none" THEN "settle" ELSE "finish",
                                !.halt = e[2]]
  BY DEF LoseUnit
<1> QED BY <1>1, <1>2, UnitTables DEF LoseUnit

LEMMA CommitTables ==
  ASSUME IInv, CommitUnit
  PROVE  /\ Unit \in CheckUnits /\ SameRows(db, db') /\ disk' = db' /\ db'.recheck = db.recheck
         /\ \A u \in CheckUnits : db'.unit[u] = IF u = Unit THEN "done" ELSE db.unit[u]
         /\ loop.pc = "save" /\ loop' = [loop EXCEPT !.pc = "settle"]
<1>1. Unit \in CheckUnits
  BY UnitType DEF CommitUnit, IInv, LoopInv
<1> QED BY <1>1, UnitTables DEF CommitUnit

-----------------------------------------------------------------------------
(* Where the loop goes                                                      *)

(* The steps that write nothing and leave the run's row alone               *)
Moves == \/ StopBeforeUnit \/ SkipUnit \/ EndOfPerspectives
         \/ SettleNothing \/ RechecksDone \/ StopBeforeRecheck

LEMMA AdvanceIs ==
  ASSUME loop \in Loop, NEW l, l = Advance(loop)
  PROVE  /\ loop.persp \in Perspectives =>
              /\ l.pc = "scan" /\ l.target = loop.target /\ l.persp = loop.persp + 1
              /\ l.settled = loop.settled
         /\ loop.persp \notin Perspectives /\ loop.target < NumTargets =>
              l.pc = "scan" /\ l.target = loop.target + 1 /\ l.persp = 1 /\ ~l.settled
         /\ loop.persp \notin Perspectives /\ ~(loop.target < NumTargets) =>
              l.pc = "finish" /\ l.target = loop.target
<1>1. CASE loop.persp \in Perspectives
  <2>1. l = [loop EXCEPT !.pc = "scan", !.persp = loop.persp + 1]
    BY <1>1 DEF Advance
  <2> QED BY <1>1, <2>1 DEF Loop
<1>2. CASE loop.persp \notin Perspectives /\ loop.target < NumTargets
  <2>1. l = [loop EXCEPT !.pc = "scan", !.target = loop.target + 1, !.persp = 1,
                         !.settled = FALSE]
    BY <1>2 DEF Advance
  <2> QED BY <1>2, <2>1 DEF Loop
<1>3. CASE loop.persp \notin Perspectives /\ ~(loop.target < NumTargets)
  <2>1. l = [loop EXCEPT !.pc = "finish"]
    BY <1>3 DEF Advance
  <2> QED BY <1>3, <2>1 DEF Loop
<1> QED BY <1>1, <1>2, <1>3

LEMMA MovesAre ==
  ASSUME IInv, Moves
  PROVE  /\ UNCHANGED <<db, disk, run, launches, given>>
         /\ loop.pc \in {"scan", "settle", "recheck"}
         /\ loop'.pc \in {"scan", "settle", "finish"}
<1>1. loop \in Loop
  BY DEF IInv, TypeOK
<1>2. CASE StopBeforeUnit \/ StopBeforeRecheck
  BY <1>1, <1>2 DEF StopBeforeUnit, StopBeforeRecheck, Loop
<1>3. CASE SkipUnit
  BY <1>1, <1>3 DEF SkipUnit, Loop
<1>4. CASE EndOfPerspectives
  BY <1>1, <1>4 DEF EndOfPerspectives, Loop
<1>5. CASE SettleNothing \/ RechecksDone
  <2>1. loop' = Advance(loop)
    BY <1>5 DEF SettleNothing, RechecksDone
  <2>2. loop'.pc \in {"scan", "finish"}
    BY <1>1, <2>1, AdvanceIs
  <2> QED BY <1>5, <2>2 DEF SettleNothing, RechecksDone
<1> QED BY <1>2, <1>3, <1>4, <1>5 DEF Moves

(* Next, with the moves taken together                                      *)
LEMMA NextIs ==
  ASSUME Next
  PROVE  \/ Moves \/ StartRun \/ ResumeRun \/ RetryFailedUnits \/ StopRun \/ Judge
         \/ ClaimUnit \/ AnswerUnit \/ LoseUnit \/ SaveCandidate \/ CommitUnit
         \/ SavingFails \/ IssueRechecks \/ ClaimRecheck \/ SaveRecheck \/ FinalizeRun
         \/ Restart
  BY DEF Next, Moves

LEMMA LaunchIs ==
  ASSUME Launch
  PROVE  /\ loop'.pc = "scan" /\ loop'.target = 1 /\ loop'.persp = 1 /\ ~loop'.settled
         /\ loop'.halt = "none" /\ loop'.job = 0
  BY DEF Launch, NoLoop

(* A stop request leaves the loop where it is.                              *)
LEMMA StopIs ==
  ASSUME IInv, StopRun
  PROVE  /\ UNCHANGED <<db, disk, run, launches, given>>
         /\ loop.pc \in {"sent", "resent"}
         /\ loop'.pc = loop.pc /\ loop'.target = loop.target /\ loop'.persp = loop.persp
         /\ loop'.settled = loop.settled /\ loop'.halt = loop.halt /\ loop'.job = loop.job
  BY DEF StopRun, Yielded, IInv, TypeOK, Loop

-----------------------------------------------------------------------------
(* The run's row                                                            *)

LEMMA RestMoves ==
  ASSUME IInv, RestInv, UNCHANGED run, loop.pc = "off" <=> loop'.pc = "off"
  PROVE  RestInv'
  BY DEF RestInv

LEMMA RestSteps ==
  ASSUME IInv, RestInv, [Next]_vars
  PROVE  RestInv'
<1>0. loop \in Loop /\ run \in [status : RunStatus,
             reason : Halt \cup {"internal-error", "backend-restarted"}, recheckOn : BOOLEAN]
  BY DEF IInv, TypeOK
<1>1. CASE UNCHANGED vars
  BY <1>1, RestMoves DEF vars
<1>2. CASE Moves
  <2>1. UNCHANGED run /\ loop.pc # "off" /\ loop'.pc # "off"
    BY <1>2, MovesAre
  <2> QED BY <2>1, RestMoves
<1>3. CASE StartRun \/ ResumeRun \/ RetryFailedUnits
  <2>1. Launch
    BY <1>3 DEF StartRun, ResumeRun, RetryFailedUnits
  <2>2. run'.status = "running" /\ loop'.pc = "scan"
    BY <2>1, LaunchStep
  <2> QED BY <2>2 DEF RestInv
<1>4. CASE StopRun
  <2>1. UNCHANGED run /\ loop'.pc = loop.pc
    BY <1>4, StopIs
  <2> QED BY <2>1, RestMoves
<1>5. CASE Judge
  <2>1. UNCHANGED run /\ loop'.pc = loop.pc
    BY <1>5 DEF Judge
  <2> QED BY <2>1, RestMoves
<1>6. CASE ClaimUnit \/ AnswerUnit \/ SaveCandidate \/ CommitUnit \/ IssueRechecks
  <2>1. UNCHANGED run /\ loop.pc # "off" /\ loop'.pc # "off"
    BY <1>0, <1>6 DEF ClaimUnit, AnswerUnit, SaveCandidate, CommitUnit, IssueRechecks, Loop
  <2> QED BY <2>1, RestMoves
<1>7. CASE LoseUnit \/ ClaimRecheck \/ SaveRecheck
  <2>1. UNCHANGED run /\ loop.pc # "off" /\ loop'.pc # "off"
    BY <1>0, <1>7 DEF LoseUnit, ClaimRecheck, SaveRecheck, Loop
  <2> QED BY <2>1, RestMoves
<1>8. CASE SavingFails \/ Restart
  <2>1. /\ run'.status \in {"stopped", "recovery-waiting"} /\ run'.reason # "none"
        /\ loop'.pc = "off"
    <3>1. loop' = NoLoop
      BY <1>8 DEF SavingFails, Restart
    <3>2. CASE SavingFails
      <4>1. run' = [run EXCEPT !.status = "stopped", !.reason = "internal-error"]
        BY <3>2 DEF SavingFails
      <4> QED BY <1>0, <3>1, <4>1 DEF NoLoop
    <3>3. CASE Restart
      <4>1. \/ run' = [run EXCEPT !.status = "recovery-waiting", !.reason = "backend-restarted"]
            \/ run' = [run EXCEPT !.status = "stopped", !.reason = "backend-restarted"]
        BY <3>3 DEF Restart
      <4> QED BY <1>0, <3>1, <4>1 DEF NoLoop
    <3> QED BY <1>8, <3>2, <3>3
  <2> QED BY <2>1 DEF RestInv
<1>9. CASE FinalizeRun
  <2>1. /\ loop'.pc = "off" /\ run'.reason = loop.halt /\ loop.halt \in Halt
        /\ loop.halt = "unconfirmed" => run'.status = "recovery-waiting"
        /\ loop.halt \in {"aborted", "failure"} => run'.status = "stopped"
        /\ loop.halt = "none" => run'.status \in {"partially-failed", "completed"}
    BY <1>0, <1>9 DEF FinalizeRun, NoLoop, Loop
  <2> QED BY <2>1 DEF RestInv, Halt
<1> QED BY <1>1, <1>2, <1>3, <1>4, <1>5, <1>6, <1>7, <1>8, <1>9, NextIs

-----------------------------------------------------------------------------
(* Rows                                                                     *)

LEMMA RowsMoved ==
  ASSUME RowsInv, UNCHANGED <<db, disk>>, loop'.pc # "save"
  PROVE  RowsInv'
  BY DEF RowsInv

LEMMA RowsWritten ==
  ASSUME RowsInv, NEW d \in {db, disk}, SameRows(d, db'), disk' = db', loop'.pc # "save"
  PROVE  RowsInv'
<1>1. UnlocatedApart(d) /\ RowsAnswered(d)
  BY DEF RowsInv
<1>2. UnlocatedApart(db') /\ RowsAnswered(db')
  BY <1>1 DEF SameRows, UnlocatedApart, RowsAnswered, CandOf
<1> QED BY <1>2 DEF RowsInv

LEMMA SavedApart ==
  ASSUME NEW d, TablesOK(d), Grouped(d), UnlocatedApart(d), NEW u \in CheckUnits,
         NEW c \in Candidate, NEW e, Saved(d, e, u, c)
  PROVE  UnlocatedApart(e)
<1>n. PICK n : n = NextIndex(d)
  OBVIOUS
<1>0. /\ \A f \in DOMAIN d.finding : f \in DOMAIN d.candidate /\ d.finding[f] \in Finding
      /\ \A i \in DOMAIN d.candidate : CandOf(d, i) \in Candidate
  BY RowTypes
<1>r. ASSUME NEW f, e.candidate = Append(d.candidate, Row(u, c, f))
      PROVE  /\ RowAdded(d, e, c, f, n)
             /\ e.candidate[n].unit = u
  <2>1. RowAdded(d, e, c, f, n)
    BY <1>n, <1>r, AppendedRow, Zenon
  <2>2. e.candidate[n] = Row(u, c, f)
    BY <1>n, <1>r DEF NextIndex, TablesOK
  <2> QED BY <2>1, <2>2 DEF Row
<1>1. CASE Made(d, e, u, c, n)
  <2>1. RowAdded(d, e, c, n, n) /\ e.candidate[n].unit = u
    BY <1>1, <1>r DEF Made
  <2>2. /\ DOMAIN e.finding = DOMAIN d.finding \cup {n}
        /\ e.finding[n] = NewFinding(u, c)
        /\ \A f \in DOMAIN d.finding : f # n /\ e.finding[f] = d.finding[f]
    BY <1>1, <2>1 DEF Made, RowAdded
  <2>3. e.finding[n].locate = c.locate /\ e.finding[n].target = u[1]
    BY <2>2 DEF NewFinding
  <2>4. c.locate # "outside-target"
    BY <1>1 DEF Made
  <2> QED BY <1>0, <2>1, <2>2, <2>3, <2>4 DEF UnlocatedApart, RowAdded
<1>2. ASSUME NEW f \in DOMAIN d.finding, Joined(d, e, u, c, f) PROVE UnlocatedApart(e)
  <2>1. RowAdded(d, e, c, f, n) /\ IsLocated(c)
    BY <1>2, <1>r DEF Joined
  <2> DEFINE new == Reaggregated(d.finding[f], AggregateCategory(MembersWith(d, f, c)),
                                               AggregateVerdict(MembersWith(d, f, c)))
  <2>2. /\ DOMAIN e.finding = DOMAIN d.finding
        /\ e.finding[f] = new
        /\ \A g \in DOMAIN d.finding : g # f => e.finding[g] = d.finding[g]
    BY <1>2 DEF Joined
  <2>3. new.locate = d.finding[f].locate /\ new.target = d.finding[f].target
    <3>1. c \in MembersWith(d, f, c)
      BY DEF MembersWith
    <3> QED BY <1>0, <3>1, AggregateTypes, ReaggregatedTypes
  <2> HIDE DEF new
  <2>4. \A g \in DOMAIN d.finding :
          e.finding[g].locate = d.finding[g].locate /\ e.finding[g].target = d.finding[g].target
    BY <2>2, <2>3
  <2> QED BY <1>0, <2>1, <2>2, <2>4 DEF UnlocatedApart, RowAdded
<1>3. CASE Outside(d, e, u, c)
  <2>1. RowAdded(d, e, c, 0, n) /\ c.locate = "outside-target" /\ e.finding = d.finding
    BY <1>3, <1>r DEF Outside
  <2> QED BY <1>0, <2>1 DEF UnlocatedApart, RowAdded
<1> QED BY <1>n, <1>1, <1>2, <1>3 DEF Saved

LEMMA SavedAnswered ==
  ASSUME NEW d, TablesOK(d), RowsAnswered(d), NEW u, NEW c, NEW e, Saved(d, e, u, c),
         \E a \in AnswersTo[u] : \E j \in DOMAIN a : a[j] = c
  PROVE  RowsAnswered(e)
<1>1. PICK f : e.candidate = Append(d.candidate, Row(u, c, f))
  BY SavedRow
<1>2. PICK n : n = NextIndex(d)
  OBVIOUS
<1>3. RowAdded(d, e, c, f, n)
  BY <1>1, <1>2, AppendedRow, Zenon
<1>4. e.candidate[n].unit = u
  <2>1. e.candidate[n] = Row(u, c, f)
    BY <1>1, <1>2 DEF NextIndex, TablesOK
  <2> QED BY <2>1 DEF Row
<1>5. ASSUME NEW i \in DOMAIN e.candidate
      PROVE  \E a \in AnswersTo[e.candidate[i].unit] : \E j \in DOMAIN a : a[j] = CandOf(e, i)
  <2>1. CASE i = n
    BY <1>3, <1>4, <2>1 DEF RowAdded
  <2>2. CASE i \in DOMAIN d.candidate
    <3>1. e.candidate[i] = d.candidate[i] /\ CandOf(e, i) = CandOf(d, i)
      BY <1>3, <2>2 DEF RowAdded
    <3> QED BY <2>2, <3>1 DEF RowsAnswered
  <2> QED BY <1>3, <2>1, <2>2 DEF RowAdded
<1> QED BY <1>5 DEF RowsAnswered

(* The candidate being saved is one of the answer                           *)
LEMMA SavingIs ==
  ASSUME IInv, AnswersInv, RowsInv, SaveCandidate
  PROVE  /\ Unit \in CheckUnits /\ Head(loop.rest) \in Candidate
         /\ Saved(db, db', Unit, Head(loop.rest)) /\ disk' = disk
         /\ loop.pc = "save" /\ loop' = [loop EXCEPT !.rest = Tail(loop.rest)]
         /\ UNCHANGED <<run, launches, given>>
         /\ \E a \in AnswersTo[Unit] : \E j \in DOMAIN a : a[j] = Head(loop.rest)
<1> DEFINE c == Head(loop.rest)
<1>1. c \in Candidate /\ loop.rest \in Seq(Candidate) /\ loop.rest # <<>>
  BY DEF SaveCandidate, IInv, TypeOK, Loop
<1>2. Unit \in CheckUnits /\ given[Unit] \in Seq(Candidate)
  BY UnitType DEF SaveCandidate, IInv, LoopInv, TypeOK
<1>3. Saved(db, db', Unit, c)
  BY <1>1, <1>2, SavedTables DEF SaveCandidate, IInv, TypeOK
<1>4. PICK m \in 0 .. Len(given[Unit]) : Taken(m)
  BY DEF SaveCandidate, AnswersInv, SaveInv
<1>5. Len(loop.rest) \in Nat /\ Len(loop.rest) > 0 /\ c = loop.rest[1]
      /\ Len(given[Unit]) \in Nat /\ DOMAIN given[Unit] = 1 .. Len(given[Unit])
  BY <1>1, <1>2
<1>6. loop.rest[1] = given[Unit][m + 1] /\ m + 1 \in 1 .. Len(given[Unit])
  <2>1. /\ Len(loop.rest) = Len(given[Unit]) - m
        /\ \A k \in 1 .. Len(loop.rest) : loop.rest[k] = given[Unit][m + k]
    BY <1>4 DEF Taken, TakenOf
  <2>2. PICK n, l : n = Len(given[Unit]) /\ l = Len(loop.rest)
    OBVIOUS
  <2>3. m \in Nat /\ n \in Nat /\ l \in Nat /\ l > 0 /\ l = n - m
    BY <1>5, <2>1, <2>2
  <2>4. 1 \in 1 .. l /\ m + 1 \in 1 .. n
    BY <2>3
  <2> QED BY <2>1, <2>2, <2>4
<1>7. given[Unit] \in AnswersTo[Unit]
  BY DEF RowsInv, SaveCandidate
<1> QED BY <1>1, <1>2, <1>3, <1>5, <1>6, <1>7 DEF SaveCandidate

LEMMA RowsSaved ==
  ASSUME IInv, AnswersInv, RowsInv, SaveCandidate
  PROVE  RowsInv'
<1> DEFINE c == Head(loop.rest)
<1>1. /\ Unit \in CheckUnits /\ c \in Candidate /\ Saved(db, db', Unit, c)
      /\ \E a \in AnswersTo[Unit] : \E j \in DOMAIN a : a[j] = c
      /\ disk' = disk /\ given' = given
  BY SavingIs
<1>2. Unit' = Unit /\ loop.pc = "save"
  BY DEF SaveCandidate, IInv, TypeOK, Loop, Unit
<1> HIDE DEF c
<1>3. UnlocatedApart(db')
  BY <1>1, SavedApart DEF IInv, TypeOK, RowsInv
<1>4. RowsAnswered(db')
  BY <1>1, SavedAnswered DEF IInv, TypeOK, RowsInv
<1> QED BY <1>1, <1>2, <1>3, <1>4 DEF RowsInv

LEMMA ClaimRecheckTables ==
  ASSUME IInv, ClaimRecheck, \A f \in PendingRechecks : f \in DOMAIN db.recheck
  PROVE  \E f \in PendingRechecks :
           /\ SameRows(db, db') /\ disk' = db' /\ db'.unit = db.unit
           /\ DOMAIN db'.recheck = DOMAIN db.recheck
           /\ \A g \in DOMAIN db.recheck :
                db'.recheck[g] = IF g = f THEN "running" ELSE db.recheck[g]
           /\ loop' = [loop EXCEPT !.pc = "resent", !.job = f]
<1>1. PICK f \in PendingRechecks : /\ Write(WithRecheck(db, f, "running"))
                                   /\ loop' = [loop EXCEPT !.pc = "resent", !.job = f]
  BY DEF ClaimRecheck
<1>2. f \in DOMAIN db.recheck
  OBVIOUS
<1>3. /\ SameRows(db, db') /\ disk' = db' /\ db'.unit = db.unit
      /\ DOMAIN db'.recheck = DOMAIN db.recheck
      /\ \A g \in DOMAIN db.recheck :
           db'.recheck[g] = IF g = f THEN "running" ELSE db.recheck[g]
  BY <1>1, <1>2, RecheckTables, Zenon
<1> QED BY <1>1, <1>3, Zenon

LEMMA SaveRecheckTables ==
  ASSUME IInv, SaveRecheck
  PROVE  \E e \in Endings \cup {<<v, "none">> : v \in RecheckVerdicts} :
           /\ SameRows(db, db') /\ disk' = db' /\ db'.unit = db.unit
           /\ DOMAIN db'.recheck = DOMAIN db.recheck
           /\ \A g \in DOMAIN db.recheck :
                db'.recheck[g] = IF g = loop.job THEN e[1] ELSE db.recheck[g]
           /\ loop' = [loop EXCEPT !.pc = IF e[2] = "none" THEN "recheck" ELSE "finish",
                                   !.halt = e[2], !.job = 0]
<1>1. PICK e \in Endings \cup {<<v, "none">> : v \in RecheckVerdicts} :
        /\ Write(WithRecheck(db, loop.job, e[1]))
        /\ loop' = [loop EXCEPT !.pc = IF e[2] = "none" THEN "recheck" ELSE "finish",
                                !.halt = e[2], !.job = 0]
  BY DEF SaveRecheck
<1>2. loop.job \in DOMAIN db.recheck
  BY DEF SaveRecheck, IInv, LoopInv
<1>3. /\ SameRows(db, db') /\ disk' = db' /\ db'.unit = db.unit
      /\ DOMAIN db'.recheck = DOMAIN db.recheck
      /\ \A g \in DOMAIN db.recheck :
           db'.recheck[g] = IF g = loop.job THEN e[1] ELSE db.recheck[g]
  BY <1>1, <1>2, RecheckTables, Zenon
<1> QED BY <1>1, <1>3, Zenon

(* Wherever the loop sends a recheck, the findings of its target have one.  *)
LEMMA RowsSteps ==
  ASSUME IInv, AnswersInv, RowsInv, [Next]_vars,
         loop.pc = "recheck" => \A f \in PendingRechecks : f \in DOMAIN db.recheck
  PROVE  RowsInv'
<1>0. loop \in Loop
  BY DEF IInv, TypeOK
<1>1. CASE UNCHANGED vars
  BY <1>1 DEF vars, RowsInv, Unit
<1>2. CASE Moves \/ StopRun
  <2>1. UNCHANGED <<db, disk>> /\ loop'.pc # "save"
    BY <1>2, MovesAre, StopIs
  <2> QED BY <2>1, RowsMoved
<1>3. CASE StartRun \/ ResumeRun
  <2>1. UNCHANGED <<db, disk>> /\ loop'.pc # "save"
    BY <1>3, LaunchIs DEF StartRun, ResumeRun
  <2> QED BY <2>1, RowsMoved
<1>4. CASE FinalizeRun
  <2>1. UNCHANGED <<db, disk>> /\ loop'.pc # "save"
    BY <1>4 DEF FinalizeRun, NoLoop
  <2> QED BY <2>1, RowsMoved
<1>5. CASE RetryFailedUnits
  <2>1. SameRows(db, db') /\ disk' = db' /\ loop'.pc # "save"
    BY <1>5, RetryTables, LaunchIs DEF RetryFailedUnits
  <2> QED BY <2>1, RowsWritten
<1>6. CASE Judge
  <2>1. SameRows(db, db') /\ disk' = db' /\ loop'.pc # "save"
    BY <1>6, JudgeTables DEF Judge, Yielded
  <2> QED BY <2>1, RowsWritten
<1>7. CASE ClaimUnit
  <2>1. SameRows(db, db') /\ disk' = db' /\ loop'.pc # "save"
    BY <1>0, <1>7, ClaimTables DEF Loop
  <2> QED BY <2>1, RowsWritten
<1>8. CASE LoseUnit
  <2>1. SameRows(db, db') /\ disk' = db' /\ loop'.pc # "save"
    BY <1>0, <1>8, LoseTables DEF Loop
  <2> QED BY <2>1, RowsWritten
<1>9. CASE CommitUnit
  <2>1. SameRows(db, db') /\ disk' = db' /\ loop'.pc # "save"
    BY <1>0, <1>9, CommitTables DEF Loop
  <2> QED BY <2>1, RowsWritten
<1>10. CASE IssueRechecks
  <2>1. SameRows(db, db') /\ disk' = db' /\ loop'.pc # "save"
    BY <1>0, <1>10, IssueTables DEF IssueRechecks, Loop
  <2> QED BY <2>1, RowsWritten
<1>11. CASE ClaimRecheck
  <2>1. \A f \in PendingRechecks : f \in DOMAIN db.recheck
    BY <1>11 DEF ClaimRecheck
  <2>2. PICK f : /\ SameRows(db, db') /\ disk' = db'
                 /\ loop' = [loop EXCEPT !.pc = "resent", !.job = f]
    BY <1>11, <2>1, ClaimRecheckTables
  <2>3. loop'.pc # "save"
    BY <1>0, <2>2 DEF Loop
  <2> QED BY <2>2, <2>3, RowsWritten
<1>15. CASE SaveRecheck
  <2>1. PICK e : /\ SameRows(db, db') /\ disk' = db'
                 /\ loop' = [loop EXCEPT !.pc = IF e[2] = "none" THEN "recheck" ELSE "finish",
                                         !.halt = e[2], !.job = 0]
    BY <1>15, SaveRecheckTables
  <2>2. loop'.pc # "save"
    BY <1>0, <2>1 DEF Loop
  <2> QED BY <2>1, <2>2, RowsWritten
<1>12. CASE SavingFails \/ Restart
  <2>1. disk' = db' /\ db' = ResetRunning(disk) /\ loop'.pc # "save"
    BY <1>12 DEF SavingFails, Restart, RolledBack, Write, NoLoop
  <2>2. SameRows(disk, db')
    BY <2>1, ResetTables DEF IInv, TypeOK
  <2> QED BY <2>1, <2>2, RowsWritten
<1>13. CASE AnswerUnit
  <2>1. PICK a \in AnswersTo[Unit] : /\ loop' = [loop EXCEPT !.pc = "save", !.rest = a]
                                     /\ given' = [given EXCEPT ![Unit] = a]
    BY <1>13 DEF AnswerUnit
  <2>2. Unit \in CheckUnits /\ Unit' = Unit
    BY <1>0, <1>13, <2>1, UnitType DEF AnswerUnit, IInv, LoopInv, Loop, Unit
  <2>3. given'[Unit] = a
    BY <2>1, <2>2 DEF IInv, TypeOK
  <2>4. UNCHANGED <<db, disk>>
    BY <1>13 DEF AnswerUnit
  <2> QED BY <2>2, <2>3, <2>4 DEF RowsInv
<1>14. CASE SaveCandidate
  BY <1>14, RowsSaved
<1> QED BY <1>1, <1>2, <1>3, <1>4, <1>5, <1>6, <1>7, <1>8, <1>9, <1>10, <1>11, <1>12, <1>13,
           <1>14, <1>15, NextIs

-----------------------------------------------------------------------------
(* Rechecks                                                                 *)

(* The states of a recheck that applies to its finding                      *)
Live == {"pending", "running", "failed"} \cup RecheckVerdicts

LEMMA LiveIsApart ==
  ASSUME NEW s \in Live
  PROVE  s \notin {"disabled", "unlocated", "suppressed"}
  BY MergingAssumption DEF Live

LEMMA FitsWritten ==
  ASSUME NEW d, NEW e, NEW on, RechecksFit(d, on), SameRows(d, e),
         DOMAIN e.recheck = DOMAIN d.recheck,
         \A f \in DOMAIN d.recheck :
           e.recheck[f] = d.recheck[f] \/ (d.recheck[f] \in Live /\ e.recheck[f] \in Live)
  PROVE  RechecksFit(e, on)
<1> SUFFICES ASSUME NEW f \in DOMAIN e.recheck
             PROVE  RecheckFits(e, on, f)
  BY DEF RechecksFit
<1>1. RecheckFits(d, on, f) /\ e.finding = d.finding
  BY DEF RechecksFit, SameRows
<1>2. CASE e.recheck[f] = d.recheck[f]
  BY <1>1, <1>2 DEF RecheckFits
<1>3. CASE d.recheck[f] \in Live /\ e.recheck[f] \in Live
  <2>1. /\ d.recheck[f] \notin {"disabled", "unlocated", "suppressed"}
        /\ e.recheck[f] \notin {"disabled", "unlocated", "suppressed"}
    BY <1>3, LiveIsApart
  <2> QED BY <1>1, <2>1 DEF RecheckFits
<1> QED BY <1>2, <1>3

LEMMA RecheckOnKept ==
  ASSUME IInv, [Next]_vars
  PROVE  run'.recheckOn = run.recheckOn
<1>0. run \in [status : RunStatus, reason : Halt \cup {"internal-error", "backend-restarted"},
               recheckOn : BOOLEAN]
  BY DEF IInv, TypeOK
<1>1. CASE UNCHANGED run
  BY <1>1
<1>2. CASE Launch
  BY <1>0, <1>2 DEF Launch
<1>3. CASE SavingFails
  BY <1>0, <1>3 DEF SavingFails
<1>4. CASE FinalizeRun
  BY <1>0, <1>4 DEF FinalizeRun
<1>5. CASE Restart
  BY <1>0, <1>5 DEF Restart
<1>6. CASE Moves \/ StopRun
  BY <1>1, <1>6, MovesAre, StopIs
<1>7. CASE StartRun \/ ResumeRun \/ RetryFailedUnits
  BY <1>2, <1>7 DEF StartRun, ResumeRun, RetryFailedUnits
<1>8. CASE Judge \/ ClaimUnit \/ AnswerUnit \/ LoseUnit \/ SaveCandidate \/ CommitUnit
  BY <1>1, <1>8 DEF Judge, ClaimUnit, AnswerUnit, LoseUnit, SaveCandidate, CommitUnit
<1>9. CASE IssueRechecks \/ ClaimRecheck \/ SaveRecheck
  BY <1>1, <1>9 DEF IssueRechecks, ClaimRecheck, SaveRecheck
<1>10. CASE UNCHANGED vars
  BY <1>1, <1>10 DEF vars
<1> QED BY <1>3, <1>4, <1>5, <1>6, <1>7, <1>8, <1>9, <1>10, NextIs

(* Saving a candidate leaves the rechecks there are, and may close one.     *)
LEMMA SavedRechecks ==
  ASSUME NEW d, TablesOK(d), NEW u \in CheckUnits, NEW c \in Candidate,
         NEW e, Saved(d, e, u, c)
  PROVE  /\ \A f \in DOMAIN d.recheck : f \in DOMAIN e.recheck /\ e.recheck[f] = d.recheck[f]
         /\ \A f \in DOMAIN e.recheck : \/ f \in DOMAIN d.recheck
                                        \/ /\ e.recheck[f] = ClosedRecheck
                                           /\ e.finding[f].locate # "located"
         /\ e.unit = d.unit
<1>n. PICK n : n = NextIndex(d) /\ n \notin DOMAIN d.finding
  BY DEF TablesOK, NextIndex
<1>0. n \notin DOMAIN d.recheck /\ e.unit = d.unit
  BY <1>n DEF TablesOK, Saved
<1>1. CASE e.recheck = d.recheck
  BY <1>0, <1>1
<1>2. CASE Made(d, e, u, c, n) /\ ~IsLocated(c)
  <2>1. /\ DOMAIN e.recheck = DOMAIN d.recheck \cup {n}
        /\ e.recheck[n] = ClosedRecheck
        /\ \A f \in DOMAIN d.recheck : e.recheck[f] = d.recheck[f]
    BY <1>0, <1>2 DEF Made
  <2>2. e.finding[n] = NewFinding(u, c)
    BY <1>2 DEF Made
  <2>3. e.finding[n].locate # "located"
    BY <1>2, <2>2 DEF NewFinding, IsLocated
  <2> QED BY <1>0, <2>1, <2>3
<1>3. e.recheck = d.recheck \/ (Made(d, e, u, c, n) /\ ~IsLocated(c))
  BY <1>n DEF Saved, Made, Joined, Outside
<1> QED BY <1>1, <1>2, <1>3

LEMMA SavedFits ==
  ASSUME NEW d, TablesOK(d), Grouped(d), RechecksFit(d, run.recheckOn),
         NEW u \in CheckUnits, NEW c \in Candidate, NEW e, Saved(d, e, u, c)
  PROVE  RechecksFit(e, run.recheckOn)
<1> SUFFICES ASSUME NEW f \in DOMAIN e.recheck
             PROVE  RecheckFits(e, run.recheckOn, f)
  BY DEF RechecksFit
<1>1. \/ f \in DOMAIN d.recheck /\ e.recheck[f] = d.recheck[f]
      \/ e.recheck[f] = ClosedRecheck /\ e.finding[f].locate # "located"
  BY SavedRechecks
<1>2. CASE f \in DOMAIN d.recheck /\ e.recheck[f] = d.recheck[f]
  <2>1. f \in DOMAIN d.finding
    BY <1>2 DEF TablesOK
  <2>2. Grown(d, e)
    BY SavedGrown
  <2>3. /\ e.finding[f].locate = d.finding[f].locate
        /\ e.finding[f].suppressed => d.finding[f].suppressed
    BY <2>1, <2>2 DEF Grown
  <2>4. RecheckFits(d, run.recheckOn, f)
    BY <1>2 DEF RechecksFit
  <2> QED BY <1>2, <2>3, <2>4 DEF RecheckFits
<1>3. CASE e.recheck[f] = ClosedRecheck /\ e.finding[f].locate # "located"
  BY <1>3 DEF RecheckFits, ClosedRecheck
<1> QED BY <1>1, <1>2, <1>3

LEMMA FreshFits ==
  ASSUME IInv, NEW f \in DOMAIN db.finding, NEW d,
         d.finding = db.finding, d.recheck[f] = FreshRecheck(f)
  PROVE  RecheckFits(d, run.recheckOn, f)
<1>0. run.recheckOn \in BOOLEAN /\ db.finding[f].suppressed \in BOOLEAN
  BY DEF IInv, TypeOK, TablesOK, Finding
<1>1. CASE ~run.recheckOn
  <2>1. d.recheck[f] = "disabled"
    BY <1>1 DEF FreshRecheck
  <2> QED BY <1>1, <2>1 DEF RecheckFits
<1>2. CASE run.recheckOn /\ db.finding[f].locate # "located"
  <2>1. d.recheck[f] = "unlocated"
    BY <1>0, <1>2 DEF FreshRecheck
  <2> QED BY <1>2, <2>1 DEF RecheckFits
<1>3. CASE run.recheckOn /\ db.finding[f].locate = "located" /\ db.finding[f].suppressed
  <2>1. d.recheck[f] = "suppressed"
    BY <1>0, <1>3 DEF FreshRecheck
  <2> QED BY <1>3, <2>1 DEF RecheckFits
<1>4. CASE run.recheckOn /\ db.finding[f].locate = "located" /\ ~db.finding[f].suppressed
  <2>1. d.recheck[f] = "pending"
    BY <1>0, <1>4 DEF FreshRecheck
  <2> QED BY <1>4, <2>1 DEF RecheckFits
<1> QED BY <1>0, <1>1, <1>2, <1>3, <1>4

LEMMA IssuedFits ==
  ASSUME IInv, RechecksFit(db, run.recheckOn), IssueRechecks
  PROVE  RechecksFit(db', run.recheckOn)
<1> SUFFICES ASSUME NEW f \in DOMAIN db'.recheck
             PROVE  RecheckFits(db', run.recheckOn, f)
  BY DEF RechecksFit
<1>0. DOMAIN db.recheck \subseteq DOMAIN db.finding /\ OfTarget(loop.target) \subseteq DOMAIN db.finding
  BY DEF IInv, TypeOK, TablesOK, OfTarget
<1>1. /\ db'.finding = db.finding
      /\ f \in DOMAIN db.recheck \/ f \in OfTarget(loop.target)
      /\ db'.recheck[f] = IF f \in OfTarget(loop.target) THEN IssuedRecheck(f)
                          ELSE db.recheck[f]
  BY IssueTables DEF SameRows
<1>2. f \in DOMAIN db.recheck => RecheckFits(db, run.recheckOn, f)
  BY DEF RechecksFit
<1>3. CASE f \in DOMAIN db.recheck /\ db'.recheck[f] = db.recheck[f]
  BY <1>1, <1>2, <1>3 DEF RecheckFits
<1>4. CASE f \in OfTarget(loop.target) /\ IssuedRecheck(f) # db.recheck[f]
  <2>1. CASE f \notin DOMAIN db.recheck
    <3>1. db'.recheck[f] = FreshRecheck(f)
      BY <1>1, <1>4, <2>1 DEF IssuedRecheck
    <3> QED BY <1>0, <1>1, <1>4, <3>1, FreshFits
  <2>2. CASE f \in DOMAIN db.recheck
    <3>1. /\ db'.recheck[f] = "pending" /\ run.recheckOn
          /\ db.finding[f].locate = "located" /\ ~db.finding[f].suppressed
      BY <1>1, <1>4, <2>2 DEF IssuedRecheck
    <3> QED BY <1>1, <3>1 DEF RecheckFits
  <2> QED BY <2>1, <2>2
<1>5. CASE f \in OfTarget(loop.target) /\ f \notin DOMAIN db.recheck
  <2>1. db'.recheck[f] = FreshRecheck(f)
    BY <1>1, <1>5 DEF IssuedRecheck
  <2> QED BY <1>0, <1>1, <1>5, <2>1, FreshFits
<1> QED BY <1>1, <1>3, <1>4, <1>5

(* While the loop waits for nothing, nothing runs.                          *)
NoneRuns(d) ==
  /\ \A u \in CheckUnits : d.unit[u] # "running"
  /\ \A f \in DOMAIN d.recheck : d.recheck[f] # "running"


LEMMA RechecksSteps ==
  ASSUME IInv, AnswersInv, RowsInv, RechecksInv, [Next]_vars,
         loop.pc = "recheck" => \A f \in PendingRechecks : f \in DOMAIN db.recheck
  PROVE  RechecksInv'
<1>0. /\ loop \in Loop
      /\ run'.recheckOn = run.recheckOn
      /\ TablesOK(db) /\ TablesOK(disk)
      /\ Grouped(db) /\ Grouped(disk)
  BY RecheckOnKept DEF IInv, TypeOK
<1>a. RechecksFit(db, run.recheckOn) /\ RechecksFit(disk, run.recheckOn) /\ UnderWay(db, loop)
  BY DEF RechecksInv
<1>b. loop.pc \notin {"sent", "save", "resent"} => NoneRuns(db)
  BY <1>a DEF UnderWay, NoneRuns
<1>c. ASSUME UNCHANGED <<db, disk>>, UnderWay(db, loop')
      PROVE  RechecksInv'
  BY <1>0, <1>a, <1>c DEF RechecksInv
<1>d. ASSUME disk' = db', RechecksFit(db', run.recheckOn), UnderWay(db', loop')
      PROVE  RechecksInv'
  BY <1>0, <1>d DEF RechecksInv
<1>e. ASSUME NEW l, NoneRuns(db')
      PROVE  UnderWay(db', l)
  BY <1>e DEF NoneRuns, UnderWay
<1>1. CASE UNCHANGED vars
  BY <1>1, <1>a, <1>c DEF vars
<1>2. CASE Moves
  <2>1. UNCHANGED <<db, disk>> /\ loop.pc \notin {"sent", "save", "resent"}
    BY <1>2, MovesAre
  <2> QED BY <2>1, <1>b, <1>c, <1>e
<1>3. CASE StopRun
  <2>1. UNCHANGED <<db, disk>> /\ loop'.pc = loop.pc /\ loop'.target = loop.target
        /\ loop'.persp = loop.persp /\ loop'.job = loop.job
    BY <1>3, StopIs
  <2>2. UnderWay(db, loop')
    BY <1>a, <2>1 DEF UnderWay
  <2> QED BY <2>1, <2>2, <1>c
<1>4. CASE StartRun \/ ResumeRun \/ FinalizeRun
  <2>1. UNCHANGED <<db, disk>> /\ loop.pc \notin {"sent", "save", "resent"}
    BY <1>4 DEF StartRun, ResumeRun, FinalizeRun, IInv, LoopInv
  <2> QED BY <2>1, <1>b, <1>c, <1>e
<1>5. CASE RetryFailedUnits
  <2>1. /\ SameRows(db, db') /\ disk' = db' /\ DOMAIN db'.recheck = DOMAIN db.recheck
        /\ \A u \in CheckUnits : db'.unit[u] # db.unit[u] => db'.unit[u] = "pending"
        /\ \A f \in DOMAIN db.recheck :
             \/ db'.recheck[f] = db.recheck[f]
             \/ db.recheck[f] = "failed" /\ db'.recheck[f] = "pending"
    BY <1>5, RetryTables
  <2>2. RechecksFit(db', run.recheckOn)
    BY <1>a, <2>1, FitsWritten DEF Live
  <2>3. NoneRuns(db)
    BY <1>5, <1>b DEF RetryFailedUnits
  <2>4. NoneRuns(db')
    BY <2>1, <2>3 DEF NoneRuns
  <2> QED BY <2>1, <2>2, <2>4, <1>d, <1>e
<1>6. CASE Judge
  <2>1. /\ SameRows(db, db') /\ disk' = db' /\ db'.recheck = db.recheck /\ db'.unit = db.unit
        /\ loop' = loop
    BY <1>6, JudgeTables DEF Judge
  <2>2. RechecksFit(db', run.recheckOn) /\ UnderWay(db', loop')
    BY <1>a, <2>1 DEF UnderWay, RechecksFit, RecheckFits, SameRows
  <2> QED BY <2>1, <2>2, <1>d
<1>7. CASE ClaimUnit
  <2>1. /\ SameRows(db, db') /\ disk' = db' /\ db'.recheck = db.recheck
        /\ \A u \in CheckUnits : db'.unit[u] = IF u = Unit THEN "running" ELSE db.unit[u]
        /\ loop' = [loop EXCEPT !.pc = "sent"] /\ loop.pc = "scan"
    BY <1>7, ClaimTables
  <2>2. RechecksFit(db', run.recheckOn)
    BY <1>a, <2>1 DEF RechecksFit, RecheckFits, SameRows
  <2>3. loop'.pc = "sent" /\ Unit = <<loop'.target, loop'.persp>>
    BY <1>0, <2>1 DEF Loop, Unit
  <2>4. NoneRuns(db)
    BY <2>1, <1>b
  <2>5. UnderWay(db', loop')
    BY <2>1, <2>3, <2>4 DEF UnderWay, NoneRuns
  <2> QED BY <2>1, <2>2, <2>5, <1>d
<1>8. CASE LoseUnit \/ CommitUnit
  <2>1. PICK s \in {"failed", "pending", "done"} :
          /\ SameRows(db, db') /\ disk' = db' /\ db'.recheck = db.recheck
          /\ \A u \in CheckUnits : db'.unit[u] = IF u = Unit THEN s ELSE db.unit[u]
          /\ loop.pc \in {"sent", "save"}
    BY <1>8, LoseTables, CommitTables, EndingTypes
  <2>2. RechecksFit(db', run.recheckOn)
    BY <1>a, <2>1 DEF RechecksFit, RecheckFits, SameRows
  <2>3. NoneRuns(db')
    BY <1>a, <2>1 DEF UnderWay, NoneRuns, Unit
  <2> QED BY <2>1, <2>2, <2>3, <1>d, <1>e
<1>9. CASE IssueRechecks
  <2>1. /\ SameRows(db, db') /\ disk' = db' /\ db'.unit = db.unit
        /\ DOMAIN db'.recheck = DOMAIN db.recheck \cup OfTarget(loop.target)
        /\ \A f \in DOMAIN db'.recheck :
             db'.recheck[f] = IF f \in OfTarget(loop.target) THEN IssuedRecheck(f)
                              ELSE db.recheck[f]
    BY <1>9, IssueTables
  <2>2. RechecksFit(db', run.recheckOn)
    BY <1>9, <1>a, IssuedFits
  <2>3. NoneRuns(db)
    BY <1>9, <1>b DEF IssueRechecks
  <2>4. NoneRuns(db')
    <3>1. \A f \in OfTarget(loop.target) : IssuedRecheck(f) # "running"
      BY <2>3 DEF IssuedRecheck, FreshRecheck, NoneRuns
    <3> QED BY <2>1, <2>3, <3>1 DEF NoneRuns
  <2> QED BY <2>1, <2>2, <2>4, <1>d, <1>e
<1>10. CASE ClaimRecheck
  <2>1. \A f \in PendingRechecks : f \in DOMAIN db.recheck
    BY <1>10 DEF ClaimRecheck
  <2>2. PICK f \in PendingRechecks :
          /\ SameRows(db, db') /\ disk' = db' /\ db'.unit = db.unit
          /\ DOMAIN db'.recheck = DOMAIN db.recheck
          /\ \A g \in DOMAIN db.recheck :
               db'.recheck[g] = IF g = f THEN "running" ELSE db.recheck[g]
          /\ loop' = [loop EXCEPT !.pc = "resent", !.job = f]
    BY <1>10, <2>1, ClaimRecheckTables
  <2>3. db.recheck[f] = "pending"
    BY DEF PendingRechecks
  <2>4. RechecksFit(db', run.recheckOn)
    BY <1>a, <2>2, <2>3, FitsWritten DEF Live
  <2>5. loop'.pc = "resent" /\ loop'.job = f
    BY <1>0, <2>2 DEF Loop
  <2>6. NoneRuns(db)
    BY <1>10, <1>b DEF ClaimRecheck
  <2>7. UnderWay(db', loop')
    BY <2>2, <2>5, <2>6 DEF UnderWay, NoneRuns
  <2> QED BY <2>2, <2>4, <2>7, <1>d
<1>11. CASE SaveRecheck
  <2>1. PICK e \in Endings \cup {<<v, "none">> : v \in RecheckVerdicts} :
          /\ SameRows(db, db') /\ disk' = db' /\ db'.unit = db.unit
          /\ DOMAIN db'.recheck = DOMAIN db.recheck
          /\ \A g \in DOMAIN db.recheck :
               db'.recheck[g] = IF g = loop.job THEN e[1] ELSE db.recheck[g]
    BY <1>11, SaveRecheckTables
  <2>2. e[1] \in Live /\ e[1] # "running"
    <3>1. CASE e \in Endings
      BY <3>1, EndingTypes DEF Live
    <3>2. CASE e \in {<<v, "none">> : v \in RecheckVerdicts}
      BY <3>2, VerdictsAreFinal DEF Live
    <3> QED BY <3>1, <3>2
  <2>3. loop.job \in DOMAIN db.recheck /\ db.recheck[loop.job] = "running" /\ loop.pc = "resent"
    BY <1>11 DEF SaveRecheck, IInv, LoopInv
  <2>4. RechecksFit(db', run.recheckOn)
    <3>1. "running" \in Live
      BY DEF Live
    <3>2. \A f \in DOMAIN db.recheck :
            db'.recheck[f] = db.recheck[f] \/ (db.recheck[f] \in Live /\ db'.recheck[f] \in Live)
      BY <2>1, <2>2, <2>3, <3>1
    <3>3. SameRows(db, db') /\ DOMAIN db'.recheck = DOMAIN db.recheck
      BY <2>1
    <3> QED BY <1>a, <3>2, <3>3, FitsWritten
  <2>5. NoneRuns(db')
    BY <1>a, <2>1, <2>2, <2>3 DEF UnderWay, NoneRuns
  <2> QED BY <2>1, <2>4, <2>5, <1>d, <1>e
<1>12. CASE SavingFails \/ Restart
  <2>1. disk' = db' /\ db' = ResetRunning(disk)
    BY <1>12 DEF SavingFails, Restart, RolledBack, Write
  <2>2. /\ SameRows(disk, db')
        /\ \A u \in CheckUnits : db'.unit[u] = Reset(disk.unit[u])
        /\ DOMAIN db'.recheck = DOMAIN disk.recheck
        /\ \A f \in DOMAIN disk.recheck : db'.recheck[f] = Reset(disk.recheck[f])
    BY <1>0, <2>1, ResetTables
  <2>3. RechecksFit(db', run.recheckOn)
    BY <1>a, <2>2, FitsWritten DEF Live, Reset
  <2>4. NoneRuns(db')
    BY <2>2 DEF NoneRuns, Reset
  <2> QED BY <2>1, <2>3, <2>4, <1>d, <1>e
<1>13. CASE AnswerUnit
  <2>1. PICK a : loop' = [loop EXCEPT !.pc = "save", !.rest = a]
    BY <1>13 DEF AnswerUnit
  <2>2. UNCHANGED <<db, disk>> /\ loop.pc = "sent"
    BY <1>13 DEF AnswerUnit
  <2>3. loop'.pc = "save" /\ loop'.target = loop.target /\ loop'.persp = loop.persp
    BY <1>0, <2>1 DEF Loop
  <2>4. UnderWay(db, loop')
    BY <1>a, <2>2, <2>3 DEF UnderWay
  <2> QED BY <2>2, <2>4, <1>c
<1>14. CASE SaveCandidate
  <2> DEFINE c == Head(loop.rest)
  <2>1. /\ Unit \in CheckUnits /\ c \in Candidate /\ Saved(db, db', Unit, c) /\ disk' = disk
        /\ loop.pc = "save" /\ loop' = [loop EXCEPT !.rest = Tail(loop.rest)]
    BY <1>14, SavingIs
  <2> HIDE DEF c
  <2>2. RechecksFit(db', run.recheckOn)
    BY <1>0, <1>a, <2>1, SavedFits
  <2>3. loop'.pc = "save" /\ loop'.target = loop.target /\ loop'.persp = loop.persp
    BY <1>0, <2>1 DEF Loop
  <2>4. /\ \A f \in DOMAIN db.recheck : db'.recheck[f] = db.recheck[f]
        /\ \A f \in DOMAIN db'.recheck : f \in DOMAIN db.recheck \/ db'.recheck[f] = ClosedRecheck
        /\ db'.unit = db.unit
    BY <1>0, <2>1, SavedRechecks
  <2>5. UnderWay(db', loop')
    BY <1>a, <2>1, <2>3, <2>4 DEF UnderWay, ClosedRecheck
  <2> QED BY <1>0, <1>a, <2>1, <2>2, <2>5 DEF RechecksInv
<1> QED BY <1>1, <1>2, <1>3, <1>4, <1>5, <1>6, <1>7, <1>8, <1>9, <1>10, <1>11, <1>12, <1>13,
           <1>14, NextIs

-----------------------------------------------------------------------------
(* What the loop leaves behind                                              *)

LEMMA UnitOf ==
  ASSUME NEW t \in Targets, NEW p \in Perspectives
  PROVE  <<t, p>> \in CheckUnits
  BY DEF CheckUnits

LEMMA Before ==
  ASSUME loop \in Loop
  PROVE  /\ \A t \in 1 .. loop.target - 1 : t \in Targets /\ t # loop.target
         /\ \A p \in 1 .. loop.persp - 1 : p \in Perspectives /\ p # loop.persp
  BY MergingAssumption DEF Loop, Targets, Perspectives

LEMMA TidyKept ==
  ASSUME NEW d, NEW e, NEW t, Tidy(d, t),
         \A p \in Perspectives : Past(d, t, p) => Past(e, t, p),
         \A f \in DOMAIN e.finding : e.finding[f].target = t =>
           /\ f \in DOMAIN d.finding /\ d.finding[f].target = t
           /\ e.finding[f].suppressed = d.finding[f].suppressed
           /\ f \in DOMAIN d.recheck => f \in DOMAIN e.recheck /\ e.recheck[f] = d.recheck[f]
  PROVE  Tidy(e, t)
  BY DEF Tidy, Issued

(* A write of a unit of target u[1] leaves the other targets tidy.          *)
LEMMA TidyBesideUnit ==
  ASSUME NEW d, NEW e, NEW u \in CheckUnits, NEW t \in Targets, Tidy(d, t), t # u[1],
         SameRows(d, e), e.recheck = d.recheck,
         \A w \in CheckUnits : w # u => e.unit[w] = d.unit[w]
  PROVE  Tidy(e, t)
<1>1. \A p \in Perspectives : <<t, p>> \in CheckUnits /\ <<t, p>> # u
  BY UnitOf
<1>2. \A p \in Perspectives : Past(d, t, p) => Past(e, t, p)
  BY <1>1 DEF Past
<1> QED BY <1>2, TidyKept DEF SameRows

LEMMA TidySame ==
  ASSUME NEW d, NEW e, NEW t, Tidy(d, t), SameRows(d, e), e.recheck = d.recheck,
         e.unit = d.unit
  PROVE  Tidy(e, t)
  BY TidyKept DEF SameRows, Past

(* A write of the recheck of a finding of another target                    *)
LEMMA TidyBesideRecheck ==
  ASSUME NEW d, NEW e, NEW t, Tidy(d, t), SameRows(d, e), e.unit = d.unit,
         \A f \in DOMAIN d.finding : d.finding[f].target = t /\ f \in DOMAIN d.recheck =>
            f \in DOMAIN e.recheck /\ e.recheck[f] = d.recheck[f]
  PROVE  Tidy(e, t)
  BY TidyKept DEF SameRows, Past

(* Once its units need no run any more, a target is left tidy or settled.   *)
LEMMA AdvanceTidy ==
  ASSUME IInv, TidyUpTo(db, loop), loop.pc \in {"settle", "recheck"}, NEW l, l = Advance(loop),
         \A p \in 1 .. loop.persp : p \in Perspectives => Past(db, loop.target, p),
         loop.settled => Tidy(db, loop.target),
         loop.persp \notin Perspectives => loop.settled
  PROVE  TidyUpTo(db, l)
<1>0. /\ loop \in Loop /\ loop.target \in Nat /\ NumTargets \in Nat /\ loop.persp \in Nat
      /\ loop.target \in Targets /\ NumPerspectives \in Nat
  BY MergingAssumption DEF IInv, TypeOK, Loop, Targets
<1>a. \A t \in 1 .. loop.target - 1 : Tidy(db, t)
  BY DEF TidyUpTo
<1>1. CASE loop.persp \in Perspectives
  <2>1. l.pc = "scan" /\ l.target = loop.target /\ l.persp = loop.persp + 1
        /\ l.settled = loop.settled
    BY <1>0, <1>1, AdvanceIs
  <2>2. l.persp - 1 = loop.persp
    BY <1>0, <2>1
  <2>3. \A p \in 1 .. loop.persp : p \in Perspectives
    BY <1>0, <1>1 DEF Perspectives
  <2>4. \A p \in 1 .. l.persp - 1 : Past(db, l.target, p)
    BY <2>1, <2>2, <2>3
  <2> QED BY <1>a, <2>1, <2>4 DEF TidyUpTo
<1>2. CASE loop.persp \notin Perspectives /\ loop.target < NumTargets
  <2>1. l.pc = "scan" /\ l.target = loop.target + 1 /\ l.persp = 1 /\ ~l.settled
    BY <1>0, <1>2, AdvanceIs
  <2>2. \A t \in 1 .. l.target - 1 : t \in 1 .. loop.target - 1 \/ t = loop.target
    BY <1>0, <2>1
  <2>3. \A t \in 1 .. l.target - 1 : Tidy(db, t)
    BY <1>2, <1>a, <2>2
  <2>4. 1 .. l.persp - 1 = {}
    BY <2>1
  <2> QED BY <2>1, <2>3, <2>4 DEF TidyUpTo
<1>3. CASE loop.persp \notin Perspectives /\ ~(loop.target < NumTargets)
  <2>1. l.pc = "finish" /\ l.target = loop.target
    BY <1>0, <1>3, AdvanceIs
  <2>2. \A t \in Targets : t \in 1 .. loop.target - 1 \/ t = loop.target
    BY <1>0, <1>3 DEF Targets
  <2>3. \A t \in Targets : Tidy(db, t)
    BY <1>3, <1>a, <2>2
  <2> QED BY <1>a, <2>1, <2>3 DEF TidyUpTo
<1> QED BY <1>1, <1>2, <1>3

LEMMA MovesTidy ==
  ASSUME IInv, RechecksInv, TidyUpTo(db, loop), Moves
  PROVE  TidyUpTo(db, loop')
<1>0. loop \in Loop /\ loop.persp \in Nat /\ NumPerspectives \in Nat
  BY MergingAssumption DEF IInv, TypeOK, Loop
<1>n. loop.pc \notin {"sent", "save", "resent"} => NoneRuns(db)
  BY DEF RechecksInv, UnderWay, NoneRuns
<1>a. \A t \in 1 .. loop.target - 1 : Tidy(db, t)
  BY DEF TidyUpTo, Moves, StopBeforeUnit, SkipUnit, EndOfPerspectives, SettleNothing,
         RechecksDone, StopBeforeRecheck
<1>1. CASE StopBeforeUnit \/ StopBeforeRecheck
  <2>1. loop'.pc = "finish" /\ loop'.halt = "aborted" /\ loop'.target = loop.target
    BY <1>0, <1>1 DEF StopBeforeUnit, StopBeforeRecheck, Loop
  <2> QED BY <1>a, <2>1 DEF TidyUpTo
<1>2. CASE SkipUnit
  <2>1. /\ loop'.pc = "scan" /\ loop'.target = loop.target /\ loop'.persp = loop.persp + 1
        /\ loop'.settled = loop.settled /\ loop.pc = "scan"
    BY <1>0, <1>2 DEF SkipUnit, Loop
  <2>2. Past(db, loop.target, loop.persp)
    <3>1. db.unit[Unit] # "pending" /\ Unit \in CheckUnits
      BY <1>2, UnitType DEF SkipUnit, IInv
    <3>2. db.unit[Unit] # "running"
      BY <1>n, <2>1, <3>1 DEF NoneRuns
    <3> QED BY <3>1, <3>2 DEF Past, Unit
  <2>3. \A p \in 1 .. loop'.persp - 1 : p \in 1 .. loop.persp - 1 \/ p = loop.persp
    BY <1>0, <2>1
  <2>4. \A p \in 1 .. loop'.persp - 1 : Past(db, loop'.target, p)
    BY <2>1, <2>2, <2>3 DEF TidyUpTo
  <2> QED BY <1>a, <2>1, <2>4 DEF TidyUpTo
<1>3. CASE EndOfPerspectives
  <2>1. /\ loop'.pc = "settle" /\ loop'.target = loop.target /\ loop'.persp = loop.persp
        /\ loop'.settled = loop.settled /\ loop.pc = "scan" /\ loop.persp = NumPerspectives + 1
    BY <1>0, <1>3 DEF EndOfPerspectives, Loop
  <2>2. \A p \in Perspectives : p \in 1 .. loop.persp - 1
    BY <1>0, <2>1 DEF Perspectives
  <2>3. \A p \in Perspectives : Past(db, loop.target, p)
    BY <2>1, <2>2 DEF TidyUpTo
  <2> QED BY <1>a, <2>1, <2>3 DEF TidyUpTo
<1>4. CASE SettleNothing
  <2>1. loop' = Advance(loop) /\ loop.pc = "settle"
    BY <1>4 DEF SettleNothing
  <2>2. \A p \in 1 .. loop.persp : p \in Perspectives => Past(db, loop.target, p)
    BY <2>1 DEF TidyUpTo
  <2>3. loop.settled => Tidy(db, loop.target)
    BY <2>1 DEF TidyUpTo
  <2>4. ASSUME loop.persp \notin Perspectives PROVE loop.settled
    <3>1. \A p \in Perspectives : p \in 1 .. loop.persp
      BY <1>0, <2>4 DEF Perspectives, Loop
    <3>2. ~Unfinished(loop.target)
      BY <2>2, <3>1 DEF Unfinished, Past
    <3> QED BY <1>4, <3>2 DEF SettleNothing
  <2> QED BY <2>1, <2>2, <2>3, <2>4, AdvanceTidy
<1>5. CASE RechecksDone
  <2>1. loop' = Advance(loop) /\ loop.pc = "recheck" /\ PendingRechecks = {}
    BY <1>5 DEF RechecksDone
  <2>2. /\ \A p \in Perspectives : Past(db, loop.target, p)
        /\ Issued(db, loop.target, {}) /\ loop.settled
    BY <2>1 DEF TidyUpTo
  <2>3. Issued(db, loop.target, {"pending", "running"})
    <3>1. NoneRuns(db)
      BY <1>n, <2>1
    <3>2. \A f \in DOMAIN db.finding :
            db.finding[f].target = loop.target => db.recheck[f] # "pending"
      BY <2>1 DEF PendingRechecks, OfTarget
    <3> QED BY <2>2, <3>1, <3>2 DEF Issued, NoneRuns
  <2>4. Tidy(db, loop.target)
    BY <2>2, <2>3 DEF Tidy
  <2> QED BY <2>1, <2>2, <2>4, AdvanceTidy
<1> QED BY <1>1, <1>2, <1>3, <1>4, <1>5 DEF Moves

(* The steps that write a unit's status                                     *)
LEMMA UnitTidy ==
  ASSUME IInv, AnswersInv, RechecksInv, TidyUpTo(db, loop), ClaimUnit \/ LoseUnit \/ CommitUnit
  PROVE  TidyUpTo(db', loop')
<1>0. loop \in Loop /\ loop.pc \in {"scan", "sent", "save"}
  BY DEF IInv, TypeOK, ClaimUnit, LoseUnit, CommitUnit
<1>u. Unit \in CheckUnits /\ Unit[1] = loop.target /\ loop.target \in Targets
  BY <1>0, ClaimTables, LoseTables, CommitTables DEF Unit, Loop
<1>w. /\ SameRows(db, db') /\ db'.recheck = db.recheck
      /\ \A w \in CheckUnits : w # Unit => db'.unit[w] = db.unit[w]
  BY ClaimTables, LoseTables, CommitTables
<1>a. \A t \in 1 .. loop.target - 1 : Tidy(db', t)
  <2> SUFFICES ASSUME NEW t \in 1 .. loop.target - 1 PROVE Tidy(db', t)
    OBVIOUS
  <2>1. t \in Targets /\ t # Unit[1]
    BY <1>0, <1>u, Before
  <2>2. Tidy(db, t)
    BY <1>0 DEF TidyUpTo
  <2> QED BY <1>u, <1>w, <2>1, <2>2, TidyBesideUnit
<1>b. \A p \in 1 .. loop.persp - 1 : Past(db', loop.target, p)
  <2> SUFFICES ASSUME NEW p \in 1 .. loop.persp - 1 PROVE Past(db', loop.target, p)
    OBVIOUS
  <2>1. p \in Perspectives /\ p # loop.persp
    BY <1>0, Before
  <2>2. <<loop.target, p>> \in CheckUnits /\ <<loop.target, p>> # Unit
    BY <1>u, <2>1, UnitOf DEF Unit
  <2>3. Past(db, loop.target, p)
    BY <1>0 DEF TidyUpTo
  <2> QED BY <1>w, <2>2, <2>3 DEF Past
<1>s. loop.settled => Past(db, loop.target, loop.persp)
  <2>1. loop.persp \in Perspectives
    BY DEF ClaimUnit, LoseUnit, CommitUnit, IInv, LoopInv
  <2> QED BY <1>0, <2>1 DEF TidyUpTo, Tidy
<1>t. ~loop.settled
  <2>1. CASE ClaimUnit
    <3>1. db.unit[Unit] = "pending"
      BY <2>1, ClaimTables
    <3> QED BY <1>s, <3>1 DEF Past, Unit
  <2>2. CASE LoseUnit \/ CommitUnit
    <3>1. disk.unit[Unit] = "running"
      BY <2>2 DEF AnswersInv, HandInv, LoseUnit, CommitUnit
    <3>2. db.unit = disk.unit
      BY <2>2 DEF LoseUnit, CommitUnit, IInv, LoopInv, AnswersInv, SaveInv
    <3> QED BY <1>s, <3>1, <3>2 DEF Past, Unit
  <2> QED BY <2>1, <2>2
<1>1. CASE ClaimUnit
  <2>1. /\ loop'.pc = "sent" /\ loop'.target = loop.target /\ loop'.persp = loop.persp
        /\ loop'.settled = loop.settled
    BY <1>0, <1>1 DEF ClaimUnit, Loop
  <2> QED BY <1>a, <1>b, <1>t, <2>1 DEF TidyUpTo
<1>2. ASSUME loop'.pc = "settle", loop'.target = loop.target, loop'.persp = loop.persp,
             loop'.settled = loop.settled, db'.unit[Unit] \in {"failed", "done"}
      PROVE  TidyUpTo(db', loop')
  <2>1. Past(db', loop.target, loop.persp)
    BY <1>2 DEF Past, Unit
  <2>2. \A p \in 1 .. loop.persp : p \in 1 .. loop.persp - 1 \/ p = loop.persp
    BY <1>0 DEF Loop
  <2>3. \A p \in 1 .. loop.persp : Past(db', loop.target, p)
    BY <1>b, <2>1, <2>2
  <2> QED BY <1>2, <1>a, <1>t, <2>3 DEF TidyUpTo
<1>3. CASE CommitUnit
  <2>1. /\ loop'.pc = "settle" /\ loop'.target = loop.target /\ loop'.persp = loop.persp
        /\ loop'.settled = loop.settled
    BY <1>0, <1>3 DEF CommitUnit, Loop
  <2>2. db'.unit[Unit] = "done"
    BY <1>3, <1>u, CommitTables
  <2> QED BY <1>2, <2>1, <2>2
<1>4. CASE LoseUnit
  <2>1. PICK e \in Endings :
          /\ \A u \in CheckUnits : db'.unit[u] = IF u = Unit THEN e[1] ELSE db.unit[u]
          /\ loop' = [loop EXCEPT !.pc = IF e[2] = "none" THEN "settle" ELSE "finish",
                                  !.halt = e[2]]
    BY <1>4, LoseTables
  <2>2. e[2] = "none" => e[1] = "failed"
    BY DEF Endings
  <2>3. db'.unit[Unit] = e[1]
    BY <1>u, <2>1
  <2>4. /\ loop'.pc = IF e[2] = "none" THEN "settle" ELSE "finish"
        /\ loop'.target = loop.target /\ loop'.persp = loop.persp
        /\ loop'.settled = loop.settled /\ loop'.halt = e[2]
    BY <1>0, <2>1 DEF Loop
  <2>5. CASE e[2] = "none"
    BY <1>2, <2>2, <2>3, <2>4, <2>5
  <2>6. CASE e[2] # "none"
    BY <1>a, <2>4, <2>6 DEF TidyUpTo
  <2> QED BY <2>5, <2>6
<1> QED BY <1>1, <1>3, <1>4

(* Two located candidates at one place are of answers for one target.       *)
LEMMA PlaceOfTarget ==
  ASSUME NEW u \in CheckUnits, NEW w \in CheckUnits, NEW c, NEW e,
         \E a \in AnswersTo[u] : \E i \in DOMAIN a : a[i] = c,
         \E b \in AnswersTo[w] : \E j \in DOMAIN b : b[j] = e,
         IsLocated(c), IsLocated(e), c.at = e.at
  PROVE  u[1] = w[1]
<1>1. PICK a \in AnswersTo[u] : \E i \in DOMAIN a : a[i] = c
  OBVIOUS
<1>2. PICK i \in DOMAIN a : a[i] = c
  BY <1>1
<1>3. PICK b \in AnswersTo[w] : \E j \in DOMAIN b : b[j] = e
  OBVIOUS
<1>4. PICK j \in DOMAIN b : b[j] = e
  BY <1>3
<1> QED BY <1>2, <1>4, PlacesAssumption

LEMMA JoinedTarget ==
  ASSUME NEW d, TablesOK(d), Grouped(d), UnlocatedApart(d), RowsAnswered(d),
         NEW u \in CheckUnits, NEW c \in Candidate, NEW e, NEW f \in DOMAIN d.finding,
         Joined(d, e, u, c, f), \E a \in AnswersTo[u] : \E j \in DOMAIN a : a[j] = c
  PROVE  d.finding[f].target = u[1]
<1>0. f \in DOMAIN d.candidate /\ CandOf(d, f) \in Candidate
  BY RowTypes
<1>1. IsLocated(c) /\ MergeKey(c) # NoKey /\ d.finding[f].key = MergeKey(c)
  BY DEF Joined, FoundByKey
<1>2. IsLocated(CandOf(d, f)) /\ MergeKey(CandOf(d, f)) = MergeKey(c)
  BY <1>1 DEF Grouped, FindingsHaveMakers
<1>3. CandOf(d, f).at = c.at
  BY <1>0, <1>1, <1>2, KeyFacts
<1>4. d.candidate[f].unit \in CheckUnits
  <2>1. d.candidate[f] \in CandidateRow
    <3>1. d.candidate \in Seq(CandidateRow)
      BY DEF TablesOK
    <3> QED BY <1>0, <3>1
  <2> QED BY <2>1 DEF CandidateRow
<1>5. \E a \in AnswersTo[d.candidate[f].unit] : \E j \in DOMAIN a : a[j] = CandOf(d, f)
  BY <1>0 DEF RowsAnswered
<1>6. d.candidate[f].unit[1] = u[1]
  BY <1>1, <1>2, <1>3, <1>4, <1>5, PlaceOfTarget
<1> QED BY <1>6 DEF UnlocatedApart

(* The findings of another target are left as they were.                    *)
LEMMA SavedBeside ==
  ASSUME NEW d, TablesOK(d), Grouped(d), UnlocatedApart(d), RowsAnswered(d),
         NEW u \in CheckUnits, NEW c \in Candidate, NEW e, Saved(d, e, u, c),
         \E a \in AnswersTo[u] : \E j \in DOMAIN a : a[j] = c,
         NEW f \in DOMAIN e.finding, e.finding[f].target # u[1]
  PROVE  f \in DOMAIN d.finding /\ e.finding[f] = d.finding[f]
<1>n. PICK n : n = NextIndex(d)
  OBVIOUS
<1>1. CASE Made(d, e, u, c, n)
  <2>1. /\ DOMAIN e.finding = DOMAIN d.finding \cup {n}
        /\ e.finding[n] = NewFinding(u, c)
        /\ \A g \in DOMAIN d.finding : g # n => e.finding[g] = d.finding[g]
    BY <1>1 DEF Made
  <2>2. e.finding[n].target = u[1]
    BY <2>1 DEF NewFinding
  <2> QED BY <2>1, <2>2
<1>2. ASSUME NEW g \in DOMAIN d.finding, Joined(d, e, u, c, g)
      PROVE  f \in DOMAIN d.finding /\ e.finding[f] = d.finding[f]
  <2>1. d.finding[g].target = u[1]
    BY <1>2, JoinedTarget
  <2>2. Grown(d, e)
    BY SavedGrown
  <2>3. e.finding[g].target = d.finding[g].target
    BY <2>2 DEF Grown
  <2>4. /\ DOMAIN e.finding = DOMAIN d.finding
        /\ \A h \in DOMAIN d.finding : h # g => e.finding[h] = d.finding[h]
    BY <1>2 DEF Joined
  <2> QED BY <2>1, <2>3, <2>4
<1>3. CASE Outside(d, e, u, c)
  BY <1>3 DEF Outside
<1> QED BY <1>n, <1>1, <1>2, <1>3 DEF Saved

LEMMA SaveTidy ==
  ASSUME IInv, AnswersInv, RowsInv, TidyUpTo(db, loop), SaveCandidate
  PROVE  TidyUpTo(db', loop')
<1> DEFINE c == Head(loop.rest)
<1>0. loop \in Loop /\ TablesOK(db) /\ Grouped(db) /\ UnlocatedApart(db) /\ RowsAnswered(db)
  BY DEF IInv, TypeOK, RowsInv
<1>1. /\ Unit \in CheckUnits /\ c \in Candidate /\ Saved(db, db', Unit, c)
      /\ loop.pc = "save" /\ loop' = [loop EXCEPT !.rest = Tail(loop.rest)]
      /\ \E a \in AnswersTo[Unit] : \E j \in DOMAIN a : a[j] = c
  BY SavingIs
<1> HIDE DEF c
<1>2. /\ loop'.pc = "save" /\ loop'.target = loop.target /\ loop'.persp = loop.persp
      /\ loop'.settled = loop.settled
  BY <1>0, <1>1 DEF Loop
<1>3. /\ db'.unit = db.unit
      /\ \A f \in DOMAIN db.recheck : f \in DOMAIN db'.recheck /\ db'.recheck[f] = db.recheck[f]
  BY <1>0, <1>1, SavedRechecks
<1>4. \A f \in DOMAIN db'.finding : db'.finding[f].target # Unit[1] =>
        f \in DOMAIN db.finding /\ db'.finding[f] = db.finding[f]
  BY <1>0, <1>1, SavedBeside
<1>5. ASSUME NEW t \in 1 .. loop.target - 1 PROVE Tidy(db', t)
  <2>1. t # Unit[1]
    BY <1>0, Before DEF Unit
  <2>2. Tidy(db, t)
    BY <1>1 DEF TidyUpTo
  <2>3. \A p \in Perspectives : Past(db, t, p) => Past(db', t, p)
    BY <1>3 DEF Past
  <2>4. \A f \in DOMAIN db'.finding : db'.finding[f].target = t =>
          /\ f \in DOMAIN db.finding /\ db.finding[f].target = t
          /\ db'.finding[f].suppressed = db.finding[f].suppressed
          /\ f \in DOMAIN db.recheck => f \in DOMAIN db'.recheck /\ db'.recheck[f] = db.recheck[f]
    BY <1>3, <1>4, <2>1
  <2> QED BY <2>2, <2>3, <2>4, TidyKept
<1>6. \A p \in 1 .. loop.persp - 1 : Past(db', loop.target, p)
  BY <1>1, <1>3 DEF TidyUpTo, Past
<1>7. ~loop.settled
  <2>1. db.unit[Unit] = "running" /\ loop.persp \in Perspectives
    BY <1>1 DEF AnswersInv, HandInv, SaveInv, IInv, LoopInv
  <2> QED BY <1>1, <2>1 DEF TidyUpTo, Tidy, Past, Unit
<1> QED BY <1>2, <1>5, <1>6, <1>7 DEF TidyUpTo

LEMMA IssueTidy ==
  ASSUME IInv, RechecksInv, TidyUpTo(db, loop), IssueRechecks
  PROVE  TidyUpTo(db', loop')
<1>0. /\ loop \in Loop /\ loop.pc = "settle" /\ ~Unfinished(loop.target)
      /\ run.recheckOn \in BOOLEAN
      /\ \A f \in DOMAIN db.finding : db.finding[f].suppressed \in BOOLEAN
  BY DEF IInv, TypeOK, IssueRechecks, TablesOK, Finding
<1>1. /\ SameRows(db, db') /\ db'.unit = db.unit
      /\ DOMAIN db'.recheck = DOMAIN db.recheck \cup OfTarget(loop.target)
      /\ \A f \in DOMAIN db'.recheck :
           db'.recheck[f] = IF f \in OfTarget(loop.target) THEN IssuedRecheck(f)
                            ELSE db.recheck[f]
  BY IssueTables
<1>2. /\ loop'.pc = "recheck" /\ loop'.target = loop.target /\ loop'.settled
  BY <1>0 DEF IssueRechecks, Loop
<1>3. ASSUME NEW t \in 1 .. loop.target - 1 PROVE Tidy(db', t)
  <2>1. t # loop.target
    BY <1>0, Before
  <2>2. \A f \in DOMAIN db.finding : db.finding[f].target = t => f \notin OfTarget(loop.target)
    BY <2>1 DEF OfTarget
  <2>3. \A f \in DOMAIN db.finding : db.finding[f].target = t /\ f \in DOMAIN db.recheck =>
           f \in DOMAIN db'.recheck /\ db'.recheck[f] = db.recheck[f]
    BY <1>1, <2>2
  <2>4. Tidy(db, t)
    BY <1>0 DEF TidyUpTo
  <2> QED BY <1>1, <2>3, <2>4, TidyBesideRecheck
<1>4. \A p \in Perspectives : Past(db', loop.target, p)
  BY <1>0, <1>1 DEF Unfinished, Past
<1>5. ASSUME NEW f \in DOMAIN db'.finding, db'.finding[f].target = loop.target
      PROVE  /\ f \in DOMAIN db'.recheck
             /\ db'.recheck[f] = "suppressed" => db'.finding[f].suppressed
  <2>1. f \in OfTarget(loop.target) /\ f \in DOMAIN db.finding /\ db'.finding[f] = db.finding[f]
    BY <1>1, <1>5 DEF OfTarget, SameRows
  <2>2. f \in DOMAIN db'.recheck /\ db'.recheck[f] = IssuedRecheck(f)
    BY <1>1, <2>1
  <2>3. ASSUME IssuedRecheck(f) = "suppressed" PROVE db.finding[f].suppressed
    <3>1. CASE f \notin DOMAIN db.recheck
      <4>1. FreshRecheck(f) = "suppressed"
        BY <2>3, <3>1 DEF IssuedRecheck
      <4> QED BY <1>0, <2>1, <4>1 DEF FreshRecheck
    <3>2. CASE f \in DOMAIN db.recheck
      <4> SUFFICES ASSUME ~db.finding[f].suppressed PROVE FALSE
        OBVIOUS
      <4>1. RecheckFits(db, run.recheckOn, f)
        BY <3>2 DEF RechecksInv, RechecksFit
      <4>2. ~(db.recheck[f] = "suppressed" /\ run.recheckOn /\ db.finding[f].locate = "located")
        BY <2>3, <3>2 DEF IssuedRecheck
      <4>3. db.recheck[f] = "suppressed"
        BY <2>3, <3>2, <4>2 DEF IssuedRecheck
      <4> QED BY <1>0, <4>1, <4>2, <4>3 DEF RecheckFits
    <3> QED BY <3>1, <3>2
  <2> QED BY <2>1, <2>2, <2>3
<1>6. Issued(db', loop.target, {})
  BY <1>5 DEF Issued
<1> QED BY <1>2, <1>3, <1>4, <1>6 DEF TidyUpTo

LEMMA RecheckTidy ==
  ASSUME IInv, RechecksInv, TidyUpTo(db, loop), ClaimRecheck \/ SaveRecheck
  PROVE  TidyUpTo(db', loop')
<1>0. loop \in Loop /\ loop.pc \in {"recheck", "resent"}
  BY DEF IInv, TypeOK, ClaimRecheck, SaveRecheck
<1>i. /\ \A p \in Perspectives : Past(db, loop.target, p)
      /\ Issued(db, loop.target, {}) /\ loop.settled
  BY <1>0 DEF TidyUpTo
<1>1. ASSUME NEW g \in DOMAIN db.recheck, NEW s, s # "suppressed",
             SameRows(db, db'), db'.unit = db.unit,
             DOMAIN db'.recheck = DOMAIN db.recheck,
             \A f \in DOMAIN db.recheck : db'.recheck[f] = IF f = g THEN s ELSE db.recheck[f],
             \A t \in 1 .. loop.target - 1 : db.finding[g].target # t,
             loop'.target = loop.target, loop'.settled = loop.settled,
             loop'.pc \in {"recheck", "resent"} \/ (loop'.pc = "finish" /\ loop'.halt # "none")
      PROVE  TidyUpTo(db', loop')
  <2>1. ASSUME NEW t \in 1 .. loop.target - 1 PROVE Tidy(db', t)
    <3>1. Tidy(db, t)
      BY <1>0 DEF TidyUpTo
    <3>2. \A f \in DOMAIN db.finding : db.finding[f].target = t /\ f \in DOMAIN db.recheck =>
             f \in DOMAIN db'.recheck /\ db'.recheck[f] = db.recheck[f]
      BY <1>1
    <3> QED BY <1>1, <3>1, <3>2, TidyBesideRecheck
  <2>2. \A p \in Perspectives : Past(db', loop.target, p)
    BY <1>i, <1>1 DEF Past
  <2>3. Issued(db', loop.target, {})
    BY <1>i, <1>1 DEF Issued, SameRows
  <2> QED BY <1>1, <1>i, <2>1, <2>2, <2>3 DEF TidyUpTo
<1>2. CASE ClaimRecheck
  <2>0. loop.pc = "recheck"
    BY <1>2 DEF ClaimRecheck
  <2>1. \A f \in PendingRechecks : f \in DOMAIN db.recheck /\ db.finding[f].target = loop.target
    BY <1>i DEF PendingRechecks, OfTarget, Issued
  <2>2. PICK g \in PendingRechecks :
          /\ SameRows(db, db') /\ disk' = db' /\ db'.unit = db.unit
          /\ DOMAIN db'.recheck = DOMAIN db.recheck
          /\ \A f \in DOMAIN db.recheck :
               db'.recheck[f] = IF f = g THEN "running" ELSE db.recheck[f]
          /\ loop' = [loop EXCEPT !.pc = "resent", !.job = g]
    BY <1>2, <2>1, ClaimRecheckTables
  <2>3. loop'.pc = "resent" /\ loop'.target = loop.target /\ loop'.settled = loop.settled
    BY <1>0, <2>2 DEF Loop
  <2>4. \A t \in 1 .. loop.target - 1 : db.finding[g].target # t
    BY <1>0, <2>1, Before
  <2>5. g \in DOMAIN db.recheck
    BY <2>1
  <2> QED BY <1>1, <2>2, <2>3, <2>4, <2>5
<1>3. CASE SaveRecheck
  <2>1. PICK e \in Endings \cup {<<v, "none">> : v \in RecheckVerdicts} :
          /\ SameRows(db, db') /\ disk' = db' /\ db'.unit = db.unit
          /\ DOMAIN db'.recheck = DOMAIN db.recheck
          /\ \A f \in DOMAIN db.recheck :
               db'.recheck[f] = IF f = loop.job THEN e[1] ELSE db.recheck[f]
          /\ loop' = [loop EXCEPT !.pc = IF e[2] = "none" THEN "recheck" ELSE "finish",
                                  !.halt = e[2], !.job = 0]
    BY <1>3, SaveRecheckTables
  <2>2. e[1] # "suppressed"
    BY EndingTypes, VerdictsAreFinal
  <2>3. /\ loop'.pc = IF e[2] = "none" THEN "recheck" ELSE "finish"
        /\ loop'.target = loop.target /\ loop'.settled = loop.settled /\ loop'.halt = e[2]
    BY <1>0, <2>1 DEF Loop
  <2>4. loop.job \in DOMAIN db.recheck /\ db.recheck[loop.job] = "running"
    BY <1>3 DEF SaveRecheck, IInv, LoopInv
  <2>5. \A t \in 1 .. loop.target - 1 : db.finding[loop.job].target # t
    <3>1. loop.job \in DOMAIN db.finding
      BY <2>4 DEF IInv, TypeOK, TablesOK
    <3> QED BY <1>0, <2>4, <3>1 DEF TidyUpTo, Tidy, Issued
  <2>6. loop'.pc \in {"recheck", "resent"} \/ (loop'.pc = "finish" /\ loop'.halt # "none")
    BY <2>3
  <2> HIDE DEF TidyUpTo
  <2> QED BY <1>1, <2>1, <2>2, <2>3, <2>4, <2>5, <2>6
<1> QED BY <1>2, <1>3

(* A run that ended with nothing to do left every target tidy.              *)
RestTidy == run.status \in {"completed", "partially-failed"} => \A t \in Targets : Tidy(db, t)

LEMMA TidySteps ==
  ASSUME IInv, AnswersInv, RestInv, RowsInv, RechecksInv, TidyInv, [Next]_vars
  PROVE  TidyInv'
<1>0. /\ loop \in Loop
      /\ run \in [status : RunStatus, reason : Halt \cup {"internal-error", "backend-restarted"},
                  recheckOn : BOOLEAN]
  BY DEF IInv, TypeOK
<1>a. TidyUpTo(db, loop) /\ RestTidy
  BY DEF TidyInv, RestTidy
<1>b. ASSUME TidyUpTo(db', loop'), run'.status \notin {"completed", "partially-failed"}
      PROVE  TidyInv'
  BY <1>b DEF TidyInv
<1>c. ASSUME loop.pc # "off"
      PROVE  run.status \notin {"completed", "partially-failed"}
  BY <1>c DEF RestInv
<1>d. ASSUME loop'.pc = "off", ~loop'.settled
      PROVE  TidyUpTo(db', loop')
  BY <1>d DEF TidyUpTo
<1>1. CASE UNCHANGED vars
  BY <1>1 DEF vars, TidyInv, TidyUpTo
<1>2. CASE Moves
  <2>1. UNCHANGED <<db, run>> /\ loop.pc # "off"
    BY <1>2, MovesAre
  <2>2. TidyUpTo(db, loop')
    BY <1>2, <1>a, MovesTidy
  <2> QED BY <2>1, <2>2, <1>b, <1>c
<1>3. CASE StopRun
  <2>1. UNCHANGED <<db, run>> /\ loop.pc # "off"
        /\ loop'.pc = loop.pc /\ loop'.target = loop.target /\ loop'.persp = loop.persp
        /\ loop'.settled = loop.settled /\ loop'.halt = loop.halt
    BY <1>3, StopIs
  <2>2. TidyUpTo(db', loop')
    BY <1>a, <2>1 DEF TidyUpTo
  <2> QED BY <2>1, <2>2, <1>b, <1>c
<1>4. CASE StartRun \/ ResumeRun \/ RetryFailedUnits
  <2>1. Launch
    BY <1>4 DEF StartRun, ResumeRun, RetryFailedUnits
  <2>2. /\ loop'.pc = "scan" /\ loop'.target = 1 /\ loop'.persp = 1 /\ ~loop'.settled
        /\ run'.status = "running"
    BY <2>1, LaunchIs, LaunchStep
  <2>3. 1 .. loop'.target - 1 = {} /\ 1 .. loop'.persp - 1 = {}
    BY <2>2
  <2>4. TidyUpTo(db', loop')
    BY <2>2, <2>3 DEF TidyUpTo
  <2> QED BY <2>2, <2>4, <1>b
<1>5. CASE Judge
  <2>1. /\ SameRows(db, db') /\ db'.unit = db.unit /\ db'.recheck = db.recheck
        /\ loop' = loop /\ run' = run
    BY <1>5, JudgeTables DEF Judge
  <2>2. \A t : Tidy(db, t) => Tidy(db', t)
    BY <2>1, TidySame
  <2>3. \A t, p : Past(db, t, p) => Past(db', t, p)
    BY <2>1 DEF Past
  <2>4. Issued(db, loop.target, {}) => Issued(db', loop.target, {})
    BY <2>1 DEF Issued, SameRows
  <2>5. TidyUpTo(db', loop')
    BY <1>a, <2>1, <2>2, <2>3, <2>4 DEF TidyUpTo
  <2> QED BY <1>a, <2>1, <2>2, <2>5 DEF TidyInv, RestTidy
<1>6. CASE ClaimUnit \/ LoseUnit \/ CommitUnit
  <2>1. TidyUpTo(db', loop')
    BY <1>6, <1>a, UnitTidy
  <2>2. run' = run /\ loop.pc # "off"
    BY <1>6 DEF ClaimUnit, LoseUnit, CommitUnit
  <2> QED BY <2>1, <2>2, <1>b, <1>c
<1>7. CASE AnswerUnit
  <2>1. PICK a : loop' = [loop EXCEPT !.pc = "save", !.rest = a]
    BY <1>7 DEF AnswerUnit
  <2>2. /\ UNCHANGED <<db, run>> /\ loop.pc = "sent"
        /\ loop'.pc = "save" /\ loop'.target = loop.target /\ loop'.persp = loop.persp
        /\ loop'.settled = loop.settled
    BY <1>0, <1>7, <2>1 DEF AnswerUnit, Loop
  <2>3. TidyUpTo(db', loop')
    BY <1>a, <2>2 DEF TidyUpTo
  <2> QED BY <2>2, <2>3, <1>b, <1>c
<1>8. CASE SaveCandidate
  <2>1. TidyUpTo(db', loop')
    BY <1>8, <1>a, SaveTidy
  <2>2. run' = run /\ loop.pc # "off"
    BY <1>8 DEF SaveCandidate
  <2> QED BY <2>1, <2>2, <1>b, <1>c
<1>9. CASE IssueRechecks
  <2>1. TidyUpTo(db', loop')
    BY <1>9, <1>a, IssueTidy
  <2>2. run' = run /\ loop.pc # "off"
    BY <1>9 DEF IssueRechecks
  <2> QED BY <2>1, <2>2, <1>b, <1>c
<1>10. CASE ClaimRecheck \/ SaveRecheck
  <2>1. TidyUpTo(db', loop')
    BY <1>10, <1>a, RecheckTidy
  <2>2. run' = run /\ loop.pc # "off"
    BY <1>10 DEF ClaimRecheck, SaveRecheck
  <2> QED BY <2>1, <2>2, <1>b, <1>c
<1>11. CASE SavingFails \/ Restart
  <2>1. loop' = NoLoop
    BY <1>11 DEF SavingFails, Restart
  <2>2. loop'.pc = "off" /\ ~loop'.settled
    BY <2>1 DEF NoLoop
  <2>3. \/ run' = [run EXCEPT !.status = "recovery-waiting", !.reason = "backend-restarted"]
        \/ run' = [run EXCEPT !.status = "stopped", !.reason = "backend-restarted"]
        \/ run' = [run EXCEPT !.status = "stopped", !.reason = "internal-error"]
    BY <1>11 DEF SavingFails, Restart
  <2>4. run'.status \in {"stopped", "recovery-waiting"}
    BY <1>0, <2>3
  <2> QED BY <2>2, <2>4, <1>b, <1>d
<1>12. CASE FinalizeRun
  <2>1. loop' = NoLoop /\ loop.pc = "finish" /\ db' = db
    BY <1>12 DEF FinalizeRun
  <2>2. loop'.pc = "off" /\ ~loop'.settled
    BY <2>1 DEF NoLoop
  <2>3. run'.status \in {"completed", "partially-failed"} => loop.halt = "none"
    BY <1>0, <1>12 DEF FinalizeRun, Loop, Halt
  <2>4. RestTidy'
    BY <1>a, <2>1, <2>3 DEF TidyUpTo, RestTidy
  <2> QED BY <2>2, <2>4, <1>d DEF TidyInv, RestTidy
<1> QED BY <1>1, <1>2, <1>3, <1>4, <1>5, <1>6, <1>7, <1>8, <1>9, <1>10, <1>11, <1>12, NextIs

(* The inductive invariant of a run at rest                                 *)
ClosedInv == RestInv /\ RowsInv /\ RechecksInv /\ TidyInv

LEMMA InitClosed == Init => ClosedInv
<1> SUFFICES ASSUME Init PROVE ClosedInv
  OBVIOUS
<1>1. /\ db = NoTables /\ disk = NoTables /\ loop = NoLoop /\ run.status = "absent"
  BY DEF Init
<1>2. /\ db.unit = [u \in CheckUnits |-> "pending"] /\ db.candidate = <<>>
      /\ db.finding = <<>> /\ db.recheck = <<>>
  BY <1>1 DEF NoTables
<1>3. DOMAIN db.candidate = {} /\ DOMAIN db.finding = {} /\ DOMAIN db.recheck = {}
  BY <1>2
<1>4. loop.pc = "off" /\ ~loop.settled
  BY <1>1 DEF NoLoop
<1>5. RestInv
  BY <1>1, <1>4 DEF RestInv
<1>6. RowsInv
  BY <1>1, <1>3, <1>4 DEF RowsInv, UnlocatedApart, RowsAnswered
<1>7. RechecksInv
  BY <1>1, <1>2, <1>3 DEF RechecksInv, RechecksFit, UnderWay
<1>8. TidyInv
  BY <1>1, <1>4 DEF TidyInv, TidyUpTo
<1> QED BY <1>5, <1>6, <1>7, <1>8 DEF ClosedInv

LEMMA ClosedSteps ==
  ASSUME IInv, AnswersInv, ClosedInv, [Next]_vars
  PROVE  ClosedInv'
<1>1. loop.pc = "recheck" => \A f \in PendingRechecks : f \in DOMAIN db.recheck
  BY DEF ClosedInv, TidyInv, TidyUpTo, Issued, PendingRechecks, OfTarget
<1>2. RestInv'
  BY RestSteps DEF ClosedInv
<1>3. RowsInv'
  BY <1>1, RowsSteps DEF ClosedInv
<1>4. RechecksInv'
  BY <1>1, RechecksSteps DEF ClosedInv
<1>5. TidyInv'
  BY TidySteps DEF ClosedInv
<1> QED BY <1>2, <1>3, <1>4, <1>5 DEF ClosedInv

(* A run at rest has nothing of it under way and tells why it stopped; the  *)
(* rechecks told of it fit its findings and its setting; and a run that is  *)
(* completed or partially failed left every unit and every recheck of its   *)
(* findings ended (runLoop, issueRechecks, finalizeRun, reconcile).         *)
RestIsClosed ==
  loop.pc = "off" =>
    /\ db = disk
    /\ run.status # "running"
    /\ run.status = "stopped" => run.reason # "none"
    /\ \A u \in CheckUnits : db.unit[u] # "running"
    /\ \A f \in DOMAIN db.recheck :
         db.recheck[f] # "running" /\ RecheckFits(db, run.recheckOn, f)
    /\ run.status \in {"completed", "partially-failed"} => \A t \in Targets : Tidy(db, t)

-----------------------------------------------------------------------------
(* The theorems                                                             *)

LEMMA InitIInv == Init => IInv
<1> SUFFICES ASSUME Init PROVE IInv
  OBVIOUS
<1>1. PICK on \in RecheckSettings : run = [status |-> "absent", reason |-> "none", recheckOn |-> on]
  BY DEF Init
<1>2. on \in BOOLEAN
  BY StoreAssumption
<1>3. TablesOK(NoTables)
  BY DEF NoTables, TablesOK, UnitStatus
<1>4. TypeOK
  BY <1>1, <1>2, <1>3, NoLoopType, StoreAssumption DEF Init, TypeOK, RunStatus, Halt
<1>5. DOMAIN NoTables.finding = {} /\ DOMAIN NoTables.candidate = {}
  BY DEF NoTables
<1>6. Grouped(NoTables) /\ Grown(NoTables, NoTables)
  BY <1>5 DEF Grouped, RowsHaveFindings, FindingsHaveMakers, KeysDiffer, AggregatesOf, Grown
<1>7. LoopInv
  BY <1>1 DEF Init, LoopInv, NoLoop
<1> QED BY <1>4, <1>6, <1>7 DEF Init, IInv

LEMMA NextSteps == IInv /\ [Next]_vars => IInv' /\ Grown(disk, disk')
<1> SUFFICES ASSUME IInv, [Next]_vars PROVE Steps
  BY DEF Steps
<1>1. CASE UNCHANGED vars
  <2>1. ControlOK' /\ LoopInv'
    BY <1>1 DEF vars, IInv, TypeOK, ControlOK, LoopInv
  <2> QED BY <1>1, <2>1, QuietStep DEF vars
<1>2. CASE Next
  BY <1>2, StartStep, RetryStep, StopStep, JudgeStep, ScanSteps, ClaimUnitStep, AnswerStep,
     LoseStep, SaveStep, CommitStep, RollBackStep, IssueStep, ClaimRecheckStep,
     SaveRecheckStep, FinalizeStep DEF Next
<1> QED BY <1>1, <1>2

(* The tables, committed or not, the run's row and the loop keep their      *)
(* types whatever the model answers and wherever the process stops.         *)
THEOREM TypeCorrect == Spec => []TypeOK
<1>1. IInv => TypeOK
  BY DEF IInv
<1> QED BY <1>1, InitIInv, NextSteps, PTL DEF Spec

(* Saving candidates one by one, in whatever order, always leaves the       *)
(* findings one merge of all of them gives.                                 *)
THEOREM GroupsAlways == Spec => []FindingsAreGroups
<1>1. IInv => FindingsAreGroups
  BY GroupedIsGroups DEF IInv, TypeOK, FindingsAreGroups
<1> QED BY <1>1, InitIInv, NextSteps, PTL DEF Spec

(* No step takes back what the author has seen of a finding.                *)
THEOREM OnlyGrow == Spec => FindingsOnlyGrow
<1> QED BY InitIInv, NextSteps, PTL DEF Spec, FindingsOnlyGrow

(* A unit that is done has the candidates of its answer saved once, in      *)
(* order and as one block, and no other unit has any, whatever crashes,     *)
(* rollbacks, retries and resumptions there were.                           *)
THEOREM AnswersOnce == Spec => []AnswersSavedOnce
<1>1. AnswersInv => AnswersSavedOnce
  BY DEF AnswersInv
<1> QED BY <1>1, InitIInv, NextSteps, InitAnswers, AnswersSteps, PTL DEF Spec

(* A run at rest is closed: nothing of it is under way, and when it is      *)
(* completed nothing of it is left to do.                                   *)
THEOREM RestsClosed == Spec => []RestIsClosed
<1>1. Init => IInv /\ AnswersInv /\ ClosedInv
  BY InitIInv, InitAnswers, InitClosed
<1>2. IInv /\ AnswersInv /\ ClosedInv /\ [Next]_vars => (IInv /\ AnswersInv /\ ClosedInv)'
  BY NextSteps, AnswersSteps, ClosedSteps
<1>3. IInv /\ AnswersInv /\ ClosedInv => RestIsClosed
  <2> SUFFICES ASSUME IInv, ClosedInv, loop.pc = "off" PROVE RestIsClosed
    BY DEF RestIsClosed
  <2>1. db = disk
    BY DEF IInv, LoopInv
  <2>2. run.status # "running" /\ (run.status = "stopped" => run.reason # "none")
    BY DEF ClosedInv, RestInv
  <2>3. /\ \A u \in CheckUnits : db.unit[u] # "running"
        /\ \A f \in DOMAIN db.recheck :
             db.recheck[f] # "running" /\ RecheckFits(db, run.recheckOn, f)
    BY DEF ClosedInv, RechecksInv, RechecksFit, UnderWay
  <2>4. run.status \in {"completed", "partially-failed"} => \A t \in Targets : Tidy(db, t)
    BY DEF ClosedInv, TidyInv
  <2> QED BY <2>1, <2>2, <2>3, <2>4 DEF RestIsClosed
<1> QED BY <1>1, <1>2, <1>3, PTL DEF Spec
=============================================================================
