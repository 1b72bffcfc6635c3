------------------------------ MODULE Merging ------------------------------
(***************************************************************************)
(* Candidates, and the findings they are merged into.  A candidate is one  *)
(* remark of one answer of the model, after its quote was looked for in    *)
(* the manuscript.  Candidates with the same range and the same correction *)
(* become one finding; the quote is the manuscript's text at the range, so *)
(* the range stands for both.  Wording (reasons, prefixes) is left out.    *)
(*                                                                         *)
(* The rules are stated here once for a whole batch of candidates, as      *)
(* mergeCandidates has them.  FindingStore applies them one candidate at a *)
(* time, as the server does.                                               *)
(***************************************************************************)
EXTENDS Selections

CONSTANTS Ranges,           \* ranges of the manuscript a quote may be found at
          Fixes,            \* corrections the model may propose
          AllowedSwaps,     \* <<range, correction>> that replace one allowed word
          NumTargets,       \* check targets of the manuscript
          NumPerspectives,  \* perspectives each target is checked under
          AnswersTo,        \* per check unit, the answers the model may give
          RecheckVerdicts   \* verdicts a recheck may end with

NoFix   == "null"
NoRange == <<>>
NoKey   == <<>>

Categories == {"notation", "omission-or-duplication", "particle", "grammar",
               "context-misuse", "unclear"}
Verdicts   == {"likely-error", "confirm-with-author"}

LocateFailures == {"not-found", "ambiguous", "outside-target"}

LocatedCandidate ==
  [locate : {"located"}, at : Ranges, fix : Fixes \cup {NoFix},
   category : Categories, verdict : Verdicts]
UnlocatedCandidate ==
  [locate : LocateFailures, at : {NoRange}, fix : Fixes \cup {NoFix},
   category : Categories, verdict : Verdicts]
Candidate == LocatedCandidate \cup UnlocatedCandidate

Targets      == 1 .. NumTargets
Perspectives == 1 .. NumPerspectives
CheckUnits   == Targets \X Perspectives

ASSUME MergingAssumption ==
  /\ Ranges \subseteq Nat \X Nat
  /\ "null" \notin Fixes
  /\ AllowedSwaps \subseteq Ranges \X Fixes
  /\ NumTargets \in Nat \ {0}
  /\ NumPerspectives \in Nat \ {0}
  /\ AnswersTo \in [CheckUnits -> SUBSET Seq(Candidate)]
  /\ RecheckVerdicts \subseteq {"keep", "confirm-with-author", "withdraw"}

IsLocated(c) == c.locate = "located"

(* A quote is located only where it begins within the range of the unit's   *)
(* target, and the targets tile the manuscript: answers about different     *)
(* targets are never located at the same range (locateQuote, planTargets).  *)
ASSUME PlacesAssumption ==
  \A u, w \in CheckUnits :
    \A a \in AnswersTo[u], b \in AnswersTo[w] :
      \A i \in DOMAIN a, j \in DOMAIN b :
        IsLocated(a[i]) /\ IsLocated(b[j]) /\ a[i].at = b[j].at => u[1] = w[1]

(* mergeKey: without a correction there is nothing two candidates share.    *)
MergeKey(c) == IF c.fix = NoFix THEN NoKey ELSE <<c.at, c.fix>>
Key == {NoKey} \cup (Ranges \X Fixes)

(* findSuppression: only a finding about notation is held back, and only    *)
(* when its correction swaps an allowed word.                               *)
Suppressed(category, at, fix) ==
  category = "notation" /\ <<at, fix>> \in AllowedSwaps

-----------------------------------------------------------------------------
(* The batch.  cands is a sequence of located candidates; a group is named  *)
(* by the position of its first member.                                     *)

SameGroup(cands, i, j) ==
  i = j \/ (MergeKey(cands[i]) # NoKey /\ MergeKey(cands[i]) = MergeKey(cands[j]))

Members(cands, i) == {j \in DOMAIN cands : SameGroup(cands, i, j)}

(* The finding of the group whose first member is i.                        *)
MergedFinding(cands, i) ==
  [sources  |-> Members(cands, i),
   at       |-> cands[i].at,
   fix      |-> cands[i].fix,
   category |-> IF \A j \in Members(cands, i) : cands[j].category = cands[i].category
                THEN cands[i].category ELSE "unclear",
   verdict  |-> IF \A j \in Members(cands, i) : cands[j].verdict = "likely-error"
                THEN "likely-error" ELSE "confirm-with-author"]

Heads(cands) == {i \in DOMAIN cands : \A j \in Members(cands, i) : i <= j}

Precedes(cands, i, j) ==
  \/ cands[i].at[1] < cands[j].at[1]
  \/ cands[i].at[1] = cands[j].at[1] /\ cands[i].at[2] < cands[j].at[2]
  \/ cands[i].at = cands[j].at /\ i < j

(* mergeCandidates: the findings by start, end and first candidate.         *)
MergeCandidates(cands) ==
  LET Rank(i) == Cardinality({j \in Heads(cands) : Precedes(cands, j, i)}) + 1
  IN  [k \in 1 .. Cardinality(Heads(cands)) |->
         MergedFinding(cands, CHOOSE i \in Heads(cands) : Rank(i) = k)]
=============================================================================
