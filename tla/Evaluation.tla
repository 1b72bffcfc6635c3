----------------------------- MODULE Evaluation -----------------------------
(***************************************************************************)
(* How findings are judged: the findings of a result, of the CLI's own or  *)
(* of an adapted export, are matched with the entries of a truth file and  *)
(* scored, and the scores of several runs are aggregated.                  *)
(***************************************************************************)
EXTENDS Merging, TextPlan

-----------------------------------------------------------------------------
(* resolveTruthEntries: an entry of the truth file names a paragraph and    *)
(* the occurrence of a quote in it, [id, kind, perspective, paragraph,      *)
(* quote, occurrence].  A file with one entry that cannot be resolved, or   *)
(* an error that overlaps what is declared normal, is refused whole.        *)

(* findQuoteMatches: within the paragraph, at grapheme boundaries           *)
TruthMatches(text, entry) ==
  Occurrences(text, SplitParagraphs(text)[entry.paragraph + 1], entry.quote)

Resolvable(text, entry) ==
  /\ entry.paragraph \in 0 .. Len(SplitParagraphs(text)) - 1
  /\ Cardinality(TruthMatches(text, entry)) >= entry.occurrence

Resolved(text, entry) ==
  LET matches == TruthMatches(text, entry) IN
  [id |-> entry.id, kind |-> entry.kind, perspective |-> entry.perspective,
   range |-> CHOOSE m \in matches :
               Position(matches, LAMBDA r, q : r[1] < q[1], m) = entry.occurrence]

ResolveTruthEntries(text, entries) ==
  LET resolved == {Resolved(text, e) : e \in {x \in entries : Resolvable(text, x)}}
  IN IF /\ \A e \in entries : Resolvable(text, e)
        /\ \A a, b \in resolved : a.kind # b.kind => ~Overlap(a.range, b.range)
     THEN resolved ELSE {}

-----------------------------------------------------------------------------
(* Matching findings with the errors of the truth file *)

(* maximumMatching.  edges is a sequence of <<finding, entry>>; matched is  *)
(* a partial function from entries to findings.                             *)
Neighbours(edges, left) ==
  LET own == SelectSeq(edges, LAMBDA e : e[1] = left)
  IN [i \in DOMAIN own |-> own[i][2]]

LeftOrder(edges) ==
  LET first == SelectSeq([i \in DOMAIN edges |-> i],
                         LAMBDA i : \A j \in 1 .. i - 1 : edges[j][1] # edges[i][1])
  IN [k \in DOMAIN first |-> edges[first[k]][1]]

Assign(matched, right, left) ==
  [r \in DOMAIN matched \cup {right} |-> IF r = right THEN left ELSE matched[r]]

MutantGreedy(edges, left, state) ==
  LET Try(s, right) ==
        IF s.found \/ right \in DOMAIN s.matched THEN s
        ELSE [s EXCEPT !.found = TRUE, !.matched = Assign(@, right, left)]
  IN FoldLeft(Try, [state EXCEPT !.found = FALSE], Neighbours(edges, left))

(* augment: along the first path that frees an entry, each is reassigned.   *)
RECURSIVE Augment(_, _, _)
Augment(edges, left, state) ==
  LET Try(s, right) ==
        IF s.found \/ right \in s.visited THEN s
        ELSE LET seen == [s EXCEPT !.visited = @ \cup {right}] IN
             IF right \notin DOMAIN s.matched
             THEN [seen EXCEPT !.found = TRUE, !.matched = Assign(@, right, left)]
             ELSE LET freed == Augment(edges, s.matched[right], seen) IN
                  IF freed.found THEN [freed EXCEPT !.matched = Assign(@, right, left)]
                  ELSE freed
  IN FoldLeft(Try, [state EXCEPT !.found = FALSE], Neighbours(edges, left))

MaximumMatching(edges) ==
  LET Step(matched, left) ==
        Augment(edges, left, [found |-> FALSE, visited |-> {}, matched |-> matched]).matched
  IN FoldLeft(Step, <<>>, LeftOrder(edges))

-----------------------------------------------------------------------------
(* scoreRun.  findings is a sequence of Pipeline's findings, entries a set  *)
(* of resolved truth entries.                                               *)

OfKind(entries, kind) == {e \in entries : e.kind = kind}

OverlapLength(r, q) == Min({r[2], q[2]}) - Max({r[1], q[1]})

OverlapKind(r, truth) ==
  CASE r = truth -> "exact"
    [] r # truth /\ r[1] <= truth[1] /\ r[2] >= truth[2] -> "containsTruth"
    [] r # truth /\ r[1] >= truth[1] /\ r[2] <= truth[2] -> "containedInTruth"
    [] OTHER -> "partial"

Hits(finding, entries) == {e \in entries : Overlap(finding.at, e.range)}

(* The edges by overlap, longest first, then start and id of the entry,     *)
(* then the finding's place                                                 *)
Edges(findings, errors) ==
  LET all == {<<k, e>> \in (DOMAIN findings) \X errors : e \in Hits(findings[k], errors)}
      Weight(x) == OverlapLength(findings[x[1]].at, x[2].range)
      Before(x, y) ==
        \/ Weight(x) > Weight(y)
        \/ /\ Weight(x) = Weight(y)
           /\ \/ x[2].range[1] < y[2].range[1]
              \/ x[2].range[1] = y[2].range[1] /\ x[2].id < y[2].id
              \/ x[2] = y[2] /\ x[1] < y[1]
  IN Sorted(all, Before)

SolveDetection(findings, errors) ==
  LET found == [e \in errors |-> {k \in DOMAIN findings : e \in Hits(findings[k], errors)}]
      Extra == {<<e, k>> \in errors \X DOMAIN findings :
                  k \in found[e] /\ \E j \in found[e] : j < k}
  IN [matched    |-> MaximumMatching(Edges(findings, errors)),
      loose      |-> {e \in errors : found[e] # {}},
      duplicates |-> Cardinality(Extra)]

(* scoreFindingSet, from the detection as solved                            *)
CountFindings(findings, errors, normals, solved) ==
  LET matched == solved.matched
      Own(p)  == SolveDetection(SelectSeq(findings, LAMBDA f : p \in f.perspectives),
                                {e \in errors : e.perspective = p})
      false   == {k \in DOMAIN findings : Hits(findings[k], errors) = {}}
  IN [count      |-> Len(findings),
      matched    |-> matched,
      detected   |-> Cardinality(DOMAIN matched),
      loose      |-> Cardinality(solved.loose),
      duplicates |-> solved.duplicates,
      detectedBy |-> [p \in Perspectives |-> Cardinality(DOMAIN Own(p).matched)],
      kinds      |-> [kind \in {"exact", "containsTruth", "containedInTruth", "partial"} |->
                        Cardinality({e \in DOMAIN matched :
                          OverlapKind(findings[matched[e]].at, e.range) = kind})],
      missed     |-> errors \ DOMAIN matched,
      multiple   |-> {k \in DOMAIN findings : Cardinality(Hits(findings[k], errors)) > 1},
      onNormal   |-> {k \in false : Hits(findings[k], normals) # {}},
      other      |-> {k \in false : Hits(findings[k], normals) = {}},
      likely     |-> {k \in false : findings[k].verdict = "likely-error"},
      confirm    |-> {k \in false : findings[k].verdict = "confirm-with-author"}]

ScoreFindingSet(findings, entries) ==
  LET errors == OfKind(entries, "error") IN
  CountFindings(findings, errors, OfKind(entries, "normal"), SolveDetection(findings, errors))

MutantOnlyKeptCount(f) == f.status # "keep"
Withdrawn(f) == f.status = "withdraw"

(* A finding held back by an allowed word is not shown, and is scored apart; *)
(* only a recheck that withdrew a finding takes it out of the second set.    *)
ScoreRun(shown, entries) ==
  LET errors    == OfKind(entries, "error")
      normals   == OfKind(entries, "normal")
      evaluated == SelectSeq(shown, LAMBDA f : ~f.finding.suppressed)
      held      == SelectSeq(shown, LAMBDA f : f.finding.suppressed)
      Findings(seq) == [k \in DOMAIN seq |-> seq[k].finding]
      True(f)   == Hits(f.finding, errors) # {}
      Kept(f)   == f.status \in RecheckVerdicts /\ ~Withdrawn(f)
  IN [before  |-> ScoreFindingSet(Findings(evaluated), entries),
      after   |-> ScoreFindingSet(
                    Findings(SelectSeq(evaluated, LAMBDA f : ~Withdrawn(f))), entries),
      effect  |-> [withdrewTrue  |-> Number(evaluated, LAMBDA f : Withdrawn(f) /\ True(f)),
                   keptTrue      |-> Number(evaluated, LAMBDA f : Kept(f) /\ True(f)),
                   withdrewFalse |-> Number(evaluated, LAMBDA f : Withdrawn(f) /\ ~True(f)),
                   keptFalse     |-> Number(evaluated, LAMBDA f : Kept(f) /\ ~True(f))],
      unchecked |-> [s \in {"failed", "pending", "disabled"} |->
                       Number(evaluated, LAMBDA f : f.status = s)],
      held    |-> [true   |-> Number(held, True),
                   normal |-> Number(held, LAMBDA f : ~True(f) /\ Hits(f.finding, normals) # {}),
                   other  |-> Number(held, LAMBDA f : ~True(f) /\ Hits(f.finding, normals) = {})]]

-----------------------------------------------------------------------------
(* aggregateRuns: the scores of several runs of one manuscript, each run    *)
(* [conditions, model, status, score].  A rate is a pair <<part, whole>>,   *)
(* Null if the whole is 0, and a count is a rate of 1.                      *)

Rate(part, whole) == IF whole = 0 THEN Null ELSE <<part, whole>>

(* checkRunConditions: the settings are the same, and so is the model       *)
(* wherever it is known.                                                    *)
SameConditions(runs) ==
  \A r, q \in ToSet(runs) :
    /\ r.conditions = q.conditions
    /\ "null" \in {r.model, q.model} \/ r.model = q.model

Median(sorted) ==
  LET n == Len(sorted)
      low  == sorted[(n + 1) \div 2]
      high == sorted[(n + 2) \div 2]
  IN IF n % 2 = 1 THEN low
     ELSE <<low[1] * high[2] + high[1] * low[2], 2 * low[2] * high[2]>>

(* A run without the rate counts as one, and nowhere else.                  *)
AggregateRate(rates) ==
  LET known  == SelectSeq(rates, LAMBDA r : r # Null)
      sorted == SortSeq(known, LAMBDA r, q : r[1] * q[2] < q[1] * r[2])
  IN [available   |-> Len(known),
      unavailable |-> Len(rates) - Len(known),
      spread      |-> IF known = <<>> THEN Null
                      ELSE <<sorted[1], Median(sorted), Last(sorted)>>]

AggregateNumber(values) == AggregateRate([i \in DOMAIN values |-> Rate(values[i], 1)])

Errors(set) == set.missed \cup DOMAIN set.matched

AggregateFindingSet(sets) ==
  LET Rates(Part(_), OfAll(_)) ==
        AggregateRate([i \in DOMAIN sets |-> Rate(Part(sets[i]), OfAll(sets[i]))])
      Numbers(Value(_)) == AggregateNumber([i \in DOMAIN sets |-> Value(sets[i])])
      All(s) == Cardinality(Errors(s))
  IN [detected   |-> Rates(LAMBDA s : s.detected, All),
      loose      |-> Rates(LAMBDA s : s.loose, All),
      false      |-> Rates(LAMBDA s : Cardinality(s.onNormal \cup s.other), LAMBDA s : s.count),
      count      |-> Numbers(LAMBDA s : s.count),
      duplicates |-> Numbers(LAMBDA s : s.duplicates),
      detectedBy |-> [p \in Perspectives |->
                        Rates(LAMBDA s : s.detectedBy[p],
                              LAMBDA s : Cardinality({e \in Errors(s) : e.perspective = p}))],
      likely     |-> Numbers(LAMBDA s : Cardinality(s.likely)),
      confirm    |-> Numbers(LAMBDA s : Cardinality(s.confirm))]

(* computeDetectionFrequency: by entry, the runs that detected it           *)
DetectionFrequency(scores) ==
  [e \in UNION {Errors(s.after) : s \in ToSet(scores)} |->
     Number(scores, LAMBDA s : e \in DOMAIN s.after.matched)]

AggregateRuns(runs) ==
  LET scores == [i \in DOMAIN runs |-> runs[i].score]
      Counts(Group(_)) ==
        [k \in DOMAIN Group(scores[1]) |->
           AggregateNumber([i \in DOMAIN scores |-> Group(scores[i])[k]])]
  IN IF ~SameConditions(runs) THEN Null
     ELSE [notices   |-> {i \in DOMAIN runs : runs[i].status # "completed"},
           before    |-> AggregateFindingSet([i \in DOMAIN scores |-> scores[i].before]),
           after     |-> AggregateFindingSet([i \in DOMAIN scores |-> scores[i].after]),
           effect    |-> Counts(LAMBDA s : s.effect),
           unchecked |-> Counts(LAMBDA s : s.unchecked),
           held      |-> Counts(LAMBDA s : s.held),
           frequency |-> DetectionFrequency(scores)]

-----------------------------------------------------------------------------
(* What is promised *)

Matchings(findings, errors) ==
  {m \in SUBSET ((DOMAIN findings) \X errors) :
     /\ \A x \in m : x[2] \in Hits(findings[x[1]], errors)
     /\ \A x, y \in m : x # y => x[1] # y[1] /\ x[2] # y[2]}

(* Nothing is counted too low: as many errors are detected as any pairing   *)
(* of findings with errors allows, each by a finding of its own that        *)
(* overlaps it; and the counts the report shows fit together.               *)
DetectsBy(score, findings, errors) ==
  /\ \A m \in Matchings(findings, errors) : Cardinality(m) <= score.detected
  /\ {<<score.matched[e], e>> : e \in DOMAIN score.matched} \in Matchings(findings, errors)
  /\ score.kinds["exact"] + score.kinds["containsTruth"] + score.kinds["containedInTruth"]
       + score.kinds["partial"] = score.detected
  /\ score.detected <= score.loose
  /\ score.loose + score.duplicates
       = Cardinality({x \in (DOMAIN findings) \X errors : x[2] \in Hits(findings[x[1]], errors)})
  /\ score.likely \cup score.confirm = score.onNormal \cup score.other
  /\ \A p \in Perspectives : score.detectedBy[p] <= score.detected

Detects(findings, entries) ==
  DetectsBy(ScoreFindingSet(findings, entries), findings, OfKind(entries, "error"))

(* Every finding a run shows is counted once: withdrawn or kept, or with    *)
(* its recheck failed, pending or switched off, or as held back.            *)
AddsUpTo(shown, score) ==
  LET e == score.effect
      rechecked == e.withdrewTrue + e.keptTrue + e.withdrewFalse + e.keptFalse
  IN /\ score.before.count = rechecked + score.unchecked["failed"]
          + score.unchecked["pending"] + score.unchecked["disabled"]
     /\ score.after.count = score.before.count - e.withdrewTrue - e.withdrewFalse
     /\ score.after.detected <= score.before.detected
     /\ score.before.count + score.held.true + score.held.normal + score.held.other = Len(shown)

AddsUp(shown, entries) == AddsUpTo(shown, ScoreRun(shown, entries))

(* The aggregate is about the runs it is made of: the entries' frequencies  *)
(* count the detections of all runs, no spread leaves a run out, and at     *)
(* least half of the runs lie on either side of a median.                   *)
AggregatesAs(all, runs) ==
  LET Leq(r, q) == r[1] * q[2] <= q[1] * r[2]
      Spans(aggregate, rates) ==
        LET known == SelectSeq(rates, LAMBDA r : r # Null) IN
        /\ aggregate.available + aggregate.unavailable = Len(runs)
        /\ known # <<>> =>
             LET spread == aggregate.spread IN
             /\ \A r \in ToSet(known) : Leq(spread[1], r) /\ Leq(r, spread[3])
             /\ 2 * Number(known, LAMBDA r : Leq(r, spread[2])) >= Len(known)
             /\ 2 * Number(known, LAMBDA r : Leq(spread[2], r)) >= Len(known)
      After(i) == runs[i].score.after
  IN all # Null =>
       /\ MapThenSumSet(LAMBDA e : all.frequency[e], DOMAIN all.frequency)
            = MapThenSumSet(LAMBDA i : After(i).detected, DOMAIN runs)
       /\ Spans(all.after.detected,
                [i \in DOMAIN runs |-> Rate(After(i).detected, Cardinality(Errors(After(i))))])
       /\ Spans(all.after.false,
                [i \in DOMAIN runs |->
                   Rate(Cardinality(After(i).onNormal \cup After(i).other), After(i).count)])
       /\ Spans(all.after.count, [i \in DOMAIN runs |-> Rate(After(i).count, 1)])

Aggregates(runs) == AggregatesAs(AggregateRuns(runs), runs)
=============================================================================
