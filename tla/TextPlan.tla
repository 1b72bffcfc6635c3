------------------------------ MODULE TextPlan ------------------------------
(***************************************************************************)
(* The text algorithms shared by server, CLI and web: how a manuscript is  *)
(* cut into check targets, how much of it is sent along as context, where  *)
(* the quote of a finding is, and what is said of a quote that is nowhere. *)
(*                                                                         *)
(* A text is a sequence of code units; positions count from 0 and a range  *)
(* is a pair <<start, end>>, its end excluded.  What Intl.Segmenter and    *)
(* NFC do is shown by a few units: CR LF is one grapheme, and a combining  *)
(* voicing mark joins the unit before it, with "ka" to "ga" under NFC.     *)
(***************************************************************************)
EXTENDS Integers, Selections, SequencesExt

Plain      == {"a", "b", "ka", "ga"}
Terminals  == {"."}
Closers    == {")"}
Newlines   == {"cr", "lf"}
Mark       == "mark"
Units      == Plain \cup Terminals \cup Closers \cup Newlines \cup {Mark}

Null       == <<>>                    \* null, for a range or a context
RangeError == -1

Slice(text, r) == SubSeq(text, r[1] + 1, r[2])
UnitAt(text, o) == text[o + 1]
Whole(text) == <<0, Len(text)>>
Overlap(r, q) == r[1] < q[2] /\ q[1] < r[2]
Within(o, r) == r[1] <= o /\ o < r[2]

-----------------------------------------------------------------------------
(* Graphemes *)

Joins(x, y) == \/ x = "cr" /\ y = "lf"
               \/ x \notin Newlines /\ y = Mark

(* buildGraphemeIndex: the boundaries, as a set                             *)
Boundaries(text) ==
  {0, Len(text)} \cup {o \in 1 .. Len(text) - 1 : ~Joins(UnitAt(text, o - 1), UnitAt(text, o))}

Count(text) == Cardinality(Boundaries(text)) - 1

GraphemeAt(text, o) ==
  IF o \in Boundaries(text) THEN Cardinality({b \in Boundaries(text) : b < o}) ELSE RangeError

OffsetAt(text, g) ==
  IF g \in 0 .. Count(text) THEN CHOOSE b \in Boundaries(text) : GraphemeAt(text, b) = g
  ELSE RangeError

FloorBoundary(text, o) == Max({b \in Boundaries(text) : b <= o})
CeilBoundary(text, o)  == Min({b \in Boundaries(text) : b >= o})

-----------------------------------------------------------------------------
(* Paragraphs: the id of a paragraph is its place in the sequence, from 0.  *)
(* The newline that ends a paragraph belongs to it.                         *)

ParagraphEnds(text) ==
  {e \in 1 .. Len(text) :
     \/ e = Len(text)
     \/ text[e] = "lf"
     \/ text[e] = "cr" /\ text[e + 1] # "lf"}

SplitParagraphs(text) ==
  LET ends == ParagraphEnds(text)
      End(k) == CHOOSE e \in ends \cup {0} : Cardinality({d \in ends : d <= e}) = k
  IN [k \in 1 .. Cardinality(ends) |-> <<End(k - 1), End(k)>>]

ParagraphIds(text, r) ==
  {k - 1 : k \in {j \in DOMAIN SplitParagraphs(text) : Overlap(SplitParagraphs(text)[j], r)}}

ParagraphOf(text, o) ==
  (CHOOSE k \in DOMAIN SplitParagraphs(text) : Within(o, SplitParagraphs(text)[k])) - 1

-----------------------------------------------------------------------------
(* Cutting a text into targets.  Lengths are in graphemes; the tolerance is *)
(* in percent.                                                              *)

Settings == [target : Nat, context : Nat, recheckContext : Nat, tolerance : Nat, maxInput : Nat]

RoundingDelta(length, s) == (length * s.tolerance) \div 100

ValidSettings(s) ==
  /\ s.target >= 1
  /\ s.tolerance < 100
  /\ s.maxInput >= s.target + RoundingDelta(s.target, s)

(* findSentenceBoundaries: after the longest run that a terminal begins and *)
(* terminals and closing brackets continue                                  *)
SentenceBoundaries(text, r) ==
  {j \in r[1] + 1 .. r[2] - 1 :
     /\ j \in Boundaries(text)
     /\ UnitAt(text, j) \notin Terminals \cup Closers
     /\ \E i \in r[1] .. j - 1 :
          /\ UnitAt(text, i) \in Terminals
          /\ \A k \in i .. j - 1 : UnitAt(text, k) \in Terminals \cup Closers}

Distance(a, b) == IF a > b THEN a - b ELSE b - a

(* The candidate of the window that is nearest to the ideal; of two, the    *)
(* one farther from the target.                                             *)
ChooseBoundary(ideal, delta, candidates, outer) ==
  LET near == {c \in candidates : Distance(c, ideal) <= delta}
      best == {c \in near : \A d \in near : Distance(c, ideal) <= Distance(d, ideal)}
  IN CASE best = {}                        -> Null
       [] best # {} /\ outer = "larger"    -> <<Max(best)>>
       [] best # {} /\ outer = "smaller"   -> <<Min(best)>>

(* Paragraph, then sentence, then the ideal position itself                 *)
ChooseTargetEnd(text, cursor, ideal, delta) ==
  LET ends      == {GraphemeAt(text, e) : e \in ParagraphEnds(text)}
      scanEnd   == OffsetAt(text, Min({ideal + delta + 1, Count(text)}))
      sentences == {GraphemeAt(text, o) :
                      o \in SentenceBoundaries(text, <<OffsetAt(text, cursor), scanEnd>>)}
      paragraph == ChooseBoundary(ideal, delta, {e \in ends : e > cursor}, "larger")
      sentence  == ChooseBoundary(ideal, delta, sentences, "larger")
  IN CASE paragraph # Null                     -> paragraph[1]
       [] paragraph = Null /\ sentence # Null  -> sentence[1]
       [] OTHER                                -> ideal

MutantTargetEnd(text, s, cursor) ==
  LET delta == RoundingDelta(s.target, s) IN
  IF Count(text) - cursor <= s.target THEN Count(text)
  ELSE ChooseTargetEnd(text, cursor, cursor + s.target, delta)

(* The last target takes everything that is left.                           *)
TargetEnd(text, s, cursor) ==
  LET delta == RoundingDelta(s.target, s) IN
  IF Count(text) - cursor <= s.target + delta THEN Count(text)
  ELSE ChooseTargetEnd(text, cursor, cursor + s.target, delta)

(* planTargets: the ranges of the targets, in order                         *)
PlanTargets(text, s) ==
  LET count == Count(text)
      From[c \in 0 .. count] ==
        IF c = count THEN <<>>
        ELSE LET end == TargetEnd(text, s, c)
             IN <<<<OffsetAt(text, c), OffsetAt(text, end)>>>> \o From[end]
  IN From[0]

-----------------------------------------------------------------------------
(* What is sent along with a target *)

ContextBefore(text, t, length, s) ==
  LET start == GraphemeAt(text, t[1])
      ideal == start - length
      edge  == ChooseBoundary(ideal, RoundingDelta(length, s),
                 {b \in {GraphemeAt(text, p[1]) : p \in ToSet(SplitParagraphs(text))} : b < start},
                 "smaller")
  IN CASE start = 0 \/ length = 0 -> Null
       [] start # 0 /\ length # 0 /\ ideal <= 0 -> <<0, t[1]>>
       [] OTHER -> <<OffsetAt(text, IF edge = Null THEN ideal ELSE edge[1]), t[1]>>

ContextAfter(text, t, length, s) ==
  LET end   == GraphemeAt(text, t[2])
      ideal == end + length
      edge  == ChooseBoundary(ideal, RoundingDelta(length, s),
                 {b \in {GraphemeAt(text, e) : e \in ParagraphEnds(text)} : b > end}, "larger")
  IN CASE end = Count(text) \/ length = 0 -> Null
       [] end # Count(text) /\ length # 0 /\ ideal >= Count(text) -> <<t[2], Len(text)>>
       [] OTHER -> <<t[2], OffsetAt(text, IF edge = Null THEN ideal ELSE edge[1])>>

(* finishInput: too long an input is refused, never shortened.              *)
FinishInput(text, t, before, after, s) ==
  LET input    == <<IF before = Null THEN t[1] ELSE before[1],
                    IF after  = Null THEN t[2] ELSE after[2]>>
      required == GraphemeAt(text, input[2]) - GraphemeAt(text, input[1])
  IN [target |-> t, before |-> before, after |-> after, input |-> input,
      tooLong |-> required > s.maxInput]

BuildCheckInput(text, t, s) ==
  FinishInput(text, t, ContextBefore(text, t, s.context, s), ContextAfter(text, t, s.context, s), s)

MutantRecheckIgnoresInitial(text, initial, s) ==
  LET t == initial.target IN
  FinishInput(text, t, ContextBefore(text, t, s.recheckContext, s),
                       ContextAfter(text, t, s.recheckContext, s), s)

(* The recheck sees at least what the check saw.                            *)
BuildRecheckInput(text, initial, s) ==
  LET t      == initial.target
      before == ContextBefore(text, t, s.recheckContext, s)
      after  == ContextAfter(text, t, s.recheckContext, s)
      start  == Min({IF before = Null THEN t[1] ELSE before[1], initial.input[1]})
      end    == Max({IF after = Null THEN t[2] ELSE after[2], initial.input[2]})
  IN FinishInput(text, t, IF start < t[1] THEN <<start, t[1]>> ELSE Null,
                          IF end > t[2] THEN <<t[2], end>> ELSE Null, s)

-----------------------------------------------------------------------------
(* Where a quote is.  A reference has the paragraph the model names, the    *)
(* quote, and what it says stands before and after it.                      *)

MutantAllOccurrences(text, input, quote) ==
  {r \in {<<o, o + Len(quote)>> : o \in input[1] .. input[2] - Len(quote)} : Slice(text, r) = quote}

Occurrences(text, input, quote) ==
  {r \in {<<o, o + Len(quote)>> : o \in input[1] .. input[2] - Len(quote)} :
     Slice(text, r) = quote /\ {r[1], r[2]} \subseteq Boundaries(text)}

Strip(units) == Picked(units, {i \in DOMAIN units : units[i] \notin Newlines})

(* The hints that are given, each as the occurrences that agree with it     *)
Hints(text, input, ref, matches) ==
  LET before    == Strip(ref.before)
      after     == Strip(ref.after)
      paragraph == {m \in matches : ParagraphOf(text, m[1]) = ref.paragraph}
      preceded  == {m \in matches : IsSuffix(before, Strip(Slice(text, <<input[1], m[1]>>)))}
      followed  == {m \in matches : IsPrefix(after, Strip(Slice(text, <<m[2], input[2]>>)))}
  IN (IF ref.paragraph \in ParagraphIds(text, input) THEN <<paragraph>> ELSE <<>>)
     \o (IF before # <<>> THEN <<preceded>> ELSE <<>>)
     \o (IF after # <<>> THEN <<followed>> ELSE <<>>)

(* The hints narrow the occurrences down, one after the other, until one is *)
(* left or a hint contradicts all that are left.                            *)
Narrowed(matches, hints) ==
  LET Kept(k) == {m \in matches : \A i \in 1 .. k : m \in hints[i]}
      Ends(k) == k = Len(hints) \/ Cardinality(Kept(k)) = 1 \/ Kept(k + 1) = {}
  IN Kept(CHOOSE k \in 0 .. Len(hints) : Ends(k) /\ \A j \in 0 .. k - 1 : ~Ends(j))

LocateQuote(text, in, ref) ==
  LET matches == IF ref.quote = <<>> THEN {} ELSE Occurrences(text, in.input, ref.quote)
      left    == Narrowed(matches, Hints(text, in.input, ref, matches))
      inside  == {m \in left : Within(m[1], in.target)}
  IN CASE matches = {} -> [locate |-> "not-found", at |-> Null]
       [] matches # {} /\ inside = {} -> [locate |-> "outside-target", at |-> Null]
       [] inside # {} /\ Cardinality(left) = 1 ->
            [locate |-> "located", at |-> CHOOSE m \in left : TRUE]
       [] inside # {} /\ Cardinality(left) # 1 -> [locate |-> "ambiguous", at |-> Null]

-----------------------------------------------------------------------------
(* What is said of a quote that is nowhere *)

Transforms == <<"newline", "nfc", "newline+nfc">>

UnifyNewline(units) ==
  LET AfterCr(i) == i > 1 /\ units[i - 1] = "cr"
  IN Picked([i \in DOMAIN units |-> IF units[i] = "cr" THEN "lf" ELSE units[i]],
            {i \in DOMAIN units : ~(units[i] = "lf" /\ AfterCr(i))})

Nfc(units) ==
  LET Composed(i) == i \in 2 .. Len(units) /\ units[i] = Mark /\ units[i - 1] = "ka"
  IN Picked([i \in DOMAIN units |-> IF Composed(i + 1) THEN "ga" ELSE units[i]],
            {i \in DOMAIN units : ~Composed(i)})

ApplyTransform(units, transform) ==
  CASE transform = "newline"     -> UnifyNewline(units)
    [] transform = "nfc"         -> Nfc(units)
    [] transform = "newline+nfc" -> Nfc(UnifyNewline(units))

(* buildComparisonText: grapheme by grapheme; chunks are those that change. *)
ComparisonText(text, source, transform) ==
  LET from     == GraphemeAt(text, source[1])
      Cluster(k) == Slice(text, <<OffsetAt(text, from + k - 1), OffsetAt(text, from + k)>>)
      pieces   == [k \in 1 .. GraphemeAt(text, source[2]) - from |->
                     ApplyTransform(Cluster(k), transform)]
      Out(k)   == Len(FlattenSeq(SubSeq(pieces, 1, k)))
  IN [source |-> source, text |-> FlattenSeq(pieces),
      chunks |-> {[sourceStart |-> OffsetAt(text, from + k - 1),
                   sourceEnd   |-> OffsetAt(text, from + k),
                   outputStart |-> Out(k - 1), outputEnd |-> Out(k)] :
                  k \in {j \in DOMAIN pieces : pieces[j] # Cluster(j)}}]

(* chunkAt: the last chunk that begins at or before the offset              *)
ChunkAt(cmp, o) ==
  LET begun == {c \in cmp.chunks : c.outputStart <= o}
  IN {c \in begun : \A d \in begun : d.outputStart <= c.outputStart}

InsideChunk(cmp, o) == \E c \in ChunkAt(cmp, o) : c.outputStart < o /\ o < c.outputEnd

MutantMapsByStart(cmp, o) ==
  IF ChunkAt(cmp, o) = {} THEN cmp.source[1] + o
  ELSE LET c == CHOOSE d \in ChunkAt(cmp, o) : TRUE
       IN IF o = c.outputStart THEN c.sourceStart ELSE c.sourceStart + (o - c.outputStart)

(* mapToSource, for an offset that is not inside a chunk                    *)
MapToSource(cmp, o) ==
  IF ChunkAt(cmp, o) = {} THEN cmp.source[1] + o
  ELSE LET c == CHOOSE d \in ChunkAt(cmp, o) : TRUE
       IN IF o = c.outputStart THEN c.sourceStart ELSE c.sourceEnd + (o - c.outputEnd)

(* coverSource: the least range of whole graphemes around a match           *)
CoverSource(text, cmp, m) ==
  LET Chunk(o) == CHOOSE c \in ChunkAt(cmp, o) : TRUE
  IN <<IF InsideChunk(cmp, m[1]) THEN Chunk(m[1]).sourceStart
       ELSE FloorBoundary(text, MapToSource(cmp, m[1])),
       IF InsideChunk(cmp, m[2]) THEN Chunk(m[2]).sourceEnd
       ELSE CeilBoundary(text, MapToSource(cmp, m[2]))>>

OverlapsChunk(cmp, m) == \E c \in cmp.chunks : Overlap(<<c.outputStart, c.outputEnd>>, m)

(* findMatches: q is the quote as transformed.                              *)
TransformedMatches(text, cmp, quote, q) ==
  IF q = <<>> \/ (cmp.text = Slice(text, cmp.source) /\ q = quote) THEN {}
  ELSE {m \in {<<o, o + Len(q)>> : o \in 0 .. Len(cmp.text) - Len(q)} :
          Slice(cmp.text, m) = q /\ (q = quote => OverlapsChunk(cmp, m))}

(* The range a match stands for, if it begins and ends with graphemes       *)
SourceRange(text, cmp, m) ==
  LET r == <<MapToSource(cmp, m[1]), MapToSource(cmp, m[2])>> IN
  IF \/ InsideChunk(cmp, m[1]) \/ InsideChunk(cmp, m[2])
     \/ ~({r[1], r[2]} \subseteq Boundaries(text))
  THEN Null ELSE r

(* The matches of the quote under one transform                             *)
Traces(text, input, quote, transform) ==
  LET TracesIn(cmp) ==
        {[transform |-> transform, cover |-> CoverSource(text, cmp, m),
          range |-> SourceRange(text, cmp, m), found |-> m[1]] :
           m \in TransformedMatches(text, cmp, quote, ApplyTransform(quote, transform))}
  IN TracesIn(ComparisonText(text, input, transform))

(* Of the traces with one cover the first is kept.                          *)
Collected(text, input, quote) ==
  LET Under(i) == Traces(text, input, quote, Transforms[i])
      Fresh(i) == {t \in Under(i) :
                     /\ \A j \in 1 .. i - 1 : \A e \in Under(j) : e.cover # t.cover
                     /\ \A e \in Under(i) : e.cover = t.cover => t.found <= e.found}
  IN UNION {Fresh(i) : i \in DOMAIN Transforms}

DiagnosticLimit == 3

(* diagnoseQuote, of the traces found: nearest to the named paragraph first *)
Diagnosis(text, ref, found) ==
  LET exists == ref.paragraph \in 0 .. Len(SplitParagraphs(text)) - 1
      Far(t) == IF exists THEN Distance(ParagraphOf(text, t.cover[1]), ref.paragraph) ELSE 0
      Before(t, u) ==
        \/ Far(t) < Far(u)
        \/ Far(t) = Far(u) /\ t.cover[1] < u.cover[1]
        \/ Far(t) = Far(u) /\ t.cover[1] = u.cover[1] /\ t.cover[2] < u.cover[2]
      Rank(t) == Cardinality({u \in found : Before(u, t)})
  IN [candidates |-> {t \in found : Rank(t) < DiagnosticLimit},
      omitted    |-> Cardinality(found) - Cardinality({t \in found : Rank(t) < DiagnosticLimit}),
      tied       |-> \E t, u \in found : t # u /\ Far(t) = Far(u)]

DiagnoseQuote(text, input, ref) == Diagnosis(text, ref, Collected(text, input, ref.quote))

-----------------------------------------------------------------------------
(* findSuppression, for a finding about notation with a correction: one     *)
(* allowed word of the quote is replaced, and nothing else.                 *)
SwapsAllowedWord(quote, fix, words) ==
  \E w \in words \ {<<>>} :
    \E r \in Occurrences(quote, Whole(quote), w) :
      LET tail == Len(quote) - r[2]
          put  == SubSeq(fix, r[1] + 1, Len(fix) - tail)
      IN /\ r[1] + tail < Len(fix)
         /\ IsPrefix(Slice(quote, <<0, r[1]>>), fix)
         /\ IsSuffix(Slice(quote, <<r[2], Len(quote)>>), fix)
         /\ ~\E o \in 0 .. Len(put) - Len(w) : Slice(put, <<o, o + Len(w)>>) = w

-----------------------------------------------------------------------------
(* What is promised of a text cut with settings s *)

Length(text, r) == GraphemeAt(text, r[2]) - GraphemeAt(text, r[1])

(* The targets tile the text, whole graphemes each.  All but the last are   *)
(* as long as the settings say, the last two would not fit into one, and a  *)
(* target ends away from a paragraph's end only if none is within reach.    *)
Tiles(text, s) ==
  LET ts    == PlanTargets(text, s)
      delta == RoundingDelta(s.target, s)
      Cuts  == {ts[i][2] : i \in DOMAIN ts}
  IN /\ Cuts \subseteq Boundaries(text)
     /\ \A i \in DOMAIN ts : ts[i][1] = IF i = 1 THEN 0 ELSE ts[i - 1][2]
     /\ Len(text) = IF ts = <<>> THEN 0 ELSE ts[Len(ts)][2]
     /\ \A i \in DOMAIN ts :
          IF i = Len(ts) THEN Length(text, ts[i]) \in 1 .. s.target + delta
          ELSE /\ Distance(Length(text, ts[i]), s.target) <= delta
               /\ i + 1 = Len(ts) => Length(text, <<ts[i][1], Len(text)>>) > s.target + delta
               /\ \/ ts[i][2] \in ParagraphEnds(text)
                  \/ \A e \in ParagraphEnds(text) : e > ts[i][1] =>
                       Distance(Length(text, <<ts[i][1], e>>), s.target) > delta

(* A check sees its target and a recheck all that the check saw, in whole   *)
(* graphemes, and what is not refused is within the limit.                  *)
Nests(text, s) ==
  \A t \in ToSet(PlanTargets(text, s)) :
    LET check   == BuildCheckInput(text, t, s)
        recheck == BuildRecheckInput(text, check, s)
    IN /\ {check.input[1], check.input[2], recheck.input[1], recheck.input[2]}
             \subseteq Boundaries(text)
       /\ recheck.input[1] <= check.input[1] /\ check.input[1] <= t[1]
       /\ t[2] <= check.input[2] /\ check.input[2] <= recheck.input[2]
       /\ ~recheck.tooLong => ~check.tooLong /\ Length(text, recheck.input) <= s.maxInput

(* The passages of at most three graphemes a finding of a target may quote  *)
Passages(text, in) ==
  {r \in Boundaries(text) \X Boundaries(text) :
     /\ Within(r[1], in.target)
     /\ r[1] < r[2] /\ r[2] <= in.input[2]
     /\ Length(text, r) <= 3}

(* A quote that stands where the hints say is found there, unless it stands *)
(* elsewhere in the input in a place that the hints fit as well.            *)
Finds(text, s) ==
  \A t \in ToSet(PlanTargets(text, s)) :
    LET in == BuildCheckInput(text, t, s) IN
    \A r \in Passages(text, in) :
      \A paragraph \in {-1, ParagraphOf(text, r[1])},
         before \in {<<>>, Slice(text, <<Max({r[1] - 1, in.input[1]}), r[1]>>)},
         after  \in {<<>>, Slice(text, <<r[2], Min({r[2] + 1, in.input[2]})>>)} :
        LET ref   == [paragraph |-> paragraph, quote |-> Slice(text, r),
                      before |-> before, after |-> after]
            all   == {m \in Boundaries(text) \X Boundaries(text) :
                        /\ in.input[1] <= m[1] /\ m[1] < m[2] /\ m[2] <= in.input[2]
                        /\ Slice(text, m) = ref.quote}
            hints == Hints(text, in.input, ref, all)
            fits  == {m \in all : \A i \in DOMAIN hints : m \in hints[i]}
        IN LocateQuote(text, in, ref) =
             IF fits = {r} THEN [locate |-> "located", at |-> r]
                           ELSE [locate |-> "ambiguous", at |-> Null]

(* A passage that is quoted with other newlines or in composed form is      *)
(* found, or its place is among those the diagnosis collects; and where the *)
(* diagnosis points at a range, the range does read so.  (The place may     *)
(* come without a range: an earlier transform may have matched from inside  *)
(* one of its graphemes, and of two traces with one place the first stays.) *)
Traced(text, s) ==
  \A t \in ToSet(PlanTargets(text, s)) :
    LET in == BuildCheckInput(text, t, s) IN
    \A r \in Passages(text, in) : \A transform \in ToSet(Transforms) :
      LET ref   == [paragraph |-> ParagraphOf(text, r[1]), before |-> <<>>, after |-> <<>>,
                    quote |-> ApplyTransform(Slice(text, r), transform)]
          Fits(told, found) ==
            /\ r \in {c.cover : c \in found}
            /\ told.omitted = 0 => told.candidates = found
            /\ \A c \in found : c.range # Null =>
                 ApplyTransform(Slice(text, c.range), c.transform)
                   = ApplyTransform(ref.quote, c.transform)
      IN LocateQuote(text, in, ref).locate = "not-found" =>
           Fits(DiagnoseQuote(text, in.input, ref), Collected(text, in.input, ref.quote))
=============================================================================
