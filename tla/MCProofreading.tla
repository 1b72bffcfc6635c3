--------------------------- MODULE MCProofreading ---------------------------
(* Small texts, and one manuscript of two targets with what a model may     *)
(* remark on it.                                                            *)
EXTENDS Scores

Loose == [target |-> 2, context |-> 1, recheckContext |-> 2, tolerance |-> 50, maxInput |-> 9]
Tight == [target |-> 3, context |-> 2, recheckContext |-> 1, tolerance |-> 0, maxInput |-> 5]

Blocks == {<<"a">>, <<".">>, <<"cr", "lf">>, <<"ka", "mark">>}

Longer == {<<"a", "b", ".", ")", "a", "b", "lf", "a", "b">>,
           <<"a", ".", ".", ")", "b", "cr", "lf", "lf", "a", "b", "a">>,
           <<"a", "b", "b", "mark", "ka", "mark", "cr", "ga", "lf">>}

MCText  == <<"a", "b", "lf", "a", "ga", "b">>
MCMain  == [text |-> MCText, settings |-> Loose]

MCSamples ==
  {MCMain} \cup
  [text : Longer \cup {FlattenSeq(bs) : bs \in UNION {[1 .. k -> Blocks] : k \in 0 .. 3}},
   settings : {Loose, Tight}]

-----------------------------------------------------------------------------
(* The constants of checking are written out, and MainAsPlanned says that   *)
(* they are what planning and locating give for the main text: computed     *)
(* where they are used, they would be computed at every step.               *)
MCNumTargets == 2

Located(range, fix, category, verdict) ==
  [locate |-> "located", at |-> range, fix |-> fix, category |-> category, verdict |-> verdict]
Unlocated(why, fix, category, verdict) ==
  [locate |-> why, at |-> <<>>, fix |-> fix, category |-> category, verdict |-> verdict]

Swap(category, verdict) == Located(<<0, 1>>, "b", category, verdict)
Both    == Located(<<0, 2>>, "null", "grammar", "likely-error")
Nowhere == Unlocated("not-found", "null", "unclear", "likely-error")
Beyond  == Unlocated("outside-target", "b", "notation", "likely-error")
Unclear == Unlocated("ambiguous", "null", "particle", "likely-error")
End     == Located(<<4, 6>>, "b", "particle", "confirm-with-author")

MCAnswersTo ==
  [u \in {1, 2} \X {1, 2} |->
     CASE u = <<1, 1>> -> {<<Both, Swap("notation", "likely-error")>>}
       [] u = <<1, 2>> -> {<<Swap("grammar", "confirm-with-author"), Nowhere>>,
                           <<Swap("notation", "confirm-with-author"), Beyond, Unclear>>}
       [] u = <<2, 1>> -> {<<End>>}
       [] OTHER -> {<<>>}]

MCRanges       == {<<0, 1>>, <<0, 2>>, <<4, 6>>}
MCAllowedSwaps == {<<<<0, 1>>, "b">>}

MCLimits == {9, 4, 3}
MCLongChecks ==
  [m \in {"split", "split-recheck", "full-text"} \X MCLimits |->
     CASE m[1] = "full-text" /\ m[2] < 6 -> {1}
       [] m[1] # "full-text" /\ m[2] < 4 -> {1, 2}
       [] OTHER -> {}]
MCLongRechecks == [limit \in MCLimits |-> IF limit < 6 THEN {1, 2} ELSE {}]

Plan           == PlanTargets(MCText, Loose)
Input(t)       == BuildCheckInput(MCText, Plan[t], Loose)
Limited(limit) == [Loose EXCEPT !.maxInput = limit]

(* The model says of the passage in a paragraph of a target's input what    *)
(* the candidate says of its place.                                         *)
Places(t, paragraph, quote, cand) ==
  LocateQuote(MCText, Input(t), [paragraph |-> paragraph, quote |-> quote,
                                 before |-> <<>>, after |-> <<>>])
    = [locate |-> cand.locate, at |-> cand.at]

FixText == [b |-> <<"b">>]

ASSUME MainAsPlanned ==
  /\ Len(Plan) = MCNumTargets
  /\ Places(1, 0, <<"a">>, Swap("grammar", "likely-error"))
  /\ Places(1, 0, <<"a", "b">>, Both)
  /\ Places(1, 0, <<"ka", "mark">>, Nowhere)
  /\ Places(1, 1, <<"a">>, Beyond)
  /\ Places(1, 7, <<"a">>, Unclear)
  /\ Places(2, 1, <<"ga", "b">>, End)
  /\ MCAllowedSwaps =
       {<<r, f>> \in MCRanges \X DOMAIN FixText :
          SwapsAllowedWord(Slice(MCText, r), FixText[f], {<<"a">>})}
  /\ \A limit \in MCLimits :
       /\ MCLongChecks["full-text", limit] = {t \in {1} : Count(MCText) > limit}
       /\ \A m \in {"split", "split-recheck"} : MCLongChecks[m, limit] =
            {t \in {1, 2} : BuildCheckInput(MCText, Plan[t], Limited(limit)).tooLong}
       /\ MCLongRechecks[limit] =
            {t \in {1, 2} : BuildRecheckInput(MCText, Input(t), Limited(limit)).tooLong}

-----------------------------------------------------------------------------
Entry(id, kind, perspective, paragraph, quote) ==
  [id |-> id, kind |-> kind, perspective |-> perspective, paragraph |-> paragraph,
   quote |-> quote, occurrence |-> 1]

MCTruth == {Entry(1, "error", 1, 0, <<"a">>), Entry(2, "error", 2, 0, <<"b">>),
            Entry(3, "normal", 1, 1, <<"ga">>)}

(* Two earlier runs, one of which found the first error                     *)
Found(r, verdict) ==
  [finding |-> [target |-> 1, at |-> r, fix |-> "null", category |-> "grammar",
                verdict |-> verdict, perspectives |-> {1}, size |-> 1, suppressed |-> FALSE],
   status |-> "keep"]
MCEarlier ==
  <<[conditions |-> "split-recheck", model |-> "null", status |-> "completed",
     findings |-> <<Found(<<0, 1>>, "likely-error"), Found(<<3, 4>>, "confirm-with-author")>>],
    [conditions |-> "split-recheck", model |-> "known", status |-> "stopped",
     findings |-> <<>>]>>
=============================================================================
