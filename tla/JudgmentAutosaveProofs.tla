------------------------ MODULE JudgmentAutosaveProofs ------------------------
EXTENDS JudgmentAutosave, TLAPS

(* Rows with one updatedAt hold one value, and none is newer than the row.  *)
Rows == {saved, shown} \cup ({fetch} \ {None, Sent})
        \cup (IF ctl.put = "done" THEN {ctl.row} ELSE {})
        \cup {c.row : c \in {d \in gone : d.put = "done"}}

StampsTell ==
  /\ \A i, j \in Rows : i.at = j.at => i.value = j.value
  /\ \A i \in Rows : i.at <= saved.at

(* What the server committed for a chain is what the chain sent.            *)
RowIsSent ==
  /\ ctl.put = "done" => ctl.row \in Row /\ ctl.row.value = ctl.value
  /\ \A c \in gone : /\ c.put # "none"
                     /\ c.put = "done" => c.row \in Row /\ c.row.value = c.value

(* An idle control has nothing waiting and shows what it last knows to be   *)
(* saved; a busy one shows what it is going to save.                        *)
InputIsTarget ==
  /\ ~InFlight(ctl) => ctl.queued = None /\ ctl.value = ctl.confirmed
  /\ ~ctl.dirty => Input(ctl) = Target(ctl)

(* Where the user's last choice is, when nobody else is about: with the     *)
(* control, with the only abandoned one, or in the row.                     *)
ChoiceKept ==
  ~past.rival =>
    /\ InFlight(ctl) => /\ gone = {} /\ ~failed
                        /\ Target(ctl) = past.value
                        /\ ctl.put = "done" => saved.value = ctl.value
    /\ \A c \in gone : /\ gone = {c} /\ ~failed
                       /\ Target(c) = past.value
                       /\ c.put = "done" => saved.value = c.value
    /\ ~InFlight(ctl) /\ gone = {} /\ ~failed /\ past.value # None =>
         saved.value = past.value

(* With other writers about: a control that was left ends with what it was   *)
(* last asked, the mounted one with the user's last choice; and when all     *)
(* that is left to do for either is to be answered, the row is one of these. *)
More == \E c \in gone : c.put = "sent" \/ c.queued # None

LeftKept ==
  /\ \A c \in gone : Target(c) \in past.left
  /\ InFlight(ctl) => Target(ctl) = past.value
  /\ spent.others = 0 /\ ~failed /\ ~More =>
       /\ ctl.put = "done" => saved.value \in {ctl.value} \cup past.left
       /\ ctl.put = "none" /\ past.value # None =>
            saved.value \in {past.value} \cup past.left

IInv ==
  /\ TypeOK /\ StampsTell /\ RowIsSent /\ InputIsTarget /\ FallBackIsShown /\ ChoiceKept

-----------------------------------------------------------------------------
(* The control's functions                                                  *)

LEMMA NoneNoValue == None \notin Value
  BY DEF None, Value

LEMMA SendLemma ==
  ASSUME NEW c \in Control, NEW v \in Value
  PROVE  /\ Send(c, v) \in Control
         /\ Send(c, v).put = "sent" /\ Send(c, v).value = v /\ Send(c, v).queued = None
         /\ Send(c, v).row = c.row
         /\ Send(c, v).status = c.status /\ Send(c, v).note = c.note
         /\ Send(c, v).dirty = c.dirty
         /\ Send(c, v).confirmed = c.confirmed /\ Send(c, v).processed = c.processed
  BY DEF Send, Control

LEMMA RequestSaveLemma ==
  ASSUME NEW c \in Control, NEW v \in Value
  PROVE  LET d == RequestSave(c, v) IN
         /\ d \in Control
         /\ d.status = c.status /\ d.note = c.note /\ ~d.dirty
         /\ d.row = c.row /\ d.confirmed = c.confirmed /\ d.processed = c.processed
         /\ Target(d) = v
         /\ v = Target(c) => d.put = c.put /\ d.value = c.value /\ d.queued = c.queued
         /\ v # Target(c) /\ InFlight(c) => d.put = c.put /\ d.value = c.value
         /\ v # Target(c) /\ ~InFlight(c) =>
              d.put = "sent" /\ d.value = v /\ d.queued = None
<1> DEFINE asked == [c EXCEPT !.dirty = FALSE]
<1>1. /\ asked \in Control /\ ~asked.dirty
      /\ asked.status = c.status /\ asked.note = c.note /\ asked.row = c.row
      /\ asked.confirmed = c.confirmed /\ asked.processed = c.processed
      /\ asked.put = c.put /\ asked.value = c.value /\ asked.queued = c.queued
  BY DEF Control
<1>2. v # None
  BY DEF Value, None
<1> HIDE DEF asked
<1>3. CASE v = Target(c)
  <2>1. RequestSave(c, v) = [asked EXCEPT !.elsewhere = @ /\ (InFlight(c) \/ c.queued # None)]
    BY <1>3 DEF RequestSave, asked
  <2>2. (asked.elsewhere /\ (InFlight(c) \/ c.queued # None)) \in BOOLEAN
    BY <1>1 DEF Control
  <2> QED BY <1>1, <1>3, <2>1, <2>2 DEF Control, Target
<1>4. CASE v # Target(c) /\ InFlight(c)
  <2>1. RequestSave(c, v) = [asked EXCEPT !.queued = IF v = c.value THEN None ELSE v]
    BY <1>4 DEF RequestSave, asked
  <2> QED BY <1>1, <1>2, <1>4, <2>1 DEF Control, Target
<1>5. CASE v # Target(c) /\ ~InFlight(c)
  <2>1. RequestSave(c, v) = Send(asked, v)
    BY <1>5 DEF RequestSave, asked
  <2> QED BY <1>1, <1>5, <2>1, SendLemma DEF Target
<1> QED BY <1>3, <1>4, <1>5

LEMMA FollowLemma ==
  ASSUME NEW c \in Control, NEW j \in Row, c.processed # j.at,
         ~InFlight(c) => c.queued = None /\ c.value = c.confirmed,
         ~c.dirty => Input(c) = Target(c)
  PROVE  LET d == Follow(c, j) IN
         /\ d \in Control
         /\ d.put = c.put /\ d.row = c.row /\ d.queued = c.queued /\ d.dirty = c.dirty
         /\ d.processed = j.at /\ d.confirmed = j.value
         /\ InFlight(c) => d.value = c.value
         /\ ~InFlight(c) => d.value = d.confirmed
         /\ ~d.dirty => Input(d) = Target(d)
<1> DEFINE heard == [c EXCEPT !.processed = j.at, !.confirmed = j.value]
<1>1. /\ heard \in Control
      /\ heard.put = c.put /\ heard.row = c.row /\ heard.queued = c.queued
      /\ heard.dirty = c.dirty /\ heard.value = c.value
      /\ heard.processed = j.at /\ heard.confirmed = j.value
      /\ heard.status = c.status /\ heard.note = c.note
  BY DEF Control, Row
<1>2. j.value.status \in Statuses /\ j.value.note \in Notes /\ j.value \in Value
      /\ j.value = [status |-> j.value.status, note |-> j.value.note]
  BY DEF Row, Value
<1> HIDE DEF heard
<1>3. CASE InFlight(c) \/ c.queued # None \/ j.value = c.value
  <2>1. Follow(c, j) = heard
    BY <1>3 DEF Follow, heard
  <2> QED BY <1>1, <1>3, <2>1 DEF Input, Target, InFlight
<1>4. CASE ~(InFlight(c) \/ c.queued # None \/ j.value = c.value) /\ c.dirty
  <2> DEFINE d == [heard EXCEPT !.value = j.value, !.elsewhere = TRUE]
  <2>1. Follow(c, j) = d
    BY <1>4 DEF Follow, heard
  <2>2. d \in Control
    BY <1>1, <1>2 DEF Control
  <2>3. /\ d.put = c.put /\ d.row = c.row /\ d.queued = c.queued /\ d.dirty = c.dirty
        /\ d.processed = j.at /\ d.confirmed = j.value /\ d.value = j.value
    BY <1>1 DEF Control
  <2> HIDE DEF d
  <2> QED BY <1>4, <2>1, <2>2, <2>3
<1>5. CASE ~(InFlight(c) \/ c.queued # None \/ j.value = c.value) /\ ~c.dirty
  <2> DEFINE d == [heard EXCEPT !.value = j.value,
                                !.status = j.value.status, !.note = j.value.note]
  <2>1. Follow(c, j) = d
    BY <1>5 DEF Follow, heard
  <2>2. d \in Control
    BY <1>1, <1>2 DEF Control
  <2>3. /\ d.put = c.put /\ d.row = c.row /\ d.queued = c.queued /\ d.dirty = c.dirty
        /\ d.processed = j.at /\ d.confirmed = j.value /\ d.value = j.value
        /\ d.status = j.value.status /\ d.note = j.value.note
    BY <1>1 DEF Control
  <2> HIDE DEF d
  <2>4. Input(d) = Target(d)
    BY <1>2, <1>5, <2>3 DEF Input, Target
  <2> QED BY <1>5, <2>1, <2>2, <2>3, <2>4
<1> QED BY <1>3, <1>4, <1>5

LEMMA SucceedLemma ==
  ASSUME NEW c \in Control, InFlight(c), ~c.dirty => Input(c) = Target(c)
  PROVE  LET d == Succeed(c) IN
         /\ d \in Control
         /\ d.confirmed = c.value /\ d.processed = c.processed /\ d.row = None
         /\ d.status = c.status /\ d.note = c.note /\ d.dirty = c.dirty
         /\ d.queued = None /\ d.value = Target(c)
         /\ c.queued # None => d.put = "sent"
         /\ c.queued = None => d.put = "none"
<1> DEFINE done == [c EXCEPT !.put = "none", !.row = None, !.confirmed = c.value]
<1>1. /\ done \in Control
      /\ done.confirmed = c.value /\ done.processed = c.processed /\ done.row = None
      /\ done.status = c.status /\ done.note = c.note /\ done.dirty = c.dirty
      /\ done.queued = c.queued /\ done.value = c.value /\ done.put = "none"
  BY DEF Control
<1> HIDE DEF done
<1>2. CASE c.queued # None
  <2>1. Succeed(c) = Send(done, c.queued) /\ c.queued \in Value
    BY <1>2 DEF Succeed, done, Control
  <2> QED BY <1>1, <1>2, <2>1, SendLemma DEF Target
<1>3. CASE c.queued = None
  <2>1. Succeed(c) = [done EXCEPT !.label = "saved", !.elsewhere = FALSE]
    BY <1>3 DEF Succeed, done
  <2> QED BY <1>1, <1>3, <2>1 DEF Target, Control
<1> QED BY <1>2, <1>3

LEMMA FallBackLemma ==
  ASSUME NEW c \in Control
  PROVE  LET d == FallBack(c) IN
         /\ d \in Control
         /\ d.put = "none" /\ d.row = None /\ d.queued = None /\ ~d.dirty
         /\ d.value = c.confirmed /\ d.confirmed = c.confirmed
         /\ d.processed = c.processed
         /\ Input(d) = c.confirmed
  BY DEF FallBack, Control, Input, Value

LEMMA MountedLemma ==
  ASSUME NEW j \in Row
  PROVE  LET d == Mounted(j) IN
         /\ d \in Control
         /\ d.put = "none" /\ d.row = None /\ d.queued = None /\ ~d.dirty
         /\ d.value = j.value /\ d.confirmed = j.value /\ d.processed = j.at
         /\ Input(d) = j.value
  BY DEF Mounted, Control, Row, Value, Input

LEMMA AbandonedLemma ==
  ASSUME NEW c \in Control
  PROVE  LET d == Abandoned(c) IN
         /\ d \in Chain
         /\ d.put = c.put /\ d.row = c.row /\ d.value = c.value /\ d.queued = c.queued
         /\ Target(d) = Target(c)
  BY DEF Abandoned, Control, Chain, Target

-----------------------------------------------------------------------------
(* Rows of a step: nothing new, or the row just written                     *)

LEMMA KeepsStamps ==
  ASSUME StampsTell, saved' = saved, Rows' \subseteq Rows
  PROVE  StampsTell'
  BY DEF StampsTell

LEMMA NewStamp ==
  ASSUME TypeOK, RowIsSent, StampsTell,
         saved'.at = saved.at + 1, Rows' \subseteq Rows \cup {saved'}
  PROVE  StampsTell'
<1>1. \A i \in Rows : i \in Row
  BY DEF Rows, TypeOK, RowIsSent, Control
<1>2. \A i \in Rows : i.at \in Nat /\ i.at <= saved.at
  BY <1>1 DEF StampsTell, Row
<1>3. saved.at \in Nat
  BY DEF TypeOK, Row
<1>4. \A i \in Rows : i.at # saved'.at /\ i.at <= saved'.at
  BY <1>2, <1>3
<1>5. \A i \in Rows' : i.at <= saved'.at
  BY <1>3, <1>4
<1>6. \A i, j \in Rows' : i.at = j.at => i.value = j.value
  BY <1>4 DEF StampsTell
<1> QED BY <1>5, <1>6 DEF StampsTell

-----------------------------------------------------------------------------
LEMMA InitIInv == Init => IInv
<1> SUFFICES ASSUME Init PROVE IInv
  OBVIOUS
<1>1. saved \in Row /\ saved.value = First /\ saved.at = 0
  BY FirstAssumption DEF Init, Row
<1>2. TypeOK
  <2>1. ctl \in Control
    BY <1>1, MountedLemma DEF Init
  <2>2. past \in Past
    BY DEF Init, Past
  <2>3. spent \in Spent
    BY BoundsAssumption DEF Init, Spent
  <2> QED BY <1>1, <2>1, <2>2, <2>3 DEF Init, TypeOK
<1>3. ctl.put = "none" /\ ctl.queued = None /\ ctl.value = ctl.confirmed
      /\ Input(ctl) = ctl.value /\ ctl.confirmed = saved.value
  BY <1>1, MountedLemma DEF Init
<1>4. StampsTell
  <2>1. Rows = {saved}
    BY <1>3 DEF Rows, Init
  <2> QED BY <1>1, <2>1 DEF StampsTell
<1>5. RowIsSent /\ InputIsTarget /\ FallBackIsShown /\ ChoiceKept
  BY <1>3 DEF Init, RowIsSent, InputIsTarget, FallBackIsShown, ChoiceKept, InFlight, Target
<1> QED BY <1>2, <1>4, <1>5 DEF IInv

LEMMA RenderIInv == IInv /\ Render => IInv'
<1> SUFFICES ASSUME IInv, Render PROVE IInv'
  OBVIOUS
<1>1. /\ ctl \in Control /\ shown \in Row /\ ctl.processed # shown.at
      /\ ~InFlight(ctl) => ctl.queued = None /\ ctl.value = ctl.confirmed
      /\ ~ctl.dirty => Input(ctl) = Target(ctl)
      /\ ctl' = Follow(ctl, shown)
  BY DEF IInv, Render, Rendered, TypeOK, InputIsTarget
<1>2. /\ ctl' \in Control
      /\ ctl'.put = ctl.put /\ ctl'.row = ctl.row /\ ctl'.queued = ctl.queued
      /\ ctl'.dirty = ctl.dirty
      /\ ctl'.processed = shown.at /\ ctl'.confirmed = shown.value
      /\ InFlight(ctl) => ctl'.value = ctl.value
      /\ ~InFlight(ctl) => ctl'.value = ctl'.confirmed
      /\ ~ctl'.dirty => Input(ctl') = Target(ctl')
  BY <1>1, FollowLemma
<1>3. TypeOK'
  BY <1>2 DEF IInv, TypeOK, Render
<1>4. StampsTell'
  <2>1. Rows' \subseteq Rows
    BY <1>2 DEF Rows, Render
  <2> QED BY <2>1, KeepsStamps DEF IInv, Render
<1>5. RowIsSent'
  BY <1>2 DEF IInv, RowIsSent, Render, InFlight
<1>6. InputIsTarget'
  BY <1>1, <1>2 DEF InputIsTarget, InFlight
<1>7. FallBackIsShown'
  BY <1>2 DEF FallBackIsShown, Render
<1>8. ChoiceKept'
  BY <1>2 DEF IInv, ChoiceKept, Render, InFlight, Target
<1> QED BY <1>3, <1>4, <1>5, <1>6, <1>7, <1>8 DEF IInv

(* What Ask does to the invariant, for a control d that is the mounted one  *)
(* with other inputs and is asked to save what it shows.                    *)
LEMMA AskIInv ==
  ASSUME IInv, NEW d \in Control, Input(d) \in Value,
         d.put = ctl.put, d.value = ctl.value, d.row = ctl.row, d.queued = ctl.queued,
         d.processed = ctl.processed, d.confirmed = ctl.confirmed,
         Ask(d, Input(d)), spent' \in Spent,
         UNCHANGED <<saved, shown, fetch, gone>>
  PROVE  IInv'
<1> DEFINE v == Input(d)
<1>1. /\ ctl' \in Control
      /\ ctl'.status = d.status /\ ctl'.note = d.note /\ ~ctl'.dirty
      /\ ctl'.row = ctl.row /\ ctl'.confirmed = ctl.confirmed
      /\ ctl'.processed = ctl.processed
      /\ Target(ctl') = v
      /\ v = Target(d) => /\ ctl'.put = ctl.put /\ ctl'.value = ctl.value
                          /\ ctl'.queued = ctl.queued
      /\ v # Target(d) /\ InFlight(d) => ctl'.put = ctl.put /\ ctl'.value = ctl.value
      /\ v # Target(d) /\ ~InFlight(d) =>
           ctl'.put = "sent" /\ ctl'.value = v /\ ctl'.queued = None
  BY RequestSaveLemma DEF Ask
<1>2. Input(ctl') = v
  BY <1>1 DEF Input
<1>3. Target(d) = Target(ctl) /\ (InFlight(d) <=> InFlight(ctl))
  BY DEF Target, InFlight
<1>4. /\ failed' = (failed /\ (InFlight(d) \/ ~InFlight(ctl')))
      /\ past' = IF v = Target(d) THEN past
                 ELSE [past EXCEPT !.value = v,
                                   !.rival = gone # {} \/ (@ /\ InFlight(d))]
  BY DEF Ask
<1> HIDE DEF v
<1>5. /\ past' \in Past
      /\ past'.own = past.own /\ past'.skipped = past.skipped
      /\ v = Target(ctl) => past' = past
      /\ v # Target(ctl) => /\ past'.value = v
                            /\ past'.rival <=> gone # {} \/ (past.rival /\ InFlight(ctl))
  <2>1. past \in Past /\ v \in Value
    BY DEF IInv, TypeOK, v
  <2>2. CASE v = Target(ctl)
    BY <1>3, <1>4, <2>1, <2>2
  <2>3. CASE v # Target(ctl)
    <3>1. past' = [past EXCEPT !.value = v,
                               !.rival = gone # {} \/ (past.rival /\ InFlight(d))]
      BY <1>3, <1>4, <2>3
    <3>2. (gone # {} \/ (past.rival /\ InFlight(d))) \in BOOLEAN
      OBVIOUS
    <3> QED BY <1>3, <2>1, <2>3, <3>1, <3>2 DEF Past
  <2> QED BY <2>2, <2>3
<1>6. TypeOK'
  BY <1>1, <1>4, <1>5 DEF IInv, TypeOK
<1>7. ctl'.put = "done" <=> ctl.put = "done"
  BY <1>1, <1>3 DEF InFlight
<1>8. StampsTell'
  <2>1. Rows' \subseteq Rows
    BY <1>1, <1>7 DEF Rows
  <2> QED BY <2>1, KeepsStamps DEF IInv
<1>9. RowIsSent'
  BY <1>1, <1>3, <1>7 DEF IInv, RowIsSent, InFlight
<1>10. InputIsTarget'
  BY <1>1, <1>2, <1>3 DEF IInv, InputIsTarget, InFlight
<1>11. FallBackIsShown'
  BY <1>1, <1>5 DEF IInv, FallBackIsShown, Rendered
<1>12. ChoiceKept'
  <2> SUFFICES ASSUME ~past'.rival PROVE ChoiceKept'
    BY DEF ChoiceKept
  <2>1. CASE v = Target(ctl)
    BY <1>1, <1>3, <1>4, <1>5, <2>1 DEF IInv, ChoiceKept, InFlight
  <2>2. CASE v # Target(ctl)
    <3>1. gone = {} /\ ~(past.rival /\ InFlight(ctl)) /\ past'.value = v
      BY <1>5, <2>2
    <3>2. InFlight(ctl') /\ ~failed'
      BY <1>1, <1>3, <1>4, <2>2, <3>1 DEF IInv, ChoiceKept, InFlight
    <3>3. ctl'.put = "done" => saved'.value = ctl'.value
      BY <1>1, <1>3, <1>7, <2>2, <3>1 DEF IInv, ChoiceKept, InFlight
    <3> QED BY <1>1, <3>1, <3>2, <3>3 DEF ChoiceKept
  <2> QED BY <2>1, <2>2
<1> QED BY <1>6, <1>8, <1>9, <1>10, <1>11, <1>12 DEF IInv

LEMMA StatusIInv == ASSUME NEW s \in Statuses PROVE IInv /\ HandleStatusChange(s) => IInv'
<1> SUFFICES ASSUME IInv, HandleStatusChange(s) PROVE IInv'
  OBVIOUS
<1> DEFINE d == [ctl EXCEPT !.status = s]
<1>1. ctl \in Control
  BY DEF IInv, TypeOK
<1>2. /\ d \in Control
      /\ Input(d) = [status |-> s, note |-> ctl.note] /\ Input(d) \in Value
      /\ d.put = ctl.put /\ d.value = ctl.value /\ d.row = ctl.row
      /\ d.queued = ctl.queued
      /\ d.processed = ctl.processed /\ d.confirmed = ctl.confirmed
  BY <1>1 DEF Control, Input, Value
<1>3. spent' \in Spent
  BY BoundsAssumption DEF IInv, TypeOK, Spent, HandleStatusChange, Writes
<1>4. Ask(d, Input(d)) /\ UNCHANGED <<saved, shown, fetch, gone>>
  BY <1>2 DEF HandleStatusChange
<1> HIDE DEF d
<1> QED BY <1>2, <1>3, <1>4, AskIInv

LEMMA BlurIInv == IInv /\ HandleNoteBlur => IInv'
<1> SUFFICES ASSUME IInv, HandleNoteBlur PROVE IInv'
  OBVIOUS
<1>1. ctl \in Control /\ Input(ctl) \in Value /\ spent' \in Spent
  BY DEF IInv, TypeOK, Control, Input, Value, HandleNoteBlur
<1>2. Ask(ctl, Input(ctl)) /\ UNCHANGED <<saved, shown, fetch, gone>>
  BY DEF HandleNoteBlur
<1> QED BY <1>1, <1>2, AskIInv

LEMMA NoteIInv == ASSUME NEW n \in Notes PROVE IInv /\ HandleNoteChange(n) => IInv'
<1> SUFFICES ASSUME IInv, HandleNoteChange(n) PROVE IInv'
  OBVIOUS
<1>1. /\ ctl' \in Control /\ ctl'.dirty
      /\ ctl'.put = ctl.put /\ ctl'.value = ctl.value /\ ctl'.row = ctl.row
      /\ ctl'.queued = ctl.queued
      /\ ctl'.processed = ctl.processed /\ ctl'.confirmed = ctl.confirmed
  BY DEF IInv, TypeOK, Control, HandleNoteChange
<1>2. spent' \in Spent
  BY BoundsAssumption DEF IInv, TypeOK, Spent, HandleNoteChange, Writes
<1>3. UNCHANGED <<saved, shown, failed, fetch, gone, past>>
  BY DEF HandleNoteChange
<1>4. TypeOK'
  BY <1>1, <1>2, <1>3 DEF IInv, TypeOK
<1>5. StampsTell'
  <2>1. Rows' \subseteq Rows
    BY <1>1, <1>3 DEF Rows
  <2> QED BY <1>3, <2>1, KeepsStamps DEF IInv
<1>6. RowIsSent' /\ InputIsTarget' /\ FallBackIsShown' /\ ChoiceKept'
  BY <1>1, <1>3
     DEF IInv, RowIsSent, InputIsTarget, FallBackIsShown, ChoiceKept, InFlight, Target, Rendered
<1> QED BY <1>4, <1>5, <1>6 DEF IInv

LEMMA RemountIInv == IInv /\ Remount => IInv'
<1> SUFFICES ASSUME IInv, Remount PROVE IInv'
  OBVIOUS
<1>1. ctl \in Control /\ shown \in Row
  BY DEF IInv, TypeOK
<1>2. /\ ctl' \in Control
      /\ ctl'.put = "none" /\ ctl'.row = None /\ ctl'.queued = None /\ ~ctl'.dirty
      /\ ctl'.value = shown.value /\ ctl'.confirmed = shown.value
      /\ ctl'.processed = shown.at
      /\ Input(ctl') = shown.value
  BY <1>1, MountedLemma DEF Remount
<1>3. UNCHANGED <<saved, shown, failed, fetch>>
  BY DEF Remount
<1> DEFINE a == Abandoned(ctl)
<1>4. /\ a \in Chain
      /\ a.put = ctl.put /\ a.row = ctl.row /\ a.value = ctl.value
      /\ Target(a) = Target(ctl)
  BY <1>1, AbandonedLemma
<1>5. /\ InFlight(ctl) => gone' = gone \cup {a}
      /\ ~InFlight(ctl) => gone' = gone
      /\ past' \in Past /\ past'.value = past.value /\ (past'.rival <=> past.rival)
      /\ (past'.own <=> past.own) /\ (past'.skipped <=> past.skipped)
  <2>1. Target(ctl) \in Value
    BY <1>1, NoneNoValue DEF Target, Control
  <2> QED BY <2>1 DEF Remount, IInv, TypeOK, Past
<1> HIDE DEF a
<1>6. TypeOK'
  <2>1. spent' \in Spent
    BY BoundsAssumption DEF IInv, TypeOK, Spent, Remount
  <2> QED BY <1>2, <1>3, <1>4, <1>5, <2>1 DEF IInv, TypeOK
<1>7. StampsTell'
  <2>1. Rows' \subseteq Rows
    BY <1>2, <1>3, <1>4, <1>5 DEF Rows
  <2> QED BY <1>3, <2>1, KeepsStamps DEF IInv
<1>8. RowIsSent'
  BY <1>2, <1>4, <1>5 DEF IInv, RowIsSent, InFlight
<1>9. InputIsTarget' /\ FallBackIsShown'
  BY <1>2, <1>3 DEF InputIsTarget, FallBackIsShown, InFlight, Target
<1>10. ChoiceKept'
  BY <1>2, <1>3, <1>4, <1>5 DEF IInv, ChoiceKept, InFlight
<1> QED BY <1>6, <1>7, <1>8, <1>9, <1>10 DEF IInv

(* A row just written                                                       *)
LEMMA SetJudgmentLemma ==
  ASSUME TypeOK, NEW v \in Value, SetJudgment(v)
  PROVE  saved' \in Row /\ saved'.value = v /\ saved'.at = saved.at + 1
  BY DEF TypeOK, SetJudgment, Row

LEMMA ServeIInv == IInv /\ Serve => IInv'
<1> SUFFICES ASSUME IInv, Serve PROVE IInv'
  OBVIOUS
<1>1. ctl \in Control /\ ctl.put = "sent" /\ ctl.value \in Value
  BY DEF IInv, TypeOK, Control, Serve
<1>2. saved' \in Row /\ saved'.value = ctl.value /\ saved'.at = saved.at + 1
  BY <1>1, SetJudgmentLemma DEF IInv, Serve
<1>3. /\ ctl' \in Control /\ ctl'.put = "done" /\ ctl'.row = saved'
      /\ ctl'.value = ctl.value /\ ctl'.queued = ctl.queued
      /\ ctl'.status = ctl.status /\ ctl'.note = ctl.note /\ ctl'.dirty = ctl.dirty
      /\ ctl'.processed = ctl.processed /\ ctl'.confirmed = ctl.confirmed
  BY <1>1, <1>2 DEF Serve, Control
<1>4. UNCHANGED <<shown, failed, fetch, gone, past, spent>>
  BY DEF Serve
<1>5. TypeOK'
  BY <1>2, <1>3, <1>4 DEF IInv, TypeOK
<1>6. StampsTell'
  <2>1. Rows' \subseteq Rows \cup {saved'}
    BY <1>3, <1>4 DEF Rows
  <2> QED BY <1>2, <2>1, NewStamp DEF IInv
<1>7. RowIsSent'
  BY <1>2, <1>3, <1>4 DEF IInv, RowIsSent
<1>8. InputIsTarget' /\ FallBackIsShown'
  BY <1>1, <1>3, <1>4
     DEF IInv, InputIsTarget, FallBackIsShown, InFlight, Target, Input, Rendered
<1>9. ChoiceKept'
  BY <1>1, <1>2, <1>3, <1>4 DEF IInv, ChoiceKept, InFlight, Target
<1> QED BY <1>5, <1>6, <1>7, <1>8, <1>9 DEF IInv

LEMMA ServeAbandonedIInv ==
  ASSUME NEW c \in gone PROVE IInv /\ ServeAbandoned(c) => IInv'
<1> SUFFICES ASSUME IInv, ServeAbandoned(c) PROVE IInv'
  OBVIOUS
<1>1. c \in Chain /\ c.put = "sent" /\ c.value \in Value
  BY DEF IInv, TypeOK, Chain, ServeAbandoned
<1>2. saved' \in Row /\ saved'.value = c.value /\ saved'.at = saved.at + 1
  BY <1>1, SetJudgmentLemma DEF IInv, ServeAbandoned
<1> DEFINE d == [c EXCEPT !.put = "done", !.row = saved']
<1>3. /\ d \in Chain /\ d.put = "done" /\ d.row = saved'
      /\ d.value = c.value /\ d.queued = c.queued
  BY <1>1, <1>2 DEF Chain
<1>4. /\ gone' = (gone \ {c}) \cup {d}
      /\ UNCHANGED <<shown, failed, fetch, ctl, past, spent>>
  BY DEF ServeAbandoned
<1> HIDE DEF d
<1>5. TypeOK'
  BY <1>2, <1>3, <1>4 DEF IInv, TypeOK
<1>6. StampsTell'
  <2>1. Rows' \subseteq Rows \cup {saved'}
    BY <1>3, <1>4 DEF Rows
  <2> QED BY <1>2, <2>1, NewStamp DEF IInv
<1>7. RowIsSent'
  BY <1>2, <1>3, <1>4 DEF IInv, RowIsSent
<1>8. InputIsTarget' /\ FallBackIsShown'
  BY <1>4 DEF IInv, InputIsTarget, FallBackIsShown, InFlight, Target, Input, Rendered
<1>9. ChoiceKept'
  <2> SUFFICES ASSUME ~past.rival PROVE ChoiceKept'
    BY <1>4 DEF ChoiceKept
  <2>1. gone = {c} /\ ~failed /\ Target(c) = past.value /\ ~InFlight(ctl)
    BY DEF IInv, ChoiceKept
  <2>2. gone' = {d} /\ Target(d) = past.value
    BY <1>3, <1>4, <2>1 DEF Target
  <2> QED BY <1>2, <1>3, <1>4, <2>1, <2>2 DEF ChoiceKept
<1> QED BY <1>5, <1>6, <1>7, <1>8, <1>9 DEF IInv

(* What Show does to the history                                            *)
LEMMA ShowLemma ==
  ASSUME past \in Past, NEW j, NEW own \in BOOLEAN, Show(j, own)
  PROVE  /\ shown' = j /\ past' \in Past /\ past'.left = past.left
         /\ past'.value = past.value /\ (past'.rival <=> past.rival)
         /\ past'.own <=> own
         /\ ~past'.skipped => ~past.skipped /\ Rendered
<1>1. Rendered \in BOOLEAN
  BY DEF Rendered
<1>2. past' = [past EXCEPT !.own = own, !.skipped = past.skipped \/ ~Rendered]
  BY DEF Show
<1> QED BY <1>1, <1>2 DEF Show, Past

(* A row that is shown and was drawn keeps what a failure falls back to.    *)
LEMMA ShowKeepsFallBack ==
  ASSUME IInv, NEW j \in Rows, Show(j, FALSE),
         ctl'.confirmed = ctl.confirmed, ctl'.processed = ctl.processed
  PROVE  FallBackIsShown'
<1> SUFFICES ASSUME (Rendered \/ past.own)', ~past'.skipped
             PROVE  ctl'.confirmed = shown'.value
  BY DEF FallBackIsShown
<1>1. /\ shown' = j /\ ~past'.own /\ ~past.skipped /\ Rendered
  BY ShowLemma DEF IInv, TypeOK
<1>2. j.at = shown.at
  BY <1>1 DEF Rendered
<1>3. j.value = shown.value
  BY <1>2 DEF IInv, StampsTell, Rows
<1>4. ctl.confirmed = shown.value
  BY <1>1 DEF IInv, FallBackIsShown
<1> QED BY <1>1, <1>3, <1>4

LEMMA SavedIInv == IInv /\ Saved => IInv'
<1> SUFFICES ASSUME IInv, Saved PROVE IInv'
  OBVIOUS
<1>1. /\ ctl \in Control /\ ctl.put = "done" /\ InFlight(ctl)
      /\ ctl.row \in Row /\ ctl.row.value = ctl.value
      /\ ~ctl.dirty => Input(ctl) = Target(ctl)
  BY DEF IInv, TypeOK, RowIsSent, InputIsTarget, Saved, InFlight
<1>2. /\ ctl' \in Control
      /\ ctl'.confirmed = ctl.value /\ ctl'.processed = ctl.processed /\ ctl'.row = None
      /\ ctl'.status = ctl.status /\ ctl'.note = ctl.note /\ ctl'.dirty = ctl.dirty
      /\ ctl'.queued = None /\ ctl'.value = Target(ctl)
      /\ ctl.queued # None => ctl'.put = "sent"
      /\ ctl.queued = None => ctl'.put = "none"
  BY <1>1, SucceedLemma DEF Saved
<1>3. /\ shown' = ctl.row /\ past' \in Past
      /\ past'.value = past.value /\ (past'.rival <=> past.rival)
  BY ShowLemma DEF IInv, TypeOK, Saved
<1>4. /\ UNCHANGED <<saved, fetch, gone, spent>>
      /\ failed' = (failed /\ ctl.queued = None)
  BY DEF Saved
<1>5. TypeOK'
  BY <1>1, <1>2, <1>3, <1>4 DEF IInv, TypeOK
<1>6. StampsTell'
  <2>1. Rows' \subseteq Rows
    BY <1>1, <1>2, <1>3, <1>4 DEF Rows
  <2> QED BY <1>4, <2>1, KeepsStamps DEF IInv
<1>7. RowIsSent'
  BY <1>2, <1>4 DEF IInv, RowIsSent
<1>8. InputIsTarget'
  <2>1. Input(ctl') = Input(ctl) /\ Target(ctl') = Target(ctl)
    BY <1>2 DEF Input, Target
  <2> QED BY <1>1, <1>2, <2>1 DEF InputIsTarget, InFlight, Target
<1>9. FallBackIsShown'
  BY <1>1, <1>2, <1>3 DEF FallBackIsShown
<1>10. ChoiceKept'
  BY <1>1, <1>2, <1>3, <1>4 DEF IInv, ChoiceKept, InFlight, Target
<1> QED BY <1>5, <1>6, <1>7, <1>8, <1>9, <1>10 DEF IInv

LEMMA SavedAbandonedIInv ==
  ASSUME NEW c \in gone PROVE IInv /\ SavedAbandoned(c) => IInv'
<1> SUFFICES ASSUME IInv, SavedAbandoned(c) PROVE IInv'
  OBVIOUS
<1>1. c \in Chain /\ c.put = "done" /\ c.row \in Row /\ c.row \in Rows
  BY DEF IInv, TypeOK, RowIsSent, SavedAbandoned, Rows
<1> DEFINE d == [c EXCEPT !.put = "sent", !.value = c.queued, !.row = None, !.queued = None]
<1>2. c.queued # None => /\ d \in Chain /\ d.put = "sent" /\ Target(d) = c.queued
                         /\ Target(c) = c.queued
  BY <1>1 DEF Chain, Target
<1>3. /\ c.queued = None => gone' = gone \ {c} /\ Target(c) = c.value
      /\ c.queued # None => gone' = (gone \ {c}) \cup {d}
      /\ UNCHANGED <<saved, fetch, ctl, spent>>
      /\ failed' = (failed /\ c.queued = None)
  BY DEF SavedAbandoned, Target
<1> HIDE DEF d
<1>4. /\ shown' = c.row /\ past' \in Past
      /\ past'.value = past.value /\ (past'.rival <=> past.rival)
  BY ShowLemma DEF IInv, TypeOK, SavedAbandoned
<1>5. TypeOK'
  BY <1>1, <1>2, <1>3, <1>4 DEF IInv, TypeOK
<1>6. StampsTell'
  <2>1. Rows' \subseteq Rows
    BY <1>1, <1>2, <1>3, <1>4 DEF Rows
  <2> QED BY <1>3, <2>1, KeepsStamps DEF IInv
<1>7. RowIsSent'
  BY <1>2, <1>3 DEF IInv, RowIsSent
<1>8. InputIsTarget'
  BY <1>3 DEF IInv, InputIsTarget, InFlight, Target, Input
<1>9. FallBackIsShown'
  BY <1>1, <1>3, ShowKeepsFallBack DEF SavedAbandoned
<1>10. ChoiceKept'
  <2> SUFFICES ASSUME ~past.rival PROVE ChoiceKept'
    BY <1>4 DEF ChoiceKept
  <2>1. /\ gone = {c} /\ ~failed /\ Target(c) = past.value /\ ~InFlight(ctl)
        /\ saved.value = c.value
    BY <1>1 DEF IInv, ChoiceKept
  <2>2. CASE c.queued = None
    BY <1>3, <1>4, <2>1, <2>2 DEF ChoiceKept
  <2>3. CASE c.queued # None
    BY <1>2, <1>3, <1>4, <2>1, <2>3 DEF ChoiceKept
  <2> QED BY <2>2, <2>3
<1> QED BY <1>5, <1>6, <1>7, <1>8, <1>9, <1>10 DEF IInv

LEMMA SaveFailsIInv == IInv /\ SaveFails => IInv'
<1> SUFFICES ASSUME IInv, SaveFails PROVE IInv'
  OBVIOUS
<1>1. spent' \in Spent
  BY BoundsAssumption DEF IInv, TypeOK, Spent, SaveFails, Fault
<1>2. failed' = TRUE /\ UNCHANGED <<saved, shown, fetch, past>>
  BY DEF SaveFails
<1>3. CASE InFlight(ctl) /\ ctl' = FallBack(ctl) /\ UNCHANGED gone
  <2>1. /\ ctl' \in Control
        /\ ctl'.put = "none" /\ ctl'.row = None /\ ctl'.queued = None /\ ~ctl'.dirty
        /\ ctl'.value = ctl.confirmed /\ ctl'.confirmed = ctl.confirmed
        /\ ctl'.processed = ctl.processed
        /\ Input(ctl') = ctl.confirmed
    BY <1>3, FallBackLemma DEF IInv, TypeOK
  <2>2. TypeOK'
    BY <1>1, <1>2, <1>3, <2>1 DEF IInv, TypeOK
  <2>3. StampsTell'
    <3>1. Rows' \subseteq Rows
      BY <1>2, <1>3, <2>1 DEF Rows
    <3> QED BY <1>2, <3>1, KeepsStamps DEF IInv
  <2>4. RowIsSent' /\ InputIsTarget' /\ FallBackIsShown'
    BY <1>2, <1>3, <2>1
       DEF IInv, RowIsSent, InputIsTarget, FallBackIsShown, InFlight, Target, Rendered
  <2>5. ChoiceKept'
    BY <1>2, <1>3, <2>1 DEF IInv, ChoiceKept, InFlight
  <2> QED BY <2>2, <2>3, <2>4, <2>5 DEF IInv
<1>4. ASSUME NEW c \in gone, gone' = gone \ {c}, UNCHANGED ctl PROVE IInv'
  <2>1. TypeOK'
    BY <1>1, <1>2, <1>4 DEF IInv, TypeOK
  <2>2. StampsTell'
    <3>1. Rows' \subseteq Rows
      BY <1>2, <1>4 DEF Rows
    <3> QED BY <1>2, <3>1, KeepsStamps DEF IInv
  <2>3. RowIsSent' /\ InputIsTarget' /\ FallBackIsShown'
    BY <1>2, <1>4
       DEF IInv, RowIsSent, InputIsTarget, FallBackIsShown, InFlight, Target, Input, Rendered
  <2>4. ChoiceKept'
    BY <1>2, <1>4 DEF IInv, ChoiceKept
  <2> QED BY <2>1, <2>2, <2>3, <2>4 DEF IInv
<1> QED BY <1>3, <1>4 DEF SaveFails

(* The list's refresh: only what it has read may change.                    *)
LEMMA FetchIInv ==
  ASSUME IInv, fetch' \in {None, Sent, saved}, spent' \in Spent,
         UNCHANGED <<saved, shown, failed, ctl, gone, past>>
  PROVE  IInv'
<1>1. TypeOK'
  BY DEF IInv, TypeOK
<1>2. StampsTell'
  <2>1. Rows' \subseteq Rows
    BY DEF Rows
  <2> QED BY <2>1, KeepsStamps DEF IInv
<1>3. RowIsSent' /\ InputIsTarget' /\ FallBackIsShown' /\ ChoiceKept'
  BY DEF IInv, RowIsSent, InputIsTarget, FallBackIsShown, ChoiceKept,
         InFlight, Target, Input, Rendered
<1> QED BY <1>1, <1>2, <1>3 DEF IInv

LEMMA FetchAnsweredIInv == IInv /\ FetchAnswered => IInv'
<1> SUFFICES ASSUME IInv, FetchAnswered PROVE IInv'
  OBVIOUS
<1>1. fetch \in Row /\ fetch \in Rows
  BY DEF IInv, TypeOK, FetchAnswered, Rows
<1>2. /\ shown' = fetch /\ past' \in Past
      /\ past'.value = past.value /\ (past'.rival <=> past.rival)
  BY ShowLemma DEF IInv, TypeOK, FetchAnswered
<1>3. fetch' = None /\ UNCHANGED <<saved, failed, ctl, gone, spent>>
  BY DEF FetchAnswered
<1>4. TypeOK'
  BY <1>1, <1>2, <1>3 DEF IInv, TypeOK
<1>5. StampsTell'
  <2>1. Rows' \subseteq Rows
    BY <1>1, <1>2, <1>3 DEF Rows
  <2> QED BY <1>3, <2>1, KeepsStamps DEF IInv
<1>6. RowIsSent' /\ InputIsTarget'
  BY <1>3 DEF IInv, RowIsSent, InputIsTarget, InFlight, Target, Input
<1>7. FallBackIsShown'
  BY <1>1, <1>3, ShowKeepsFallBack DEF FetchAnswered
<1>8. ChoiceKept'
  BY <1>2, <1>3 DEF IInv, ChoiceKept, InFlight, Target
<1> QED BY <1>4, <1>5, <1>6, <1>7, <1>8 DEF IInv

LEMMA OtherSavesIInv == ASSUME NEW v \in Value PROVE IInv /\ OtherSaves(v) => IInv'
<1> SUFFICES ASSUME IInv, OtherSaves(v) PROVE IInv'
  OBVIOUS
<1>1. saved' \in Row /\ saved'.value = v /\ saved'.at = saved.at + 1
  BY SetJudgmentLemma DEF IInv, OtherSaves
<1>2. /\ past' \in Past /\ past'.rival
      /\ past'.own = past.own /\ past'.skipped = past.skipped
  BY DEF IInv, TypeOK, Past, OtherSaves
<1>3. UNCHANGED <<shown, failed, fetch, ctl, gone>>
  BY DEF OtherSaves
<1>4. TypeOK'
  <2>1. spent' \in Spent
    BY BoundsAssumption DEF IInv, TypeOK, Spent, OtherSaves
  <2> QED BY <1>1, <1>2, <1>3, <2>1 DEF IInv, TypeOK
<1>5. StampsTell'
  <2>1. Rows' \subseteq Rows \cup {saved'}
    BY <1>3 DEF Rows
  <2> QED BY <1>1, <2>1, NewStamp DEF IInv
<1>6. RowIsSent' /\ InputIsTarget' /\ FallBackIsShown'
  BY <1>2, <1>3
     DEF IInv, RowIsSent, InputIsTarget, FallBackIsShown, InFlight, Target, Input, Rendered
<1>7. ChoiceKept'
  BY <1>2 DEF ChoiceKept
<1> QED BY <1>4, <1>5, <1>6, <1>7 DEF IInv

LEMMA NextIInv == IInv /\ [Next]_vars => IInv'
<1> SUFFICES ASSUME IInv, [Next]_vars PROVE IInv'
  OBVIOUS
<1>1. CASE SendFetch
  <2>1. spent' \in Spent
    BY <1>1, BoundsAssumption DEF IInv, TypeOK, Spent, SendFetch
  <2> QED BY <1>1, <2>1, FetchIInv DEF SendFetch
<1>2. CASE ReadFindings
  BY <1>2, FetchIInv DEF ReadFindings, IInv, TypeOK
<1>3. CASE FetchFails
  <2>1. spent' \in Spent
    BY <1>3, BoundsAssumption DEF IInv, TypeOK, Spent, FetchFails, Fault
  <2> QED BY <1>3, <2>1, FetchIInv DEF FetchFails
<1>4. CASE UNCHANGED vars
  BY <1>4, FetchIInv DEF vars, IInv, TypeOK, StampsTell, Rows, RowIsSent, InputIsTarget,
     FallBackIsShown, ChoiceKept, InFlight, Target, Input, Rendered
<1> QED BY <1>1, <1>2, <1>3, <1>4, RenderIInv, StatusIInv, NoteIInv, BlurIInv, RemountIInv,
     ServeIInv, ServeAbandonedIInv, SavedIInv, SavedAbandonedIInv, SaveFailsIInv,
     FetchAnsweredIInv, OtherSavesIInv DEF Next

-----------------------------------------------------------------------------
(* The same for what holds with other writers about                         *)

LEMMA InitLeft == Init => LeftKept
<1> SUFFICES ASSUME Init PROVE LeftKept
  OBVIOUS
<1>1. ctl.put = "none" /\ past.value = None /\ gone = {}
  BY DEF Init, Mounted
<1> QED BY <1>1 DEF LeftKept, InFlight

LEMMA AskLeft ==
  ASSUME IInv, LeftKept, NEW d \in Control, Input(d) \in Value,
         d.put = ctl.put, d.value = ctl.value, d.row = ctl.row, d.queued = ctl.queued,
         Ask(d, Input(d)), spent'.others = spent.others,
         UNCHANGED <<saved, gone>>
  PROVE  LeftKept'
<1> DEFINE v == Input(d)
<1>1. /\ Target(ctl') = v
      /\ v = Target(d) => /\ ctl'.put = ctl.put /\ ctl'.value = ctl.value
                          /\ ctl'.queued = ctl.queued
      /\ v # Target(d) /\ InFlight(d) => ctl'.put = ctl.put /\ ctl'.value = ctl.value
      /\ v # Target(d) /\ ~InFlight(d) => ctl'.put = "sent"
  BY RequestSaveLemma DEF Ask
<1>2. Target(d) = Target(ctl) /\ (InFlight(d) <=> InFlight(ctl))
  BY DEF Target, InFlight
<1>3. /\ failed' = (failed /\ (InFlight(d) \/ ~InFlight(ctl')))
      /\ past' = IF v = Target(d) THEN past
                 ELSE [past EXCEPT !.value = v,
                                   !.rival = gone # {} \/ (@ /\ InFlight(d))]
  BY DEF Ask
<1> HIDE DEF v
<1>4. /\ past'.left = past.left
      /\ v = Target(ctl) => past' = past
      /\ v # Target(ctl) => past'.value = v
  BY <1>2, <1>3 DEF IInv, TypeOK, Past
<1>5. \A c \in gone' : Target(c) \in past'.left
  BY <1>4 DEF LeftKept
<1>6. InFlight(ctl') => Target(ctl') = past'.value
  BY <1>1, <1>2, <1>4 DEF LeftKept, InFlight
<1>7. More' <=> More
  BY DEF More
<1>8. ASSUME spent'.others = 0, ~failed', ~More', ctl'.put # "sent"
      PROVE  /\ ctl'.put = "done" => saved'.value \in {ctl'.value} \cup past'.left
             /\ ctl'.put = "none" /\ past'.value # None =>
                  saved'.value \in {past'.value} \cup past'.left
  <2>1. ctl'.put = ctl.put /\ ctl'.value = ctl.value
    BY <1>1, <1>8
  <2>2. ~failed
    BY <1>2, <1>3, <1>8, <2>1 DEF InFlight
  <2>3. ctl'.put = "none" => v = Target(ctl)
    BY <1>1, <1>2, <1>8, <2>1 DEF InFlight
  <2> QED BY <1>4, <1>7, <1>8, <2>1, <2>2, <2>3 DEF LeftKept
<1> QED BY <1>5, <1>6, <1>8 DEF LeftKept

LEMMA RemountLeft == IInv /\ LeftKept /\ Remount => LeftKept'
<1> SUFFICES ASSUME IInv, LeftKept, Remount PROVE LeftKept'
  OBVIOUS
<1>1. ctl'.put = "none" /\ ~InFlight(ctl')
  BY DEF Remount, Mounted, InFlight
<1>2. spent'.others = spent.others /\ UNCHANGED <<saved, failed>>
  BY DEF Remount, IInv, TypeOK, Spent
<1>3. CASE ~InFlight(ctl)
  <2>1. UNCHANGED <<gone, past>> /\ ctl.put = "none"
    BY <1>3 DEF Remount, InFlight
  <2> QED BY <1>1, <1>2, <2>1 DEF LeftKept, More
<1>4. CASE InFlight(ctl)
  <2> DEFINE a == Abandoned(ctl)
  <2>1. /\ a.put = ctl.put /\ a.value = ctl.value /\ a.queued = ctl.queued
        /\ Target(a) = Target(ctl)
    BY AbandonedLemma DEF IInv, TypeOK
  <2>2. /\ gone' = gone \cup {a}
        /\ past'.left = past.left \cup {Target(ctl)} /\ past'.value = past.value
    BY <1>4 DEF Remount, IInv, TypeOK, Past
  <2> HIDE DEF a
  <2>3. \A c \in gone' : Target(c) \in past'.left
    BY <2>1, <2>2 DEF LeftKept
  <2>4. ASSUME spent'.others = 0, ~failed', ~More'
        PROVE  saved'.value \in past'.left
    <3>1. ~More /\ a.put # "sent" /\ a.queued = None
      BY <2>2, <2>4 DEF More
    <3>2. ctl.put = "done" /\ Target(ctl) = ctl.value
      BY <1>4, <2>1, <3>1 DEF InFlight, Target, IInv, TypeOK, Control
    <3> QED BY <1>2, <2>2, <2>4, <3>1, <3>2 DEF LeftKept
  <2> QED BY <1>1, <2>3, <2>4 DEF LeftKept
<1> QED BY <1>3, <1>4

LEMMA ServeLeft == IInv /\ LeftKept /\ Serve => LeftKept'
<1> SUFFICES ASSUME IInv, LeftKept, Serve PROVE LeftKept'
  OBVIOUS
<1>1. ctl \in Control /\ ctl.put = "sent"
  BY DEF IInv, TypeOK, Serve
<1>2. /\ ctl'.put = "done" /\ ctl'.value = ctl.value /\ ctl'.queued = ctl.queued
      /\ saved'.value = ctl.value
      /\ UNCHANGED <<failed, gone, past, spent>>
  BY <1>1 DEF Serve, SetJudgment, Control
<1> QED BY <1>1, <1>2 DEF LeftKept, More, InFlight, Target

LEMMA ServeAbandonedLeft ==
  ASSUME NEW c \in gone PROVE IInv /\ LeftKept /\ ServeAbandoned(c) => LeftKept'
<1> SUFFICES ASSUME IInv, LeftKept, ServeAbandoned(c) PROVE LeftKept'
  OBVIOUS
<1>1. c \in Chain
  BY DEF IInv, TypeOK
<1> DEFINE d == [c EXCEPT !.put = "done", !.row = saved']
<1>2. /\ d.value = c.value /\ d.queued = c.queued /\ Target(d) = Target(c)
  BY <1>1 DEF Chain, Target
<1>3. /\ saved'.value = c.value /\ gone' = (gone \ {c}) \cup {d}
      /\ UNCHANGED <<failed, ctl, past, spent>>
  BY DEF ServeAbandoned, SetJudgment
<1> HIDE DEF d
<1>4. \A e \in gone' : Target(e) \in past'.left
  BY <1>2, <1>3 DEF LeftKept
<1>5. ~More' => saved'.value \in past'.left
  <2>1. ~More' => c.queued = None
    BY <1>2, <1>3 DEF More
  <2> QED BY <1>3, <2>1 DEF LeftKept, Target
<1> QED BY <1>3, <1>4, <1>5 DEF LeftKept

LEMMA SavedLeft == IInv /\ LeftKept /\ Saved => LeftKept'
<1> SUFFICES ASSUME IInv, LeftKept, Saved PROVE LeftKept'
  OBVIOUS
<1>1. /\ ctl \in Control /\ ctl.put = "done" /\ InFlight(ctl)
      /\ ~ctl.dirty => Input(ctl) = Target(ctl)
  BY DEF IInv, TypeOK, InputIsTarget, Saved, InFlight
<1>2. /\ ctl'.queued = None /\ ctl'.value = Target(ctl)
      /\ ctl.queued # None => ctl'.put = "sent"
      /\ ctl.queued = None => ctl'.put = "none"
  BY <1>1, SucceedLemma DEF Saved
<1>3. past'.value = past.value /\ past'.left = past.left
  BY ShowLemma DEF IInv, TypeOK, Saved
<1>4. UNCHANGED <<saved, gone, spent>> /\ failed' = (failed /\ ctl.queued = None)
  BY DEF Saved
<1>5. Target(ctl') = past'.value
  BY <1>1, <1>2, <1>3 DEF LeftKept, Target
<1>6. ctl'.put = "none" => ctl.value = past.value
  BY <1>1, <1>2 DEF LeftKept, Target
<1> QED BY <1>1, <1>2, <1>3, <1>4, <1>5, <1>6 DEF LeftKept, More

LEMMA SavedAbandonedLeft ==
  ASSUME NEW c \in gone PROVE IInv /\ LeftKept /\ SavedAbandoned(c) => LeftKept'
<1> SUFFICES ASSUME IInv, LeftKept, SavedAbandoned(c) PROVE LeftKept'
  OBVIOUS
<1>1. c \in Chain /\ c.put = "done"
  BY DEF IInv, TypeOK, SavedAbandoned
<1> DEFINE d == [c EXCEPT !.put = "sent", !.value = c.queued, !.row = None, !.queued = None]
<1>2. c.queued # None => d.put = "sent" /\ Target(d) = Target(c)
  BY <1>1 DEF Chain, Target
<1>3. /\ c.queued = None => gone' = gone \ {c}
      /\ c.queued # None => gone' = (gone \ {c}) \cup {d}
      /\ UNCHANGED <<saved, ctl, spent>>
      /\ failed' = (failed /\ c.queued = None)
  BY DEF SavedAbandoned
<1> HIDE DEF d
<1>4. past'.value = past.value /\ past'.left = past.left
  BY ShowLemma DEF IInv, TypeOK, SavedAbandoned
<1>5. \A e \in gone' : Target(e) \in past'.left
  BY <1>2, <1>3, <1>4 DEF LeftKept
<1>6. ~More' => ~More /\ c.queued = None
  BY <1>1, <1>2, <1>3 DEF More
<1> QED BY <1>3, <1>4, <1>5, <1>6 DEF LeftKept

LEMMA SaveFailsLeft == IInv /\ LeftKept /\ SaveFails => LeftKept'
<1> SUFFICES ASSUME IInv, LeftKept, SaveFails PROVE LeftKept'
  OBVIOUS
<1>1. failed' /\ past' = past
  BY DEF SaveFails
<1>2. gone' \subseteq gone
  BY DEF SaveFails
<1>3. InFlight(ctl') => ctl' = ctl
  BY FallBackLemma DEF SaveFails, IInv, TypeOK, InFlight
<1> QED BY <1>1, <1>2, <1>3 DEF LeftKept, InFlight, Target

(* Steps that leave the row, the saves and the choice alone                 *)
LEMMA QuietLeft ==
  ASSUME LeftKept, UNCHANGED <<saved, failed, gone>>, spent'.others = spent.others,
         past'.value = past.value, past'.left = past.left,
         ctl'.put = ctl.put, ctl'.queued = ctl.queued,
         InFlight(ctl) => ctl'.value = ctl.value
  PROVE  LeftKept'
<1>1. InFlight(ctl) => InFlight(ctl') /\ Target(ctl') = Target(ctl)
  BY DEF InFlight, Target
<1>2. More' <=> More
  BY DEF More
<1> QED BY <1>1, <1>2 DEF LeftKept, InFlight

LEMMA NextLeft == IInv /\ LeftKept /\ [Next]_vars => LeftKept'
<1> SUFFICES ASSUME IInv, LeftKept, [Next]_vars PROVE LeftKept'
  OBVIOUS
<1>1. CASE Render
  <2>1. /\ ctl \in Control /\ shown \in Row /\ ctl.processed # shown.at
        /\ ~InFlight(ctl) => ctl.queued = None /\ ctl.value = ctl.confirmed
        /\ ~ctl.dirty => Input(ctl) = Target(ctl)
        /\ ctl' = Follow(ctl, shown)
    BY <1>1 DEF IInv, Render, Rendered, TypeOK, InputIsTarget
  <2>2. /\ ctl'.put = ctl.put /\ ctl'.queued = ctl.queued
        /\ InFlight(ctl) => ctl'.value = ctl.value
    BY <2>1, FollowLemma
  <2> QED BY <1>1, <2>2, QuietLeft DEF Render
<1>2. ASSUME NEW s \in Statuses, HandleStatusChange(s) PROVE LeftKept'
  <2> DEFINE d == [ctl EXCEPT !.status = s]
  <2>1. ctl \in Control
    BY DEF IInv, TypeOK
  <2>2. /\ d \in Control
        /\ Input(d) = [status |-> s, note |-> ctl.note] /\ Input(d) \in Value
        /\ d.put = ctl.put /\ d.value = ctl.value /\ d.row = ctl.row
        /\ d.queued = ctl.queued
    BY <2>1 DEF Control, Input, Value
  <2>3. spent'.others = spent.others
    BY <1>2 DEF IInv, TypeOK, Spent, HandleStatusChange, Writes
  <2>4. Ask(d, Input(d)) /\ UNCHANGED <<saved, gone>>
    BY <1>2, <2>2 DEF HandleStatusChange
  <2> HIDE DEF d
  <2> QED BY <2>2, <2>3, <2>4, AskLeft
<1>3. ASSUME NEW n \in Notes, HandleNoteChange(n) PROVE LeftKept'
  <2>1. /\ ctl'.put = ctl.put /\ ctl'.value = ctl.value /\ ctl'.queued = ctl.queued
        /\ spent'.others = spent.others
    BY <1>3 DEF IInv, TypeOK, Control, Spent, HandleNoteChange, Writes
  <2> QED BY <1>3, <2>1, QuietLeft DEF HandleNoteChange
<1>4. CASE HandleNoteBlur
  <2>1. ctl \in Control /\ Input(ctl) \in Value
    BY DEF IInv, TypeOK, Control, Input, Value
  <2> QED BY <1>4, <2>1, AskLeft DEF HandleNoteBlur
<1>5. CASE SendFetch \/ FetchFails
  <2>1. spent'.others = spent.others /\ UNCHANGED <<saved, failed, gone, past, ctl>>
    BY <1>5 DEF IInv, TypeOK, Spent, SendFetch, FetchFails, Fault
  <2> QED BY <2>1, QuietLeft
<1>6. CASE ReadFindings \/ UNCHANGED vars
  BY <1>6, QuietLeft DEF ReadFindings, vars
<1>7. CASE FetchAnswered
  <2>1. past'.value = past.value /\ past'.left = past.left
    BY <1>7, ShowLemma DEF IInv, TypeOK, FetchAnswered
  <2> QED BY <1>7, <2>1, QuietLeft DEF FetchAnswered
<1>8. ASSUME NEW v \in Value, OtherSaves(v) PROVE LeftKept'
  <2>1. spent'.others # 0 /\ past'.value = past.value /\ past'.left = past.left
    BY <1>8, BoundsAssumption DEF IInv, TypeOK, Spent, Past, OtherSaves
  <2> QED BY <1>8, <2>1 DEF LeftKept, OtherSaves
<1> QED BY <1>1, <1>2, <1>3, <1>4, <1>5, <1>6, <1>7, <1>8, RemountLeft, ServeLeft,
     ServeAbandonedLeft, SavedLeft, SavedAbandonedLeft, SaveFailsLeft DEF Next

(* The invariant of the control and its saves.                              *)
THEOREM Invariance == Spec => [](IInv /\ LeftKept)
  BY InitIInv, NextIInv, InitLeft, NextLeft, PTL DEF Spec

(* Every variable keeps its type, for any judgments and any bounds.         *)
THEOREM TypeCorrect == Spec => []TypeOK
<1>1. IInv => TypeOK
  BY DEF IInv
<1> QED BY <1>1, Invariance, PTL

(* No choice of the user is lost or overtaken by an earlier one, whatever   *)
(* is skipped on the way and whichever control is left with a save under    *)
(* way, except by the last of what a control was asked that was left while  *)
(* it still saved (judgment-control.tsx, requestSave and send).             *)
THEOREM LastChoiceKept == Spec => []LastChoiceWins
<1>1. IInv /\ LeftKept => LastChoiceWins
  <2> SUFFICES ASSUME IInv, LeftKept, Settled, ~failed, past.value # None
               PROVE  /\ ~past.rival => saved.value = past.value
                      /\ spent.others = 0 => saved.value \in {past.value} \cup past.left
    BY DEF LastChoiceWins
  <2>1. ~InFlight(ctl) /\ ctl.put = "none" /\ gone = {}
    BY DEF Settled, InFlight
  <2> QED BY <2>1 DEF IInv, ChoiceKept, LeftKept, More
<1> QED BY <1>1, Invariance, PTL

(* A failed save falls back to what the page shows (lastConfirmedRef).      *)
THEOREM FallBackShown == Spec => []FallBackIsShown
<1>1. IInv => FallBackIsShown
  BY DEF IInv
<1> QED BY <1>1, Invariance, PTL

(* An idle control shows what the page shows.                               *)
THEOREM InputShown == Spec => []InputShowsJudgment
<1>1. IInv => InputShowsJudgment
  BY DEF IInv, InputIsTarget, FallBackIsShown, InputShowsJudgment, InFlight, Target
<1> QED BY <1>1, Invariance, PTL
=============================================================================
