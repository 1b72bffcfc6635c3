--------------------------- MODULE JudgmentAutosave ---------------------------
(***************************************************************************)
(* The judgment of one finding, saved as the user makes it: the control    *)
(* with its radio buttons and its memo, the saves it sends one at a time,  *)
(* the page's copy of the judgment, and the row on the server.  The page   *)
(* reads its list again while the run goes on, another browser may write   *)
(* the row, and the control is made anew when the user selects another     *)
(* finding and returns.                                                    *)
(*                                                                         *)
(* A step is one event or answer handled by the browser, a render with its *)
(* effects, or one handler of the server.  The row's updatedAt is modelled *)
(* as a number that grows with every write, which leaves out two writes in *)
(* one millisecond.  The wording of errors, the highlight and other        *)
(* findings are left out, and so is the page being left for another run.   *)
(***************************************************************************)
EXTENDS Naturals

CONSTANTS Statuses, Notes,  \* values of the radio buttons and of the memo
          First,            \* the judgment a finding is created with
          MaxWrites,        \* bound on the user's choices and edits
          MaxFetches,       \* bound on reads of the list
          MaxFaults,        \* bound on requests that fail
          MaxOthers,        \* bound on writes of other browsers
          MaxMounts         \* bound on selecting another finding and returning

Value == [status : Statuses, note : Notes]
ASSUME FirstAssumption == First \in Value
ASSUME BoundsAssumption ==
  {MaxWrites, MaxFetches, MaxFaults, MaxOthers, MaxMounts} \subseteq Nat

VARIABLES saved,   \* the row: value and updatedAt
          shown,   \* the judgment in the page's list of findings
          failed,  \* judgmentErrors has the finding
          fetch,   \* the list's heavy refresh under way: none, sent, or what was read
          ctl,     \* the mounted control
          gone,    \* unmounted controls with a save under way
          past,    \* history of the user's choices and of what was shown
          spent    \* how much of each bound is used up

vars == <<saved, shown, failed, fetch, ctl, gone, past, spent>>

Row  == [value : Value, at : Nat]
None == [at |-> "none"]
Sent == [at |-> "sent"]

(* A chain of saves: the one under way, which the server has yet to see     *)
(* ("sent") or has committed as row, and the value that waits for it.       *)
Chain == [put : {"none", "sent", "done"}, value : Value, row : Row \cup {None},
          queued : Value \cup {None}]

(* What the user last asked to save, and whether another writer was about;  *)
(* the last of what each control was asked that was left while it saved;    *)
(* whether what is shown is the answer to the mounted control's own save,   *)
(* and whether an answer was replaced before it was drawn.                  *)
Past == [value : Value \cup {None}, rival : BOOLEAN, left : SUBSET Value,
         own : BOOLEAN, skipped : BOOLEAN]

Control ==
  [put : {"none", "sent", "done"}, value : Value, row : Row \cup {None},
   queued : Value \cup {None},
   status : Statuses, note : Notes,      \* what the inputs show
   dirty : BOOLEAN, elsewhere : BOOLEAN, label : {"idle", "saving", "saved"},
   processed : Nat,                      \* processedUpdatedAtRef
   confirmed : Value]                    \* lastConfirmedRef

Spent == [writes : 0 .. MaxWrites, fetches : 0 .. MaxFetches, faults : 0 .. MaxFaults,
          others : 0 .. MaxOthers, mounts : 0 .. MaxMounts]

TypeOK ==
  /\ saved \in Row /\ shown \in Row /\ failed \in BOOLEAN
  /\ fetch \in Row \cup {None, Sent}
  /\ ctl \in Control
  /\ gone \subseteq Chain
  /\ past \in Past
  /\ spent \in Spent

-----------------------------------------------------------------------------
(* The control's own functions *)

Input(c) == [status |-> c.status, note |-> c.note]

InFlight(c) == c.put # "none"

(* The control as it is made for the judgment j; value is lastSentRef.      *)
Mounted(j) ==
  [put |-> "none", value |-> j.value, row |-> None, queued |-> None,
   status |-> j.value.status, note |-> j.value.note,
   dirty |-> FALSE, elsewhere |-> FALSE, label |-> "idle",
   processed |-> j.at, confirmed |-> j.value]

Send(c, v) == [c EXCEPT !.put = "sent", !.value = v, !.queued = None, !.label = "saving"]

(* What a request to save is compared with *)
Target(c) == IF c.queued # None THEN c.queued ELSE c.value

(* Definitions named Mutant... are deliberate mistakes: a property of the   *)
(* run must fail when the one takes the place of the definition below it.   *)
MutantKeepsQueue(c, v) ==
  LET asked == [c EXCEPT !.dirty = FALSE] IN
  IF v = Target(c)
  THEN [asked EXCEPT !.elsewhere = @ /\ (InFlight(c) \/ c.queued # None)]
  ELSE IF InFlight(c)
  THEN [asked EXCEPT !.queued = IF v = c.value THEN @ ELSE v]
  ELSE Send(asked, v)

(* requestSave: nothing to do when the value is the one on its way or       *)
(* saved; one save at a time, and of those that wait only the last.         *)
RequestSave(c, v) ==
  LET asked == [c EXCEPT !.dirty = FALSE] IN
  IF v = Target(c)
  THEN [asked EXCEPT !.elsewhere = @ /\ (InFlight(c) \/ c.queued # None)]
  ELSE IF InFlight(c)
  THEN [asked EXCEPT !.queued = IF v = c.value THEN None ELSE v]
  ELSE Send(asked, v)

(* The effect that follows the page's judgment                              *)
Follow(c, j) ==
  LET heard == [c EXCEPT !.processed = j.at, !.confirmed = j.value] IN
  IF c.processed = j.at THEN c
  ELSE IF InFlight(c) \/ c.queued # None \/ j.value = c.value THEN heard
  ELSE IF c.dirty THEN [heard EXCEPT !.value = j.value, !.elsewhere = TRUE]
  ELSE [heard EXCEPT !.value = j.value,
                     !.status = j.value.status, !.note = j.value.note]

MutantConfirmsNothing(c) ==
  LET done == [c EXCEPT !.put = "none", !.row = None] IN
  IF c.queued # None THEN Send(done, c.queued)
  ELSE [done EXCEPT !.label = "saved", !.elsewhere = FALSE]

(* The save has succeeded: it is the value to fall back to, and the one     *)
(* that waited goes out.                                                    *)
Succeed(c) ==
  LET done == [c EXCEPT !.put = "none", !.row = None, !.confirmed = c.value] IN
  IF c.queued # None THEN Send(done, c.queued)
  ELSE [done EXCEPT !.label = "saved", !.elsewhere = FALSE]

(* The save has failed: the inputs fall back, and what waited is dropped.   *)
FallBack(c) ==
  [c EXCEPT !.put = "none", !.row = None, !.queued = None, !.value = c.confirmed,
            !.status = c.confirmed.status, !.note = c.confirmed.note,
            !.label = "idle", !.dirty = FALSE, !.elsewhere = FALSE]

Abandoned(c) == [put |-> c.put, value |-> c.value, row |-> c.row, queued |-> c.queued]

-----------------------------------------------------------------------------
Init ==
  /\ saved = [value |-> First, at |-> 0]
  /\ shown = saved
  /\ failed = FALSE
  /\ fetch = None
  /\ ctl = Mounted(saved)
  /\ gone = {}
  /\ past = [value |-> None, rival |-> FALSE, left |-> {}, own |-> FALSE, skipped |-> FALSE]
  /\ spent = [writes |-> 0, fetches |-> 0, faults |-> 0, others |-> 0, mounts |-> 0]

(* No render is due: the user acts on what is drawn.                        *)
Rendered == shown.at = ctl.processed

Render ==
  /\ ~Rendered
  /\ ctl' = Follow(ctl, shown)
  /\ UNCHANGED <<saved, shown, failed, fetch, gone, past, spent>>

(* The user asks the control c to save v.  handleSaveJudgment clears the    *)
(* page's line about a failure when a save goes out.                        *)
Ask(c, v) ==
  /\ ctl' = RequestSave(c, v)
  /\ failed' = (failed /\ (InFlight(c) \/ ~InFlight(ctl')))
  /\ past' = IF v = Target(c) THEN past
             ELSE [past EXCEPT !.value = v,
                               !.rival = gone # {} \/ (@ /\ InFlight(c))]

Writes == /\ Rendered
          /\ spent.writes < MaxWrites
          /\ spent' = [spent EXCEPT !.writes = @ + 1]

(* A radio button.  The memo has lost the focus before it is clicked.       *)
HandleStatusChange(s) ==
  /\ Writes
  /\ ~ctl.dirty /\ s # ctl.status
  /\ Ask([ctl EXCEPT !.status = s], [status |-> s, note |-> ctl.note])
  /\ UNCHANGED <<saved, shown, fetch, gone>>

HandleNoteChange(n) ==
  /\ Writes
  /\ n # ctl.note
  /\ ctl' = [ctl EXCEPT !.note = n, !.dirty = TRUE,
                        !.label = IF @ = "saved" THEN "idle" ELSE @]
  /\ UNCHANGED <<saved, shown, failed, fetch, gone, past>>

HandleNoteBlur ==
  /\ Rendered
  /\ Ask(ctl, Input(ctl))
  /\ UNCHANGED <<saved, shown, fetch, gone, spent>>

(* Another finding is selected, and this one again.  A save under way goes  *)
(* on without its control.                                                  *)
Remount ==
  /\ Rendered /\ ~ctl.dirty
  /\ spent.mounts < MaxMounts
  /\ spent' = [spent EXCEPT !.mounts = @ + 1]
  /\ IF InFlight(ctl)
     THEN /\ gone' = gone \cup {Abandoned(ctl)}
          /\ past' = [past EXCEPT !.left = @ \cup {Target(ctl)}]
     ELSE UNCHANGED <<gone, past>>
  /\ ctl' = Mounted(shown)
  /\ UNCHANGED <<saved, shown, failed, fetch>>

(* PUT /findings/:id/judgment replaces the row.                             *)
SetJudgment(v) == saved' = [value |-> v, at |-> saved.at + 1]

Serve ==
  /\ ctl.put = "sent"
  /\ SetJudgment(ctl.value)
  /\ ctl' = [ctl EXCEPT !.put = "done", !.row = saved']
  /\ UNCHANGED <<shown, failed, fetch, gone, past, spent>>

ServeAbandoned(c) ==
  /\ c.put = "sent"
  /\ SetJudgment(c.value)
  /\ gone' = (gone \ {c}) \cup {[c EXCEPT !.put = "done", !.row = saved']}
  /\ UNCHANGED <<shown, failed, fetch, ctl, past, spent>>

(* The page's copy of the judgment is replaced, and drawn later.            *)
Show(j, own) ==
  /\ shown' = j
  /\ past' = [past EXCEPT !.own = own, !.skipped = @ \/ ~Rendered]

(* The answer of a save: the page's copy is replaced, then the control      *)
(* goes on.                                                                 *)
Saved ==
  /\ ctl.put = "done"
  /\ Show(ctl.row, TRUE)
  /\ ctl' = Succeed(ctl)
  /\ failed' = (failed /\ ctl.queued = None)
  /\ UNCHANGED <<saved, fetch, gone, spent>>

SavedAbandoned(c) ==
  /\ c.put = "done"
  /\ Show(c.row, FALSE)
  /\ gone' = (gone \ {c}) \cup
               (IF c.queued = None THEN {}
                ELSE {[c EXCEPT !.put = "sent", !.value = c.queued,
                                !.row = None, !.queued = None]})
  /\ failed' = (failed /\ c.queued = None)
  /\ UNCHANGED <<saved, fetch, ctl, spent>>

Fault == /\ spent.faults < MaxFaults
         /\ spent' = [spent EXCEPT !.faults = @ + 1]

(* A save fails, or it has been committed and the answer is lost.           *)
SaveFails ==
  /\ Fault
  /\ \/ /\ InFlight(ctl)
        /\ ctl' = FallBack(ctl)
        /\ UNCHANGED gone
     \/ /\ \E c \in gone : gone' = gone \ {c}
        /\ UNCHANGED ctl
  /\ failed' = TRUE
  /\ UNCHANGED <<saved, shown, fetch, past>>

(* A heavy refresh, one at a time: the handler reads the row, the answer    *)
(* replaces the page's copy.                                                *)
SendFetch ==
  /\ fetch = None
  /\ spent.fetches < MaxFetches
  /\ spent' = [spent EXCEPT !.fetches = @ + 1]
  /\ fetch' = Sent
  /\ UNCHANGED <<saved, shown, failed, ctl, gone, past>>

ReadFindings ==
  /\ fetch = Sent
  /\ fetch' = saved
  /\ UNCHANGED <<saved, shown, failed, ctl, gone, past, spent>>

FetchAnswered ==
  /\ fetch \notin {None, Sent}
  /\ Show(fetch, FALSE)
  /\ fetch' = None
  /\ UNCHANGED <<saved, failed, ctl, gone, spent>>

FetchFails ==
  /\ fetch # None
  /\ Fault
  /\ fetch' = None
  /\ UNCHANGED <<saved, shown, failed, ctl, gone, past>>

(* Another browser saves a judgment of the same finding.                    *)
OtherSaves(v) ==
  /\ spent.others < MaxOthers
  /\ spent' = [spent EXCEPT !.others = @ + 1]
  /\ SetJudgment(v)
  /\ past' = [past EXCEPT !.rival = TRUE]
  /\ UNCHANGED <<shown, failed, fetch, ctl, gone>>

Next ==
  \/ Render \/ HandleNoteBlur \/ Remount
  \/ \E s \in Statuses : HandleStatusChange(s)
  \/ \E n \in Notes : HandleNoteChange(n)
  \/ Serve \/ Saved \/ SaveFails
  \/ \E c \in gone : ServeAbandoned(c) \/ SavedAbandoned(c)
  \/ SendFetch \/ ReadFindings \/ FetchAnswered \/ FetchFails
  \/ \E v \in Value : OtherSaves(v)

Spec == Init /\ [][Next]_vars

-----------------------------------------------------------------------------
(* No save is under way or waits to be drawn.                               *)
Settled == ~InFlight(ctl) /\ gone = {} /\ Rendered

(* When nothing is under way and the page does not say that saving failed,  *)
(* the row holds what the user asked for last, however many choices were    *)
(* made meanwhile and whichever control was left with a save under way,     *)
(* unless another browser has written, or the choice was made while a       *)
(* control that was left still saved.  Then the row may hold instead the    *)
(* last of what that control was asked, and nothing else: never a choice    *)
(* that was replaced before it was sent, or taken back (requestSave, and    *)
(* the key that makes the control anew).                                    *)
LastChoiceWins ==
  Settled /\ ~failed /\ past.value # None =>
    /\ ~past.rival => saved.value = past.value
    /\ spent.others = 0 => saved.value \in {past.value} \cup past.left

(* A control with nothing under way shows the judgment the page shows,      *)
(* unless the memo is being edited, or an answer was replaced by the next   *)
(* before it was drawn: the control tells a new judgment from the one it    *)
(* has seen by its time alone.                                              *)
InputShowsJudgment ==
  Rendered /\ ~InFlight(ctl) /\ ~ctl.dirty /\ ~past.skipped => Input(ctl) = shown.value

(* What a failed save falls back to is the judgment the page shows: the     *)
(* newer of the control's last success, drawn or not, and the last judgment *)
(* that arrived and was drawn; with the same exception.                     *)
FallBackIsShown ==
  (Rendered \/ past.own) /\ ~past.skipped => ctl.confirmed = shown.value

(* The comment on lastConfirmedRef: it is the newest value that is settled  *)
(* on the server.  Stated for a browser that is alone, with nothing failed  *)
(* and nothing under way.                                                   *)
ConfirmedIsNewest ==
  Settled /\ spent.others = 0 /\ spent.faults = 0 => ctl.confirmed = saved.value

=============================================================================
