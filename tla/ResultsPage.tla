----------------------------- MODULE ResultsPage -----------------------------
(***************************************************************************)
(* The results page of the web client against the server's rows: the event *)
(* hub and the event stream of the shown run, the refreshes the stream     *)
(* calls for, the gate that merges them, the control buttons, the selected *)
(* finding with its details, and the move from one run to another in the   *)
(* same page.                                                              *)
(*                                                                         *)
(* A step is one task of the browser (a message of the stream, an answer,  *)
(* a click, a render) or one handler of the server.  React collects the    *)
(* states a task sets and renders later: Render is a step of its own.      *)
(*                                                                         *)
(* Of a run's data the model keeps its status, the number of changes made  *)
(* (ver), and of those that added or changed findings (found).  The list   *)
(* of findings is a request of its own; the list of units is one too, and  *)
(* is left out, with the manuscript, the notices about slow generations    *)
(* and failed controls, and other browsers.  A filter is the set of the    *)
(* findings it hides.                                                      *)
(***************************************************************************)
EXTENDS FindingDetails, Sequences

CONSTANTS Filters,  \* sets of findings that the page can be told to hide
          Budgets   \* bounds, of which each behaviour is given one

ASSUME FiltersAssumption == Filters \subseteq SUBSET Findings

(* What may happen to the page: the changes of each run; lost connections,  *)
(* failed answers and restarts; clicks on buttons; findings selected and    *)
(* filters changed; moves to another run.                                   *)
Budget == [changes : [Runs -> Nat], faults : Nat, clicks : Nat, picks : Nat, moves : Nat]

ASSUME BudgetsAssumption == Budgets \subseteq Budget

VARIABLES db,        \* runs and findings in the database, as a snapshot per run
          stream,    \* the page's EventSource, its subscription, its events in transit
          id,        \* the run in the page's URL
          page,      \* states and refs of ResultsPage, with its requests in flight
          details,   \* the hook that fetches the details of findings
          rendered,  \* what the effects depend on, at the last render
          budget     \* what is left of the budget; changes are the last versions

vars == <<db, stream, id, page, details, rendered, budget>>

Kinds == {"light", "heavy"}

Snapshot == [run : Runs, status : {"running", "rest"},
             ver : Nat, found : Nat]

(* A fetchInitial or performRefresh on its way.  A part is None until the   *)
(* server has read it.                                                      *)
Pass == [kind : Kinds \cup {"initial"}, run : Runs,
         live : BOOLEAN,   \* its generation is requestGenerationRef.current
         here : BOOLEAN,   \* its scope is runScopeRef.current
         row : Snapshot \cup {None}, list : Snapshot \cup {None},
         light : {"out", "ok", "failed"}, heavy : {"out", "ok", "failed"}]

(* A runControlAction on its way; ver is the run's when the server answered *)
Control == [op : {"stop", "resume"}, run : Runs, here : BOOLEAN,
            step : {"sent", "answered", "waiting"}, ver : Nat]

Stream == [es : {"none", "connecting", "open", "dead"}, sub : BOOLEAN,
           wire : Seq({"open", "light", "heavy", "settled"})]

Page == [state : {"loading", "loaded", "error"},
         row : Snapshot \cup {None}, list : Snapshot \cup {None},
         fresh : {"current", "pending", "failed"},
         ended : BOOLEAN, conn : {"open", "reconnecting", "closed"},
         autoErr : BOOLEAN, manErr : BOOLEAN,
         dirty : Kinds \cup {"none"}, loud : BOOLEAN, pending : BOOLEAN,
         sel : Findings \cup {None}, hidden : SUBSET Findings,
         passes : SUBSET Pass, ctls : SUBSET Control]

TypeOK ==
  /\ db \in [Runs -> Snapshot]
  /\ stream \in Stream
  /\ id \in Runs
  /\ page \in Page
  /\ details \in Hook
  /\ rendered \in [supported : BOOLEAN, enabled : BOOLEAN, members : SUBSET Findings]
  /\ budget \in Budget

-----------------------------------------------------------------------------
(* The page's own functions.  Each maps a page to the page it leaves.       *)

NewPass(kind, r) ==
  [kind |-> kind, run |-> r, live |-> TRUE, here |-> TRUE,
   row |-> None, list |-> None,
   light |-> "out", heavy |-> IF kind = "light" THEN "ok" ELSE "out"]

Superseded(passes) == {[p EXCEPT !.live = FALSE] : p \in passes}

(* inFlightRef                                                              *)
InFlight(pg) == \E p \in pg.passes : p.here /\ p.kind # "initial"

(* performRefresh up to its first await                                     *)
PerformRefresh(pg, kind) ==
  [pg EXCEPT !.passes = Superseded(@) \cup {NewPass(kind, id)},
             !.fresh = IF kind = "heavy" THEN "pending" ELSE @]

Stronger(old, new) == IF "heavy" \in {old, new} THEN "heavy" ELSE "light"

(* Definitions named Mutant... are deliberate mistakes: a property of the   *)
(* run must fail when the one takes the place of the definition below it.   *)
MutantJoinsOnly(pg, kind, source) ==
  LET heard == IF source = "manual" THEN [pg EXCEPT !.loud = TRUE, !.manErr = FALSE]
                                    ELSE pg
  IN IF InFlight(pg) THEN heard ELSE PerformRefresh(heard, kind)

(* requestRefresh: at most one refresh at a time, later calls fold into     *)
(* dirtyRef.                                                                *)
RequestRefresh(pg, kind, source) ==
  LET heard == IF source = "manual" THEN [pg EXCEPT !.loud = TRUE, !.manErr = FALSE]
                                    ELSE pg
  IN IF InFlight(pg)
     THEN [heard EXCEPT !.dirty = Stronger(@, kind)]
     ELSE PerformRefresh(heard, kind)

(* settleIdle, for the chains of one scope: a chain of the scope the page   *)
(* is in then clears pending.                                               *)
SettleIdle(pg, here) ==
  LET freed == {c \in pg.ctls : c.step = "waiting" /\ c.here = here}
  IN [pg EXCEPT !.ctls = @ \ freed, !.pending = @ /\ ~(here /\ freed # {})]

MutantFollowsOnce(pg, p) ==
  LET left == [pg EXCEPT !.passes = @ \ {p}, !.dirty = "none"]
  IN SettleIdle(IF p.here THEN [left EXCEPT !.loud = FALSE] ELSE left, p.here)

(* finish of startPass: what was folded meanwhile runs next, until nothing  *)
(* is left; a refresh begun for another run leaves the gate alone.          *)
Finish(pg, p) ==
  LET left == [pg EXCEPT !.passes = @ \ {p}]
  IN IF ~p.here THEN SettleIdle(left, FALSE)
     ELSE IF left.dirty # "none"
     THEN PerformRefresh([left EXCEPT !.dirty = "none"], left.dirty)
     ELSE SettleIdle([left EXCEPT !.loud = FALSE], TRUE)

(* The last callback of performRefresh: one line for a failure              *)
Report(pg, p) ==
  IF ~p.live THEN pg
  ELSE IF "failed" \in {p.light, p.heavy}
  THEN IF pg.loud THEN [pg EXCEPT !.manErr = TRUE, !.autoErr = FALSE]
                  ELSE [pg EXCEPT !.autoErr = TRUE]
  ELSE [pg EXCEPT !.autoErr = FALSE, !.manErr = @ /\ ~pg.loud]

(* Both halves of a refresh have settled, or one of them has not            *)
Progress(pg, old, p) ==
  LET next == [pg EXCEPT !.passes = (@ \ {old}) \cup {p}]
  IN IF "out" \in {p.light, p.heavy} THEN next ELSE Finish(Report(next, p), p)

MutantAnyGeneration(pg, p) ==
  IF pg.state # "loaded" THEN pg
  ELSE [pg EXCEPT !.row = p.row,
                  !.ended = @ /\ p.row.status # "running"]

(* lightPromise: the run is shown at once, a running run is to be    *)
(* watched again, and a manual refresh revives a stream that was closed.    *)
ShowLight(pg, p) ==
  IF ~(p.live /\ pg.state = "loaded") THEN pg
  ELSE [pg EXCEPT
    !.row = p.row,
    !.ended = @ /\ p.row.status # "running",
    !.conn = IF p.row.status = "running" /\ pg.loud /\ @ = "closed"
             THEN "reconnecting" ELSE @]

ShowHeavy(pg, p) ==
  IF ~(p.live /\ pg.state = "loaded") THEN pg
  ELSE [pg EXCEPT !.list = p.list, !.fresh = "current"]

(* fetchInitial                                                             *)
FetchInitial(pg, r) ==
  [pg EXCEPT !.passes = Superseded(@) \cup {NewPass("initial", r)},
             !.state = "loading", !.row = None, !.list = None,
             !.fresh = "current", !.ended = FALSE, !.conn = "open",
             !.autoErr = FALSE, !.manErr = FALSE, !.pending = FALSE,
             !.sel = None, !.hidden = {}]

Supported(pg) == pg.state = "loaded" /\ pg.row.status = "running" /\ ~pg.ended
Enabled(pg)   == Supported(pg) /\ pg.conn # "closed"

(* The findings in the list, and those of the selected group (memberIds)    *)
Visible(pg) == IF pg.state = "loaded" THEN Listed(pg.list) \ pg.hidden ELSE {}
Members(pg) == IF pg.state = "loaded"
               THEN SelectedGroup(pg.sel, Listed(pg.list), Visible(pg)) ELSE {}

Rendering == [supported |-> Supported(page), enabled |-> Enabled(page),
              members |-> Members(page)]

(* No render is due.  React renders in a task of its own, soon after the    *)
(* task that set the states: an answer already on its way may be handled    *)
(* before it, a whole round trip to the server or a click may not.          *)
Rendered == rendered = Rendering

NoStream   == [es |-> "none", sub |-> FALSE, wire |-> <<>>]
Connecting == [es |-> "connecting", sub |-> FALSE, wire |-> <<>>]

-----------------------------------------------------------------------------
(* The page is opened on some run.  A run that is at rest by then has       *)
(* settled before the page's first request, and so has a run without a      *)
(* change to come.                                                          *)
Init ==
  /\ budget \in Budgets
  /\ db = [r \in Runs |-> [run |-> r, ver |-> 0, found |-> 0,
                            status |-> IF budget.changes[r] = 0 THEN "rest" ELSE "running"]]
  /\ stream = NoStream
  /\ id = CHOOSE r \in Runs : TRUE
  /\ details = NoDetails
  /\ rendered = [supported |-> FALSE, enabled |-> FALSE, members |-> {}]
  /\ page = [state |-> "loading", row |-> None, list |-> None,
             fresh |-> "current", ended |-> FALSE, conn |-> "open",
             autoErr |-> FALSE, manErr |-> FALSE, dirty |-> "none", loud |-> FALSE,
             pending |-> FALSE, sel |-> None, hidden |-> {}, ctls |-> {}, passes |-> {NewPass("initial", id)}]

Fault == /\ budget.faults > 0
         /\ budget' = [budget EXCEPT !.faults = @ - 1]
Click == /\ budget.clicks > 0 /\ Rendered
         /\ budget' = [budget EXCEPT !.clicks = @ - 1]
Pick  == /\ budget.picks > 0 /\ Rendered
         /\ budget' = [budget EXCEPT !.picks = @ - 1]

(* The server *)

(* emit, to the one subscriber there may be; the server closes the stream   *)
(* once run-settled is written.                                             *)
Emit(r, event) ==
  IF stream.sub /\ r = id
  THEN [stream EXCEPT !.wire = Append(@, event), !.sub = event # "settled"]
  ELSE stream

(* The run loop commits a change, and tells of it in the same segment.      *)
Change(r) ==
  /\ db[r].status = "running" /\ db[r].ver < budget.changes[r]
  /\ \/ /\ db' = [db EXCEPT ![r].ver = @ + 1]
        /\ stream' = Emit(r, "light")
     \/ /\ db' = [db EXCEPT ![r].ver = @ + 1, ![r].found = @ + 1]
        /\ stream' = Emit(r, "heavy")
     \/ /\ db' = [db EXCEPT ![r].ver = @ + 1, ![r].status = "rest"]
        /\ stream' = Emit(r, "settled")
  /\ UNCHANGED <<id, page, details, rendered, budget>>

(* The server goes down and is started again: reconciled runs are at rest,  *)
(* the stream is lost.                                                      *)
Restart ==
  /\ Fault
  /\ \E r \in Runs : db[r].status = "running"
  /\ \A r \in Runs : db[r].status = "running" => db[r].ver < budget.changes[r]
  /\ db' = [r \in Runs |-> IF db[r].status = "rest" THEN db[r]
                           ELSE [db[r] EXCEPT !.ver = @ + 1, !.status = "rest"]]
  /\ IF stream.es = "open"
     THEN /\ stream' = Connecting
          /\ page' = [page EXCEPT !.conn = "reconnecting"]
     ELSE UNCHANGED <<stream, page>>
  /\ UNCHANGED <<id, details, rendered>>

(* A handler of a GET reads one part of a pass.                             *)
Read(p, part) ==
  /\ p[part] = None /\ Rendered
  /\ part = "list" => p.kind # "light"
  /\ page' = [page EXCEPT !.passes = (@ \ {p}) \cup {[p EXCEPT ![part] = db[p.run]]}]
  /\ UNCHANGED <<db, stream, id, details, rendered, budget>>

(* POST .../stop and .../resume; a refused one changes nothing.             *)
ServeControl(c) ==
  /\ c.step = "sent" /\ Rendered
  /\ \/ /\ c.op = "stop" /\ db[c.run].status = "running" /\ db[c.run].ver < budget.changes[c.run]
        /\ db' = [db EXCEPT ![c.run].ver = @ + 1]
        /\ stream' = Emit(c.run, "light")
     \/ /\ c.op = "resume" /\ db[c.run].status = "rest" /\ db[c.run].ver < budget.changes[c.run]
        /\ db' = [db EXCEPT ![c.run].ver = @ + 1, ![c.run].status = "running"]
        /\ UNCHANGED stream
     \/ /\ (c.op = "stop") # (db[c.run].status = "running")
        /\ UNCHANGED <<db, stream>>
  /\ page' = [page EXCEPT !.ctls =
                (@ \ {c}) \cup {[c EXCEPT !.step = "answered", !.ver = db'[c.run].ver]}]
  /\ UNCHANGED <<id, details, rendered, budget>>

(* GET .../events: the handler subscribes, then reads; a run at rest gets a *)
(* run-settled of its own.                                                  *)
Accept ==
  /\ stream.es = "connecting" /\ Rendered
  /\ stream' = IF db[id].status = "running"
               THEN [es |-> "open", sub |-> TRUE, wire |-> <<"open">>]
               ELSE [es |-> "open", sub |-> FALSE, wire |-> <<"open", "settled">>]
  /\ UNCHANGED <<db, id, page, details, rendered, budget>>

-----------------------------------------------------------------------------
(* The browser *)

(* onerror: the connection is lost and EventSource tries again, or it gets  *)
(* an answer that closes it for good.                                       *)
StreamFails ==
  /\ Fault
  /\ \/ /\ stream.es = "open" \/ (stream.es = "connecting" /\ Rendered)
        /\ stream' = Connecting
        /\ page' = [page EXCEPT !.conn = "reconnecting"]
     \/ /\ stream.es = "connecting" /\ Rendered
        /\ stream' = [Connecting EXCEPT !.es = "dead"]
        /\ page' = [page EXCEPT !.conn = "closed"]
  /\ UNCHANGED <<db, id, details, rendered>>

MutantSettledStaysOpen ==
  /\ stream.es = "open" /\ stream.wire # <<>>
  /\ LET event == Head(stream.wire) IN
       IF event = "settled"
       THEN /\ stream' = Connecting
            /\ page' = RequestRefresh([page EXCEPT !.conn = "reconnecting"], "heavy", "auto")
       ELSE /\ stream' = [stream EXCEPT !.wire = Tail(@)]
            /\ page' = IF event = "open"
                       THEN RequestRefresh([page EXCEPT !.conn = "open"], "heavy", "auto")
                       ELSE RequestRefresh(page, event, "auto")
  /\ UNCHANGED <<db, id, details, rendered, budget>>

MutantOpenIsQuiet ==
  /\ stream.es = "open" /\ stream.wire # <<>>
  /\ LET event == Head(stream.wire) IN
       IF event = "settled"
       THEN /\ stream' = NoStream
            /\ page' = RequestRefresh([page EXCEPT !.ended = TRUE], "heavy", "auto")
       ELSE /\ stream' = [stream EXCEPT !.wire = Tail(@)]
            /\ page' = IF event = "open" THEN [page EXCEPT !.conn = "open"]
                       ELSE RequestRefresh(page, event, "auto")
  /\ UNCHANGED <<db, id, details, rendered, budget>>

(* The handlers of subscribeRunEvents and useRunStream: run-settled closes  *)
(* the source first, so that it does not connect again.                     *)
Deliver ==
  /\ stream.es = "open" /\ stream.wire # <<>>
  /\ LET event == Head(stream.wire) IN
       IF event = "settled"
       THEN /\ stream' = NoStream
            /\ page' = RequestRefresh([page EXCEPT !.ended = TRUE], "heavy", "auto")
       ELSE /\ stream' = [stream EXCEPT !.wire = Tail(@)]
            /\ page' = IF event = "open"
                       THEN RequestRefresh([page EXCEPT !.conn = "open"], "heavy", "auto")
                       ELSE RequestRefresh(page, event, "auto")
  /\ UNCHANGED <<db, id, details, rendered, budget>>

(* A render, when it changes what the effects depend on: the stream is      *)
(* opened or closed, a notice about a stream no longer wanted goes, the     *)
(* first of the selected group is selected and details are fetched.         *)
Render ==
  /\ ~Rendered
  /\ rendered' = Rendering
  /\ stream' = IF Enabled(page) = rendered.enabled THEN stream
               ELSE IF Enabled(page) THEN Connecting ELSE NoStream
  /\ page' = [page EXCEPT
       !.conn = IF rendered.supported /\ ~Supported(page) THEN "open" ELSE @,
       !.sel = First(Members(page))]
  /\ details' = Follow(details, Members(page))
  /\ UNCHANGED <<db, id, budget>>

(* The answers a part of a pass waits for are in.                           *)
LightAnswered(p) ==
  /\ p.kind # "initial" /\ p.light = "out" /\ p.row # None
  /\ page' = Progress(ShowLight(page, p), p, [p EXCEPT !.light = "ok"])
  /\ UNCHANGED <<db, stream, id, details, rendered, budget>>

HeavyAnswered(p) ==
  /\ p.kind = "heavy" /\ p.heavy = "out" /\ p.list # None
  /\ page' = Progress(ShowHeavy(page, p), p, [p EXCEPT !.heavy = "ok"])
  /\ details' = IF p.live THEN Refresh(details) ELSE details
  /\ UNCHANGED <<db, stream, id, rendered, budget>>

InitialAnswered(p) ==
  /\ p.kind = "initial" /\ None \notin {p.row, p.list}
  /\ LET left == [page EXCEPT !.passes = @ \ {p}] IN
       page' = IF ~p.live THEN left
               ELSE [left EXCEPT !.state = "loaded", !.row = p.row,
                                 !.list = p.list]
  /\ UNCHANGED <<db, stream, id, details, rendered, budget>>

(* An answer does not come, or it is an error.                              *)
PassFails(p) ==
  /\ Fault
  /\ \/ /\ p.kind # "initial" /\ p.light = "out"
        /\ page' = Progress(page, p, [p EXCEPT !.light = "failed"])
     \/ /\ p.kind = "heavy" /\ p.heavy = "out"
        /\ page' = Progress(IF p.live THEN [page EXCEPT !.fresh = "failed"] ELSE page,
                            p, [p EXCEPT !.heavy = "failed"])
     \/ /\ p.kind = "initial"
        /\ page' = [page EXCEPT !.passes = @ \ {p},
                                !.state = IF p.live THEN "error" ELSE @]
  /\ UNCHANGED <<db, stream, id, details, rendered>>

(* The buttons of the page *)

PressRefresh ==
  /\ Click
  /\ page.state = "loaded" /\ ~page.loud
  /\ page' = RequestRefresh(page, "heavy", "manual")
  /\ UNCHANGED <<db, stream, id, details, rendered>>

RetryInitial ==
  /\ page.state = "error"
  /\ page' = FetchInitial(page, id)
  /\ UNCHANGED <<db, stream, id, details, rendered, budget>>

(* runControlAction *)
PressControl ==
  /\ Click
  /\ page.state = "loaded" /\ ~page.pending
  /\ page' = [page EXCEPT
       !.pending = TRUE,
       !.ctls = @ \cup {[op |-> IF page.row.status = "running" THEN "stop" ELSE "resume",
                         run |-> id, here |-> TRUE, step |-> "sent", ver |-> 0]}]
  /\ UNCHANGED <<db, stream, id, details, rendered>>

MutantForeignControl(c) ==
  /\ c.step = "answered"
  /\ LET left == [page EXCEPT !.ctls = @ \ {c}] IN
       page' = RequestRefresh([left EXCEPT !.ctls = @ \cup {[c EXCEPT !.step = "waiting"]}],
                              "heavy", "auto")
  /\ UNCHANGED <<db, stream, id, details, rendered, budget>>

(* Its answer: the page is refreshed, and pending waits for the gate.       *)
ControlAnswered(c) ==
  /\ c.step = "answered"
  /\ LET left == [page EXCEPT !.ctls = @ \ {c}] IN
       page' = IF ~c.here THEN left
               ELSE RequestRefresh([left EXCEPT !.ctls = @ \cup {[c EXCEPT !.step = "waiting"]}],
                                   "heavy", "auto")
  /\ UNCHANGED <<db, stream, id, details, rendered, budget>>

(* A finding of the list or of the text is selected: the first of its group *)
(* is (handleSelectFinding).                                                *)
SelectFinding(f) ==
  /\ Pick
  /\ f \in Visible(page)
  /\ page' = [page EXCEPT !.sel = First({g \in Visible(page) : SameRange(f, g)})]
  /\ UNCHANGED <<db, stream, id, details, rendered>>

(* The filter changes what is hidden.                                       *)
ChangeFilter(hidden) ==
  /\ Pick
  /\ page.state = "loaded" /\ hidden # page.hidden
  /\ page' = [page EXCEPT !.hidden = hidden]
  /\ UNCHANGED <<db, stream, id, details, rendered>>

(* A call for details is handled by the server, answered, or fails.         *)
ReadDetail(c) ==
  /\ ~c.read /\ Rendered
  /\ details' = Answered(details, c, db[c.finding.run].found)
  /\ UNCHANGED <<db, stream, id, page, rendered, budget>>

DetailArrives(c) ==
  /\ c.read
  /\ details' = Arrived(details, c)
  /\ UNCHANGED <<db, stream, id, page, rendered, budget>>

DetailFails(c) ==
  /\ Fault
  /\ details' = Failed(details, c)
  /\ UNCHANGED <<db, stream, id, page, rendered>>

(* The URL changes to another run.  In the render that sees it the old      *)
(* run's state still decides about the stream; fetchInitial then resets the *)
(* page, and the next render follows.                                       *)
Move(r) ==
  /\ budget.moves > 0 /\ r # id
  /\ budget' = [budget EXCEPT !.moves = @ - 1]
  /\ id' = r
  /\ rendered' = Rendering
  /\ stream' = IF Enabled(page) THEN Connecting ELSE NoStream
  /\ details' = Follow(details, Members(page))
  /\ page' = FetchInitial(
       [page EXCEPT !.passes = {[p EXCEPT !.here = FALSE] : p \in @},
                    !.ctls = {[c EXCEPT !.here = FALSE] : c \in @},
                    !.dirty = "none", !.loud = FALSE], r)
  /\ UNCHANGED db

Next ==
  \/ \E r \in Runs : Change(r) \/ Move(r)
  \/ Restart \/ Accept \/ StreamFails \/ Deliver \/ Render
  \/ PressRefresh \/ RetryInitial \/ PressControl
  \/ \E p \in page.passes :
       \/ \E part \in {"row", "list"} : Read(p, part)
       \/ LightAnswered(p) \/ HeavyAnswered(p) \/ InitialAnswered(p) \/ PassFails(p)
  \/ \E c \in page.ctls : ServeControl(c) \/ ControlAnswered(c)
  \/ \E f \in Findings : SelectFinding(f)
  \/ \E hidden \in Filters : ChangeFilter(hidden)
  \/ \E c \in details.calls : ReadDetail(c) \/ DetailArrives(c) \/ DetailFails(c)

Spec == Init /\ [][Next]_vars

-----------------------------------------------------------------------------
Advance ==
  \/ Accept \/ Deliver \/ Render
  \/ \E p \in page.passes :
       \/ \E part \in {"row", "list"} : Read(p, part)
       \/ LightAnswered(p) \/ HeavyAnswered(p) \/ InitialAnswered(p)
  \/ \E c \in page.ctls : ServeControl(c) \/ ControlAnswered(c)
  \/ \E c \in details.calls : ReadDetail(c) \/ DetailArrives(c)

(* The server and the browser go on: connections are answered, messages,    *)
(* answers and renders are handled.  Nothing is assumed of the user or of   *)
(* the run loop.                                                            *)
FairSpec == Spec /\ WF_vars(Advance)

Notice == page.autoErr \/ page.manErr \/ page.conn # "open"
          \/ (page.ended /\ page.row.status = "running")

(* Nothing is on its way to the page.                                       *)
Quiet ==
  /\ page.state = "loaded" /\ ~InFlight(page) /\ page.ctls = {}
  /\ Rendered /\ stream.es \in {"none", "open"} /\ stream.wire = <<>>
  /\ ~Notice

(* A watched page at which nothing is under way and that shows no notice    *)
(* is not behind: neither in the run's row nor in its findings, of which it *)
(* may say that it could not read them.                                     *)
QuietPageIsCurrent ==
  Quiet /\ stream.es = "open" =>
    /\ page.row = db[id]
    /\ page.list.found = db[id].found \/ page.fresh = "failed"

(* What is shown belongs to the run of the URL, whatever was asked for      *)
(* another run and is answered late.                                        *)
ShowsItsRun ==
  page.state = "loaded" => \A shown \in {page.row, page.list} : shown.run = id

(* Of a finding that is shown in detail and for which no answer is awaited, *)
(* the details are there and are no older than the list of findings, or a   *)
(* line says that they could not be read; and nothing is kept of a finding  *)
(* that is no longer shown: whatever order the answers come in, across      *)
(* selections, filters and refreshes of the list (useFindingDetails).       *)
DetailsFollowList ==
  \A f \in Findings :
    LET entry == details.entries[f] IN
    /\ f \notin details.ids => entry = PendingDetail
    /\ f \in details.ids /\ ~Awaited(details, f) =>
         entry.error \/ (entry.has /\ (page.state = "loaded" => entry.ver >= page.list.found))

(* A button comes back only when the page shows a state read after the      *)
(* control took effect, or says that it could not read it.                  *)
PendingCoversControl ==
  [][\A c \in page.ctls :
       c.here /\ page.pending /\ ~page'.pending /\ id' = id =>
         \/ c.step # "sent" /\ page'.row.ver >= c.ver
         \/ page'.autoErr \/ page'.manErr]_vars

(* No resume that was asked for at an earlier visit to the run is under way *)
NoLateResume == \A c \in page.ctls : c.op = "resume" /\ c.run = id => c.here

(* A page that is behind catches up or says that it cannot, unless its run  *)
(* is resumed by other hands than its own.                                  *)
PageCatchesUp ==
  []NoLateResume =>
    (page.state = "loaded" /\ page.row # db[id] ~>
       page.state # "loaded" \/ page.row = db[id] \/ Notice)

(* The first load ends, whatever the page was doing for another run.        *)
LoadingEnds == page.state = "loading" ~> page.state # "loading"

(* A run at rest is not watched for ever: no endless round of connecting    *)
(* and being told that it is settled.                                       *)
StreamEnds ==
  db[id].status = "rest" ~> db[id].status = "running" \/ stream.es \in {"none", "dead"}

(* The comment on FindingsFreshness: the list is said to be current only    *)
(* when it has caught up with the state of the run that is shown.           *)
CurrentListHasCaughtUp ==
  page.state = "loaded" /\ page.fresh = "current" /\ page.row.status = "rest"
    => page.list.found >= page.row.found

=============================================================================
