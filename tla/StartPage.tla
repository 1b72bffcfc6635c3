------------------------------ MODULE StartPage ------------------------------
(***************************************************************************)
(* Starting a run: the page with the manuscript and the start button, the  *)
(* two tables of the server it writes (manuscript versions and runs), and  *)
(* the browser's local storage.  Requests and answers travel apart, an     *)
(* answer may be lost while its request is still handled, the user may     *)
(* leave the page at any moment and come back, and another tab may delete  *)
(* runs.                                                                   *)
(*                                                                         *)
(* A step is one event or answer handled by the browser, or one handler of *)
(* the server (POST /runs reads and writes without an await in between).   *)
(* The connection check a start waits for is reduced to how it ends: it    *)
(* passes, it stops the start, or another check takes its place.  The      *)
(* settings sent with a start, and the texts shown, are left out.          *)
(***************************************************************************)
EXTENDS Naturals, Sequences

CONSTANTS Versions,    \* ids the server may give to manuscript versions
          None,        \* no version
          MaxStarts,   \* bound on the start operations that are sent
          MaxFaults,   \* bound on lost answers and internal errors
          MaxLeaves    \* bound on leaving or reloading the page

ASSUME NoneAssumption == None \notin Versions
ASSUME BoundsAssumption == {MaxStarts, MaxFaults, MaxLeaves} \subseteq Nat

VARIABLES
  (* the server *)
  manuscripts,  \* the rows of manuscript_versions
  given,        \* the version ids ever given
  runs,         \* every run ever inserted, in order, and whether its row is there
  (* the network *)
  posts,        \* POST /runs under way; mine: the page waits for the answer
  confirms,     \* POST /manuscripts under way
  (* the browser *)
  stored,       \* localStorage: manuscriptVersionId
  open,         \* the page is mounted
  man,          \* useManuscript: the confirmed version, None while editing
  restore,      \* useManuscript: the GET of the stored version under way
  home,         \* useStartRun
  strays,       \* starts of pages left since that still wait for their check
  (* history and bounds *)
  asks,         \* the manuscript each start operation was pressed for
  overtaken,    \* a confirmation of a page left since wrote the storage
  spent

server  == <<manuscripts, given, runs>>
browser == <<stored, open, man, restore, home, strays>>
vars == <<server, posts, confirms, browser, asks, overtaken, spent>>

Run     == [op : 1 .. MaxStarts, version : Versions, live : BOOLEAN]
Post    == [op : 1 .. MaxStarts, version : Versions, mine : BOOLEAN,
            reply : {"none", "run", "refused", "error"}, run : Nat]
Confirm == [mine : BOOLEAN, reply : {"none", "failed", "created"},
            version : Versions \cup {None}]
Restore == [reply : {"none", "found", "missing", "failed"}, version : Versions]
Outcome == [kind : {"idle", "sending", "failed", "started"}, run : Nat]

(* before is the outcome a start began with, version the manuscript it is   *)
(* pressed for.  The snapshot is an operation number, 0 for none, with the  *)
(* manuscript it was sent for.  last and fate are history: the operation    *)
(* sent last, and what the page has been told of it.                        *)
Home == [outcome : Outcome, before : Outcome,
         at : {"rest", "checking", "posting"},    \* sendingRef and where start() is
         version : Versions \cup {None},          \* the request being started
         snapshot : 0 .. MaxStarts, sends : Versions \cup {None},
         canRetry : BOOLEAN,
         last : 0 .. MaxStarts, fate : {"none", "waiting", "unknown", "settled"}]

TypeOK ==
  /\ manuscripts \subseteq given /\ given \subseteq Versions
  /\ runs \in Seq(Run)
  /\ posts \subseteq Post /\ confirms \subseteq Confirm
  /\ stored \in Versions \cup {None} /\ man \in Versions \cup {None}
  /\ open \in BOOLEAN /\ overtaken \in BOOLEAN
  /\ restore \in Restore \cup {None}
  /\ home \in Home
  /\ strays \subseteq Versions
  /\ asks \in Seq(Versions)
  /\ spent \in [faults : 0 .. MaxFaults, leaves : 0 .. MaxLeaves]

Idle == [kind |-> "idle", run |-> 0]
Sending == [kind |-> "sending", run |-> 0]
Failed == [kind |-> "failed", run |-> 0]

FreshHome == [outcome |-> Idle, before |-> Idle, at |-> "rest", version |-> None,
              snapshot |-> 0, sends |-> None, canRetry |-> FALSE,
              last |-> 0, fate |-> "none"]

(* The effect of mounting useManuscript: ask for the stored version *)
Restoring(id) == IF id = None THEN None ELSE [reply |-> "none", version |-> id]

Init ==
  /\ manuscripts = {} /\ given = {} /\ runs = << >>
  /\ posts = {} /\ confirms = {}
  /\ stored = None /\ open = TRUE /\ man = None /\ restore = None
  /\ home = FreshHome /\ strays = {}
  /\ asks = << >> /\ overtaken = FALSE
  /\ spent = [faults |-> 0, leaves |-> 0]

Fault == spent.faults < MaxFaults /\ spent' = [spent EXCEPT !.faults = @ + 1]

-----------------------------------------------------------------------------
(* The manuscript *)

ServeRestore ==
  /\ restore # None /\ restore.reply = "none"
  /\ \/ /\ restore' = [restore EXCEPT !.reply =
               IF restore.version \in manuscripts THEN "found" ELSE "missing"]
        /\ UNCHANGED spent
     \/ restore' = [restore EXCEPT !.reply = "failed"] /\ Fault
  /\ UNCHANGED <<server, posts, confirms, stored, open, man, home, strays, asks, overtaken>>

RestoreAnswered ==
  /\ restore # None /\ restore.reply # "none"
  /\ restore' = None
  /\ man' = IF restore.reply = "found" THEN restore.version ELSE man
  /\ stored' = IF restore.reply = "missing" THEN None ELSE stored
  /\ UNCHANGED <<server, posts, confirms, open, home, strays, asks, overtaken, spent>>

MutantKeepsRestoring(pending) == pending

(* confirmPaste, confirmFile and reset abort the restore before they begin *)
AbortRestore(pending) == None

PressConfirm ==
  /\ open /\ man = None
  /\ \A c \in confirms : ~c.mine
  /\ given # Versions
  /\ restore' = AbortRestore(restore)
  /\ confirms' = confirms \cup {[mine |-> TRUE, reply |-> "none", version |-> None]}
  /\ UNCHANGED <<server, posts, stored, open, man, home, strays, asks, overtaken, spent>>

ServeConfirm ==
  \E c \in confirms :
    /\ c.reply = "none"
    /\ \/ \E v \in Versions \ given :
            /\ manuscripts' = manuscripts \cup {v} /\ given' = given \cup {v}
            /\ confirms' = (confirms \ {c}) \cup {[c EXCEPT !.reply = "created", !.version = v]}
       \/ /\ confirms' = (confirms \ {c}) \cup {[c EXCEPT !.reply = "failed"]}
          /\ UNCHANGED <<manuscripts, given>>
    /\ UNCHANGED <<runs, posts, browser, asks, overtaken, spent>>

(* The hook goes on after the page was left: setState is lost, the storage *)
(* is written all the same.                                                *)
ConfirmAnswered ==
  \E c \in confirms :
    /\ c.reply # "none"
    /\ confirms' = confirms \ {c}
    /\ man' = IF c.mine /\ c.reply = "created" THEN c.version ELSE man
    /\ stored' = IF c.reply = "created" THEN c.version ELSE stored
    /\ overtaken' = (overtaken \/ (~c.mine /\ c.reply = "created"))
    /\ UNCHANGED <<server, posts, open, restore, home, strays, asks, spent>>

LoseConfirm ==
  \E c \in confirms :
    /\ Fault
    /\ confirms' = confirms \ {c}
    /\ UNCHANGED <<server, posts, browser, asks, overtaken>>

PressReset ==
  /\ open /\ man # None
  /\ restore' = AbortRestore(restore)
  /\ man' = None /\ stored' = None
  /\ UNCHANGED <<server, posts, confirms, open, home, strays, asks, overtaken, spent>>

-----------------------------------------------------------------------------
(* The start operation *)

StartEnabled == open /\ restore = None /\ man # None /\ home.outcome.kind # "sending"

(* The new check aborts the one a start of an earlier page still waits for. *)
PressStart ==
  /\ StartEnabled /\ home.at = "rest"
  /\ home' = [home EXCEPT !.at = "checking", !.version = man,
                          !.before = home.outcome, !.outcome = Sending]
  /\ strays' = {}
  /\ UNCHANGED <<server, posts, confirms, stored, open, man, restore, asks, overtaken, spent>>

MutantStaysSending(h) == [h EXCEPT !.at = "rest"]

(* The check threw, the model is not ready, or the settings are not valid: *)
(* the snapshot of an earlier operation stays.                             *)
StoppedStart(h) == [h EXCEPT !.at = "rest", !.outcome = Failed]

StopBeforeSending ==
  /\ home.at = "checking"
  /\ home' = StoppedStart(home)
  /\ UNCHANGED <<server, posts, confirms, stored, open, man, restore, strays, asks, overtaken, spent>>

(* Another check took the place of this one: nothing happened. *)
CheckSuperseded ==
  /\ home.at = "checking"
  /\ home' = [home EXCEPT !.at = "rest", !.outcome = home.before]
  /\ UNCHANGED <<server, posts, confirms, stored, open, man, restore, strays, asks, overtaken, spent>>

Request(op, version, mine) ==
  [op |-> op, version |-> version, mine |-> mine, reply |-> "none", run |-> 0]

SendStart ==
  /\ home.at = "checking" /\ Len(asks) < MaxStarts
  /\ LET op == Len(asks) + 1 IN
       /\ asks' = Append(asks, home.version)
       /\ posts' = posts \cup {Request(op, home.version, TRUE)}
       /\ home' = [home EXCEPT !.at = "posting", !.outcome = Sending,
                     !.snapshot = op, !.sends = home.version,
                     !.last = op, !.fate = "waiting"]
  /\ UNCHANGED <<server, confirms, stored, open, man, restore, strays, overtaken, spent>>

MutantResendsShown(h) ==
  Request(h.snapshot, IF man = None THEN h.sends ELSE man, TRUE)

(* The same operation number and the same request, with no check before it *)
Resent(h) == Request(h.snapshot, h.sends, TRUE)

PressRetry ==
  /\ open /\ home.canRetry /\ home.outcome.kind # "sending"
  /\ home.snapshot # 0 /\ home.at = "rest"
  /\ posts' = posts \cup {Resent(home)}
  /\ home' = [home EXCEPT !.at = "posting", !.outcome = Sending, !.fate = "waiting"]
  /\ UNCHANGED <<server, confirms, stored, open, man, restore, strays, asks, overtaken, spent>>

(* How send() ends *)
Settled(h, outcome) ==
  [h EXCEPT !.at = "rest", !.snapshot = 0, !.sends = None, !.canRetry = FALSE,
            !.outcome = outcome, !.fate = "settled"]
Unknown(h) ==
  [h EXCEPT !.at = "rest", !.canRetry = TRUE, !.outcome = Failed, !.fate = "unknown"]

StartAnswered ==
  \E p \in posts :
    /\ p.mine /\ p.reply # "none"
    /\ posts' = posts \ {p}
    /\ home' = CASE p.reply = "run" -> Settled(home, [kind |-> "started", run |-> p.run])
                 [] p.reply = "refused" -> Settled(home, Failed)
                 [] p.reply = "error" -> Unknown(home)
    /\ UNCHANGED <<server, confirms, stored, open, man, restore, strays, asks, overtaken, spent>>

(* Nobody waits for the answer any more; the request may yet be handled. *)
Detached(ps) == {[p EXCEPT !.mine = FALSE] : p \in {q \in ps : q.reply = "none"}}

LoseAnswer ==
  \E p \in posts :
    /\ p.mine /\ Fault
    /\ posts' = (posts \ {p}) \cup Detached({p})
    /\ home' = Unknown(home)
    /\ UNCHANGED <<server, confirms, stored, open, man, restore, strays, asks, overtaken>>

(* A start whose page was left goes on by itself. *)
StrayEnds ==
  \E v \in strays :
    /\ strays' = strays \ {v}
    /\ \/ UNCHANGED <<posts, asks>>
       \/ /\ Len(asks) < MaxStarts
          /\ asks' = Append(asks, v)
          /\ posts' = posts \cup {Request(Len(asks) + 1, v, FALSE)}
    /\ UNCHANGED <<server, confirms, stored, open, man, restore, home, overtaken, spent>>

-----------------------------------------------------------------------------
(* The server's handlers *)

Live == {i \in DOMAIN runs : runs[i].live}
StartedBy(op) == {i \in Live : runs[i].op = op}

Answered(p, reply, run) ==
  (posts \ {p}) \cup (IF p.mine THEN {[p EXCEPT !.reply = reply, !.run = run]} ELSE {})

(* An operation that has a run is answered with it, whatever else it says. *)
FindsRun(p) == \E i \in StartedBy(p.op) : posts' = Answered(p, "run", i)

Refuses(p) == StartedBy(p.op) = {} /\ posts' = Answered(p, "refused", 0)

StartRun(p) ==
  /\ StartedBy(p.op) = {}
  /\ p.version \in manuscripts
  /\ runs' = Append(runs, [op |-> p.op, version |-> p.version, live |-> TRUE])
  /\ posts' = Answered(p, "run", Len(runs) + 1)

HandleStart ==
  \E p \in posts :
    /\ p.reply = "none"
    /\ \/ FindsRun(p) /\ UNCHANGED <<runs, spent>>
       \/ Refuses(p) /\ UNCHANGED <<runs, spent>>
       \/ StartRun(p) /\ UNCHANGED spent
       \/ posts' = Answered(p, "error", 0) /\ Fault /\ UNCHANGED runs
    /\ UNCHANGED <<manuscripts, given, confirms, browser, asks, overtaken>>

MutantDeletesAlways(i) == FALSE

(* The manuscript goes with the last run that refers to it. *)
StillReferenced(i) == \E j \in Live \ {i} : runs[j].version = runs[i].version

DeleteRun ==
  \E i \in Live :
    /\ runs' = [runs EXCEPT ![i].live = FALSE]
    /\ manuscripts' = IF StillReferenced(i) THEN manuscripts
                      ELSE manuscripts \ {runs[i].version}
    /\ UNCHANGED <<given, posts, confirms, browser, asks, overtaken, spent>>

-----------------------------------------------------------------------------
(* Leaving and coming back *)

SpendLeave == spent.leaves < MaxLeaves /\ spent' = [spent EXCEPT !.leaves = @ + 1]

(* By a link, or by the effect that follows a run's start: what is under   *)
(* way goes on without the page.                                           *)
LeavePage ==
  /\ open /\ SpendLeave
  /\ open' = FALSE
  /\ man' = None /\ restore' = None /\ home' = FreshHome
  /\ strays' = IF home.at = "checking" THEN strays \cup {home.version} ELSE strays
  /\ posts' = {p \in posts : ~p.mine} \cup Detached(posts)
  /\ confirms' = {[c EXCEPT !.mine = FALSE] : c \in confirms}
  /\ UNCHANGED <<server, stored, asks, overtaken>>

EnterPage ==
  /\ ~open
  /\ open' = TRUE
  /\ restore' = Restoring(stored)
  /\ UNCHANGED <<server, posts, confirms, stored, man, home, strays, asks, overtaken, spent>>

(* The whole application is loaded again: nothing of it goes on. *)
ReloadPage ==
  /\ open /\ SpendLeave
  /\ man' = None /\ home' = FreshHome /\ strays' = {} /\ confirms' = {}
  /\ restore' = Restoring(stored)
  /\ posts' = {p \in posts : ~p.mine} \cup Detached(posts)
  /\ UNCHANGED <<server, stored, open, asks, overtaken>>

-----------------------------------------------------------------------------
User == \/ PressConfirm \/ PressReset \/ PressStart \/ PressRetry
        \/ LeavePage \/ EnterPage \/ ReloadPage \/ DeleteRun
CheckEnds == StopBeforeSending \/ CheckSuperseded \/ SendStart
Network == LoseConfirm \/ LoseAnswer

Next == \/ User \/ CheckEnds \/ StrayEnds \/ Network
        \/ ServeRestore \/ RestoreAnswered \/ ServeConfirm \/ ConfirmAnswered
        \/ HandleStart \/ StartAnswered

Spec == Init /\ [][Next]_vars

(* A check ends, the server handles what it was sent, and the browser is   *)
(* told the answer or the loss.                                            *)
FairSpec == /\ Spec
            /\ WF_vars(CheckEnds) /\ WF_vars(HandleStart) /\ WF_vars(StartAnswered)

-----------------------------------------------------------------------------
(* An operation has at most one run at a time, made for the manuscript the *)
(* user pressed start for, whatever was resent, lost or delayed; and the   *)
(* run the page goes to is that of the operation it sent last              *)
(* (use-start-run.ts, POST /runs, the unique startOperationId).            *)
RunsAreAsAsked ==
  /\ \A i, j \in DOMAIN runs : i < j /\ runs[i].op = runs[j].op => ~runs[i].live
  /\ \A i \in DOMAIN runs : runs[i].version = asks[runs[i].op]
  /\ home.outcome.kind = "started" => runs[home.outcome.run].op = home.last

(* While the outcome of the operation sent last is unknown, the page can   *)
(* resend that operation and no other, whatever starts were stopped before *)
(* they were sent in the meantime; once it is known, it offers nothing.    *)
UnknownCanBeRetried ==
  home.outcome.kind # "sending" =>
    /\ home.canRetry <=> (home.fate = "unknown")
    /\ home.canRetry => home.snapshot = home.last /\ home.snapshot # 0

(* Every run's manuscript is there to be shown, however many runs share it *)
(* and in whatever order they are started and deleted.                     *)
RunsHaveManuscripts == \A i \in Live : runs[i].version \in manuscripts

(* The manuscript shown as confirmed is the one a reload would restore: a  *)
(* late restore neither replaces what the user confirmed nor clears it.    *)
(* Excepted is a confirmation whose page was left before it was answered.  *)
ShownIsStored == man # None /\ ~overtaken => stored = man

(* The start button comes back: an operation does not stay in "sending".   *)
SendingEnds == (home.outcome.kind = "sending") ~> (home.outcome.kind # "sending")
=============================================================================
