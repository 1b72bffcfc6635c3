----------------------------- MODULE Connections -----------------------------
(***************************************************************************)
(* The connection to LM Studio as it is set and checked: the server's      *)
(* ConnectionManager with its settings row and its client, the settings    *)
(* page with the form that saves the endpoint, and the context of the web  *)
(* application that checks the connection and keeps the selected model.    *)
(*                                                                         *)
(* A step is one event or answer handled by the browser, or one handler of *)
(* the server; ConnectionManager.update is synchronous.  A check reads the *)
(* server's connection when it is handled, so checks, saves and the form's *)
(* first read may be handled and answered in any order.  One browser tab   *)
(* is modelled, and the selected model stands for localStorage as well:    *)
(* the two are always written together.  Display of the key is left out.   *)
(***************************************************************************)
EXTENDS Naturals

CONSTANTS Urls,         \* endpoints the user may type that pass parseLmStudioUrl
          EnvUrl,       \* the endpoint of the environment
          Keys, EnvKey, \* API keys, and that of the environment
          Models,       \* models that can generate (llm, vlm)
          None,
          MaxChecks, MaxSaves, MaxFaults, MaxVisits  \* bounds

ASSUME EnvAssumption == EnvUrl \in Urls /\ EnvKey \in Keys \cup {None}
ASSUME NoneAssumption == None \notin Urls \cup Keys \cup Models
ASSUME BoundsAssumption ==
  {MaxChecks, MaxSaves, MaxFaults, MaxVisits} \subseteq Nat /\ MaxChecks > 0

VARIABLES row,      \* settings row lm_studio_url
          manager,  \* endpointUrl, apiKey and the client in use
          calls,    \* connection checks under way
          ctx,      \* ConnectionProvider
          form,     \* ConnectionSection
          puts,     \* PUT /settings/connection under way
          behind,   \* history: a save succeeded, its answer was lost, and no
                    \* check was begun since
          other,    \* history: the last change was not of the form that is shown
          spent

server == <<row, manager>>
vars == <<server, calls, ctx, form, puts, behind, other, spent>>

Client == [url : Urls, key : Keys \cup {None}]

(* What POST /settings/connection/check finds; url, of history, is the      *)
(* endpoint it asked.                                                       *)
Result == [kind : {"none", "unreachable", "list"}, models : SUBSET Models,
           url : Urls \cup {None}]
NoResult == [kind |-> "none", models |-> {}, url |-> None]

Call == [generation : 1 .. MaxChecks, aborted : BOOLEAN, reply : Result]

(* A key of the request body: left out, null, or a text *)
KeyChange == {"keep", "clear"} \cup Keys

(* Who is told the answer: the form, the application after the form was    *)
(* left, or nobody once the connection was lost.                            *)
Put == [n : 1 .. MaxSaves, url : Urls, key : KeyChange,
        tells : {"form", "app", "nobody"}, reply : {"none", "ok", "error"}]

Context == [generation : 0 .. MaxChecks, check : Result, error : BOOLEAN,
            checking : BOOLEAN, selected : Models \cup {None}]

Form == [shown : BOOLEAN, url : Urls \cup {None}, dirty : BOOLEAN,
         get : Urls \cup {None, "none", "sent"},  \* the first read: none, sent, or read
         saving : BOOLEAN, saved : BOOLEAN,
         typed : BOOLEAN]                        \* history: typed since the last answer

TypeOK ==
  /\ row \in Urls \cup {None}
  /\ manager \in [url : Urls, key : Keys \cup {None}, client : Client]
  /\ calls \subseteq Call
  /\ ctx \in Context
  /\ form \in Form
  /\ puts \subseteq Put
  /\ behind \in BOOLEAN /\ other \in BOOLEAN
  /\ spent \in [checks : 0 .. MaxChecks, saves : 0 .. MaxSaves,
                faults : 0 .. MaxFaults, visits : 0 .. MaxVisits]

-----------------------------------------------------------------------------
(* The server *)

Connected(url, key) == [url |-> url, key |-> key, client |-> [url |-> url, key |-> key]]

NextKey(current, change) ==
  IF change = "keep" THEN current ELSE IF change = "clear" THEN None ELSE change

(* createConnectionManager: the row goes before the environment; the key   *)
(* lives in memory only.                                                   *)
InitialManager(stored) == Connected(IF stored = None THEN EnvUrl ELSE stored, EnvKey)

(* The ways update() ends: createClient throws, the settings row cannot be *)
(* written, or all is replaced.  The client that is not kept is closed in  *)
(* the last two, without waiting for it.                                   *)
Ends == {"noClient", "noWrite", "done"}
Writes(end) == end = "done"
MutantSwapsFirst(end) == end # "noClient"

Swaps(end) == end = "done"

Update(put, end) ==
  /\ row' = IF Writes(end) THEN put.url ELSE row
  /\ manager' = IF Swaps(end) THEN Connected(put.url, NextKey(manager.key, put.key))
                ELSE manager

(* The request is refused before update() when a run is active or the url  *)
(* is not valid.                                                           *)
Replied(p, reply) ==
  (puts \ {p}) \cup (IF p.tells = "nobody" THEN {} ELSE {[p EXCEPT !.reply = reply]})

HandlePut ==
  \E p \in puts :
    /\ p.reply = "none"
    /\ \/ puts' = Replied(p, "error") /\ UNCHANGED <<server, behind, other>>
       \/ \E end \in Ends :
            /\ Update(p, end)
            /\ puts' = Replied(p, IF end = "done" THEN "ok" ELSE "error")
            /\ behind' = (behind \/ (end = "done" /\ p.tells = "nobody"))
            /\ other' = IF end = "done" THEN p.tells # "form" ELSE other
    /\ UNCHANGED <<calls, ctx, form, spent>>

HandleCheck ==
  \E c \in calls :
    /\ c.reply.kind = "none"
    /\ \E r \in {[kind |-> "list", models |-> ms, url |-> manager.client.url] : ms \in SUBSET Models}
               \cup {[kind |-> "unreachable", models |-> {}, url |-> manager.client.url]} :
         calls' = (calls \ {c}) \cup {[c EXCEPT !.reply = r]}
    /\ UNCHANGED <<server, ctx, form, puts, behind, other, spent>>

HandleGet ==
  /\ form.get = "sent"
  /\ form' = [form EXCEPT !.get = manager.url]
  /\ UNCHANGED <<server, calls, ctx, puts, behind, other, spent>>

(* The process ends and starts again; every request under way fails later. *)
Restart ==
  /\ spent.faults < MaxFaults /\ spent' = [spent EXCEPT !.faults = @ + 1]
  /\ manager' = InitialManager(row)
  /\ UNCHANGED <<row, calls, ctx, form, puts, behind, other>>

-----------------------------------------------------------------------------
(* ConnectionProvider *)

SpendCheck == spent.checks < MaxChecks

(* checkConnection: abort the check before, take the next generation. *)
Begin(now) ==
  /\ calls' = {[c EXCEPT !.aborted = TRUE] : c \in calls} \cup
       {[generation |-> now.generation + 1, aborted |-> FALSE,
         reply |-> NoResult]}
  /\ ctx' = [now EXCEPT !.generation = @ + 1, !.checking = TRUE]
  /\ behind' = FALSE

MutantCountsAlways(c) == TRUE

(* An answer counts if its request was not aborted and none came after it. *)
Counts(c) == ~c.aborted /\ c.generation = ctx.generation

NextSelected(r, selected) ==
  IF r.kind = "list" /\ selected \notin r.models THEN None ELSE selected

(* The selection is looked at again after every check, as it is by then. *)
SelectedAfter(c) == NextSelected(c.reply, ctx.selected)

CheckAnswered ==
  \E c \in calls :
    /\ c.reply.kind # "none"
    /\ calls' = calls \ {c}
    /\ ctx' = IF Counts(c)
              THEN [ctx EXCEPT !.check = c.reply, !.error = FALSE, !.checking = FALSE,
                               !.selected = SelectedAfter(c)]
              ELSE ctx
    /\ UNCHANGED <<server, form, puts, behind, other, spent>>

CheckLost ==
  \E c \in calls :
    /\ spent.faults < MaxFaults /\ spent' = [spent EXCEPT !.faults = @ + 1]
    /\ calls' = calls \ {c}
    /\ ctx' = IF Counts(c) THEN [ctx EXCEPT !.error = TRUE, !.checking = FALSE] ELSE ctx
    /\ UNCHANGED <<server, form, puts, behind, other>>

(* The header's button waits for the check under way, the start of a run   *)
(* on the other page does not.                                             *)
Recheck ==
  /\ SpendCheck
  /\ ~ctx.checking \/ (~form.shown /\ ctx.selected # None)
  /\ Begin(ctx)
  /\ spent' = [spent EXCEPT !.checks = @ + 1]
  /\ UNCHANGED <<server, form, puts, other>>

SelectModel ==
  \E m \in ctx.check.models :
    /\ form.shown
    /\ ctx' = [ctx EXCEPT !.selected = m]
    /\ UNCHANGED <<server, calls, form, puts, behind, other, spent>>

-----------------------------------------------------------------------------
(* ConnectionSection *)

NoForm == [shown |-> FALSE, url |-> None, dirty |-> FALSE, get |-> "none",
           saving |-> FALSE, saved |-> FALSE, typed |-> FALSE]
NewForm == [NoForm EXCEPT !.shown = TRUE, !.get = "sent"]

OpenSettings ==
  /\ ~form.shown /\ spent.visits < MaxVisits
  /\ spent' = [spent EXCEPT !.visits = @ + 1]
  /\ form' = NewForm
  /\ UNCHANGED <<server, calls, ctx, puts, behind, other>>

(* A save under way goes on without the form. *)
LeaveSettings ==
  /\ form.shown
  /\ form' = NoForm
  /\ puts' = {[p EXCEPT !.tells = IF @ = "form" THEN "app" ELSE @] : p \in puts}
  /\ UNCHANGED <<server, calls, ctx, behind, other, spent>>

MutantShowsLateRead(get) == get

(* The first read must not undo what the user typed or saved meanwhile. *)
Shows(get) == IF form.dirty THEN form.url ELSE get

GetAnswered ==
  /\ form.get \in Urls
  /\ form' = [form EXCEPT !.get = "none", !.url = Shows(form.get)]
  /\ UNCHANGED <<server, calls, ctx, puts, behind, other, spent>>

GetLost ==
  /\ form.get # "none"
  /\ spent.faults < MaxFaults /\ spent' = [spent EXCEPT !.faults = @ + 1]
  /\ form' = [form EXCEPT !.get = "none"]
  /\ UNCHANGED <<server, calls, ctx, puts, behind, other>>

TypeUrl ==
  \E u \in Urls :
    /\ form.shown /\ u # form.url
    /\ form' = [form EXCEPT !.url = u, !.dirty = TRUE, !.typed = TRUE]
    /\ UNCHANGED <<server, calls, ctx, puts, behind, other, spent>>

(* The button waits for the save under way; the field is required. *)
Submittable == form.shown /\ ~form.saving /\ form.url # None

Save ==
  \E change \in KeyChange :
    /\ Submittable
    /\ spent.saves < MaxSaves /\ spent' = [spent EXCEPT !.saves = @ + 1]
    /\ form' = [form EXCEPT !.saving = TRUE, !.saved = FALSE]
    /\ puts' = puts \cup {[n |-> spent'.saves, url |-> form.url, key |-> change,
                             tells |-> "form", reply |-> "none"]}
    /\ UNCHANGED <<server, calls, ctx, behind, other>>

(* The check that follows a save, also of a form that was left *)
FollowsSave(p) == p.reply = "ok"

PutAnswered ==
  \E p \in puts :
    /\ p.reply # "none"
    /\ puts' = puts \ {p}
    /\ form' = IF p.tells # "form" THEN form
               ELSE IF p.reply = "ok"
               THEN [form EXCEPT !.dirty = TRUE, !.url = p.url, !.saving = FALSE,
                                 !.saved = TRUE, !.typed = FALSE]
               ELSE [form EXCEPT !.saving = FALSE]
    /\ IF FollowsSave(p)
       THEN SpendCheck /\ Begin(ctx) /\ spent' = [spent EXCEPT !.checks = @ + 1]
       ELSE UNCHANGED <<calls, ctx, behind, spent>>
    /\ UNCHANGED <<server, other>>

Unheard(ps) == {[p EXCEPT !.tells = "nobody"] : p \in {q \in ps : q.reply = "none"}}

(* The answer is lost, before or after the server handles the request. *)
PutLost ==
  \E p \in puts :
    /\ spent.faults < MaxFaults /\ spent' = [spent EXCEPT !.faults = @ + 1]
    /\ p.tells # "nobody"
    /\ puts' = (puts \ {p}) \cup Unheard({p})
    /\ form' = IF p.tells = "form" THEN [form EXCEPT !.saving = FALSE] ELSE form
    /\ behind' = (behind \/ p.reply = "ok")
    /\ UNCHANGED <<server, calls, ctx, other>>

(* The application starts: the stored selection is kept and checked. *)
Reload ==
  /\ SpendCheck /\ spent.visits < MaxVisits
  /\ spent' = [spent EXCEPT !.visits = @ + 1, !.checks = @ + 1]
  /\ calls' = {[generation |-> 1, aborted |-> FALSE, reply |-> NoResult]}
  /\ ctx' = [generation |-> 1, check |-> NoResult, error |-> FALSE, checking |-> TRUE,
             selected |-> ctx.selected]
  /\ behind' = FALSE
  /\ form' = NoForm
  /\ puts' = Unheard(puts)
  /\ UNCHANGED <<server, other>>

-----------------------------------------------------------------------------
Init ==
  /\ row = None
  /\ manager = InitialManager(row)
  /\ \E m \in Models \cup {None} :
       ctx = [generation |-> 1, check |-> NoResult, error |-> FALSE, checking |-> TRUE,
              selected |-> m]
  /\ calls = {[generation |-> 1, aborted |-> FALSE, reply |-> NoResult]}
  /\ form = NoForm /\ puts = {}
  /\ behind = FALSE /\ other = FALSE
  /\ spent = [checks |-> 1, saves |-> 0, faults |-> 0, visits |-> 0]

Next == \/ HandlePut \/ HandleCheck \/ HandleGet \/ Restart
        \/ CheckAnswered \/ CheckLost \/ Recheck \/ SelectModel
        \/ OpenSettings \/ LeaveSettings \/ GetAnswered \/ GetLost \/ TypeUrl \/ Save
        \/ PutAnswered \/ PutLost \/ Reload

Spec == Init /\ [][Next]_vars

-----------------------------------------------------------------------------
(* However an update fails half way and whenever the process restarts, the *)
(* client in use is the one for the endpoint and the key that are told, and *)
(* a restart would connect to the same endpoint.                            *)
ServerAgrees ==
  /\ manager = Connected(manager.url, manager.key)
  /\ manager.url = InitialManager(row).url

(* A form that says "saved" and was not typed into since shows what the    *)
(* server uses: the late first read does not put the older endpoint back,  *)
(* to be saved again by the next press.  Excepted are changes made by a    *)
(* form that was left.                                                     *)
SavedUrlShown ==
  form.shown /\ form.saved /\ ~form.typed /\ ~other => form.url = manager.url

(* When the page rests, the check it shows was made of the endpoint the    *)
(* server uses, in whatever order checks and saves were answered and       *)
(* whether or not the form was left meanwhile.  Excepted is a save whose   *)
(* success the page was never told.                                        *)
QuietCheckIsCurrent ==
  ~ctx.checking /\ ~ctx.error /\ puts = {} /\ ~behind => ctx.check.url = manager.url

(* The selected model is one of the list that is shown, also if the user   *)
(* chose it while the check was under way or the endpoint was changed.     *)
SelectionFromList ==
  ctx.check.kind = "list" /\ ctx.selected # None => ctx.selected \in ctx.check.models
=============================================================================
