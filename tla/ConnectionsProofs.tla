-------------------------- MODULE ConnectionsProofs --------------------------
EXTENDS Connections, TLAPS

(* The form waits for at most one save, and while the success of one is on  *)
(* its way the server uses what was saved.                                  *)
FormPuts ==
  /\ \A p \in puts : p.tells = "form" => form.shown /\ form.saving /\ ~form.saved
  /\ \A p, q \in puts : p.tells = "form" /\ q.tells = "form" => p = q
  /\ \A p \in puts : p.tells = "form" /\ p.reply = "ok" => other \/ p.url = manager.url
  /\ form.saved => form.dirty
  /\ SavedUrlShown

(* The success of a save is on its way to the page. *)
SaveTold == \E p \in puts : p.reply = "ok"

(* Unless a save is still to be told of, or never will be, what counts was  *)
(* asked of the endpoint in use.                                            *)
ChecksCurrent ==
  ~behind /\ ~SaveTold =>
    /\ \A c \in calls : Counts(c) /\ c.reply.kind # "none" => c.reply.url = manager.url
    /\ ~ctx.checking /\ ~ctx.error => ctx.check.url = manager.url

Numbered == ctx.generation <= spent.checks

IInv == /\ TypeOK /\ Numbered /\ ServerAgrees /\ SelectionFromList
        /\ FormPuts /\ ChecksCurrent

Spent == [checks : 0 .. MaxChecks, saves : 0 .. MaxSaves,
          faults : 0 .. MaxFaults, visits : 0 .. MaxVisits]

-----------------------------------------------------------------------------
(* The server *)

LEMMA ConnectedLemma ==
  ASSUME NEW url \in Urls, NEW key \in Keys \cup {None}
  PROVE  /\ Connected(url, key) \in [url : Urls, key : Keys \cup {None}, client : Client]
         /\ Connected(url, key).url = url /\ Connected(url, key).key = key
         /\ Connected(url, key).client.url = url
  BY DEF Connected, Client

LEMMA InitialLemma ==
  ASSUME NEW stored \in Urls \cup {None}
  PROVE  LET m == InitialManager(stored) IN
         /\ m \in [url : Urls, key : Keys \cup {None}, client : Client]
         /\ m = Connected(m.url, m.key)
         /\ m.url = IF stored = None THEN EnvUrl ELSE stored
<1> DEFINE url == IF stored = None THEN EnvUrl ELSE stored
<1>1. url \in Urls /\ EnvKey \in Keys \cup {None}
  BY EnvAssumption
<1>2. InitialManager(stored) = Connected(url, EnvKey)
  BY DEF InitialManager
<1> HIDE DEF url
<1>3. /\ Connected(url, EnvKey) \in [url : Urls, key : Keys \cup {None}, client : Client]
      /\ Connected(url, EnvKey).url = url /\ Connected(url, EnvKey).key = EnvKey
  BY <1>1, ConnectedLemma
<1> QED BY <1>2, <1>3 DEF url

(* However update() ends, endpoint, key, client and row agree; only "done"  *)
(* changes the endpoint, to the one that was saved.                         *)
LEMMA UpdateLemma ==
  ASSUME TypeOK, ServerAgrees, NEW p \in Put, NEW end \in Ends, Update(p, end)
  PROVE  /\ row' \in Urls \cup {None}
         /\ manager' \in [url : Urls, key : Keys \cup {None}, client : Client]
         /\ ServerAgrees'
         /\ manager'.url = IF end = "done" THEN p.url ELSE manager.url
<1>1. p.url \in Urls /\ NextKey(manager.key, p.key) \in Keys \cup {None}
  BY DEF TypeOK, Put, KeyChange, NextKey
<1>2. CASE end = "done"
  <2> DEFINE key == NextKey(manager.key, p.key)
  <2>1. row' = p.url /\ manager' = Connected(p.url, key)
    BY <1>2 DEF Update, Writes, Swaps
  <2> HIDE DEF key
  <2>2. /\ manager' \in [url : Urls, key : Keys \cup {None}, client : Client]
        /\ manager'.url = p.url /\ manager'.key = key
    BY <1>1, <2>1, ConnectedLemma DEF key
  <2>3. InitialManager(p.url).url = p.url
    BY <1>1, InitialLemma, NoneAssumption
  <2> QED BY <1>1, <1>2, <2>1, <2>2, <2>3 DEF ServerAgrees
<1>3. CASE end # "done"
  <2>1. row' = row /\ manager' = manager
    BY <1>3 DEF Update, Writes, Swaps
  <2> QED BY <1>3, <2>1 DEF TypeOK, ServerAgrees
<1> QED BY <1>2, <1>3

LEMMA RepliedLemma ==
  ASSUME puts \subseteq Put, NEW p \in puts, NEW reply \in {"ok", "error"},
         NEW q \in Replied(p, reply)
  PROVE  /\ q \in Put
         /\ \/ q \in puts /\ q # p
            \/ /\ p.tells # "nobody" /\ q.tells = p.tells
               /\ q.reply = reply /\ q.url = p.url
<1>1. \/ q \in puts /\ q # p
      \/ p.tells # "nobody" /\ q = [p EXCEPT !.reply = reply]
  BY DEF Replied
<1> QED BY <1>1 DEF Put

LEMMA InitIInv == Init => IInv
<1> SUFFICES ASSUME Init PROVE IInv
  OBVIOUS
<1> DEFINE first == [generation |-> 1, aborted |-> FALSE, reply |-> NoResult]
<1>1. PICK m \in Models \cup {None} :
        ctx = [generation |-> 1, check |-> NoResult, error |-> FALSE, checking |-> TRUE,
               selected |-> m]
  BY DEF Init
<1>2. /\ row = None /\ manager = InitialManager(row) /\ calls = {first}
      /\ form = NoForm /\ puts = {} /\ behind = FALSE /\ other = FALSE
      /\ spent = [checks |-> 1, saves |-> 0, faults |-> 0, visits |-> 0]
  BY DEF Init
<1>3. NoResult \in Result /\ NoResult.kind = "none"
  BY DEF NoResult, Result
<1>4. first \in Call /\ first.reply.kind = "none"
  BY <1>3, BoundsAssumption DEF Call
<1> HIDE DEF first
<1>5. ctx \in Context
  BY <1>1, <1>3, BoundsAssumption DEF Context
<1>6. form \in Form
  BY <1>2 DEF NoForm, Form
<1>7. spent \in Spent
  BY <1>2, BoundsAssumption DEF Spent
<1>8. TypeOK
  BY <1>2, <1>4, <1>5, <1>6, <1>7, InitialLemma DEF TypeOK, Spent
<1>9. ServerAgrees
  BY <1>2, InitialLemma DEF ServerAgrees
<1>10. Numbered /\ SelectionFromList /\ FormPuts
  BY <1>1, <1>2, <1>3 DEF Numbered, SelectionFromList, FormPuts, SavedUrlShown, NoForm
<1>11. ChecksCurrent
  BY <1>1, <1>2, <1>4 DEF ChecksCurrent
<1> QED BY <1>8, <1>9, <1>10, <1>11 DEF IInv

LEMMA HandlePutIInv == IInv /\ HandlePut => IInv'
<1> SUFFICES ASSUME IInv, HandlePut PROVE IInv'
  OBVIOUS
<1>1. PICK p \in puts :
        /\ p.reply = "none"
        /\ \/ puts' = Replied(p, "error") /\ UNCHANGED <<server, behind, other>>
           \/ \E end \in Ends :
                /\ Update(p, end)
                /\ puts' = Replied(p, IF end = "done" THEN "ok" ELSE "error")
                /\ behind' = (behind \/ (end = "done" /\ p.tells = "nobody"))
                /\ other' = IF end = "done" THEN p.tells # "form" ELSE other
        /\ UNCHANGED <<calls, ctx, form, spent>>
  BY DEF HandlePut
<1>2. puts \subseteq Put /\ p \in Put
  BY DEF IInv, TypeOK
<1>3. /\ row' \in Urls \cup {None}
      /\ manager' \in [url : Urls, key : Keys \cup {None}, client : Client]
      /\ ServerAgrees'
  BY <1>1, <1>2, UpdateLemma DEF IInv, TypeOK, ServerAgrees, server
<1>4. \/ /\ puts' = Replied(p, "error") /\ manager'.url = manager.url
         /\ UNCHANGED <<behind, other>>
      \/ /\ puts' = Replied(p, "ok") /\ manager'.url = p.url
         /\ behind' = (behind \/ p.tells = "nobody")
         /\ other' = (p.tells # "form")
  <2>1. CASE puts' = Replied(p, "error") /\ UNCHANGED <<server, behind, other>>
    BY <2>1 DEF server
  <2>2. ASSUME NEW end \in Ends, Update(p, end),
               puts' = Replied(p, IF end = "done" THEN "ok" ELSE "error"),
               behind' = (behind \/ (end = "done" /\ p.tells = "nobody")),
               other' = IF end = "done" THEN p.tells # "form" ELSE other
        PROVE  <1>4!1 \/ <1>4!2
    <3>1. manager'.url = IF end = "done" THEN p.url ELSE manager.url
      BY <1>2, <2>2, UpdateLemma DEF IInv
    <3>2. behind \in BOOLEAN /\ other \in BOOLEAN
      BY DEF IInv, TypeOK
    <3> QED BY <2>2, <3>1, <3>2
  <2> QED BY <1>1, <2>1, <2>2
<1>5. \A q \in puts' :
        /\ q \in Put
        /\ \/ q \in puts /\ q # p
           \/ p.tells # "nobody" /\ q.tells = p.tells /\ q.url = p.url
  <2>1. \A reply \in {"ok", "error"} : \A q \in Replied(p, reply) :
          /\ q \in Put
          /\ \/ q \in puts /\ q # p
             \/ p.tells # "nobody" /\ q.tells = p.tells /\ q.reply = reply /\ q.url = p.url
    BY <1>2, RepliedLemma
  <2> QED BY <1>4, <2>1
<1>6. TypeOK'
  <2>1. puts' \subseteq Put /\ behind' \in BOOLEAN /\ other' \in BOOLEAN
    BY <1>4, <1>5 DEF IInv, TypeOK
  <2> QED BY <1>1, <1>3, <2>1 DEF IInv, TypeOK
<1>7. SavedUrlShown' /\ (form'.saved => form'.dirty)
  BY <1>1, <1>4 DEF IInv, FormPuts, SavedUrlShown
<1>8. /\ \A q \in puts' : q.tells = "form" => form'.shown /\ form'.saving /\ ~form'.saved
      /\ \A q, r \in puts' : q.tells = "form" /\ r.tells = "form" => q = r
  <2>1. p.tells = "form" => \A q \in puts \ {p} : q.tells # "form"
    BY DEF IInv, FormPuts
  <2>2. \A q, r \in puts : q.tells = "form" /\ r.tells = "form" => q = r
    BY DEF IInv, FormPuts
  <2>3. \A q \in puts : q.tells = "form" => form.shown /\ form.saving /\ ~form.saved
    BY DEF IInv, FormPuts
  <2>4. PICK reply \in {"ok", "error"} : puts' = Replied(p, reply)
    BY <1>4
  <2>5. \A q, r \in puts' : q \in puts \ {p} \/ r \in puts \ {p} \/ q = r
    BY <2>4 DEF Replied
  <2> QED BY <1>1, <1>5, <2>1, <2>2, <2>3, <2>5
<1>10. ASSUME puts' = Replied(p, "error"), manager'.url = manager.url, UNCHANGED <<behind, other>>
       PROVE  FormPuts' /\ ChecksCurrent'
  <2>1. \A q \in puts' :
          \/ q \in puts /\ q # p
          \/ q.reply = "error"
    BY <1>2, <1>10, RepliedLemma
  <2>2. \A q \in puts' : q.tells = "form" /\ q.reply = "ok" => other' \/ q.url = manager'.url
    BY <1>10, <2>1 DEF IInv, FormPuts
  <2>3. SaveTold => SaveTold'
    BY <1>1, <1>10 DEF SaveTold, Replied
  <2>4. ChecksCurrent'
    BY <1>1, <1>10, <2>3 DEF IInv, ChecksCurrent, Counts
  <2> QED BY <1>7, <1>8, <2>2, <2>4 DEF FormPuts
<1>11. ASSUME puts' = Replied(p, "ok"), manager'.url = p.url,
              behind' = (behind \/ p.tells = "nobody"), other' = (p.tells # "form")
       PROVE  FormPuts' /\ ChecksCurrent'
  <2>1. \A q \in puts' :
          \/ q \in puts /\ q # p
          \/ q.url = p.url /\ q.tells = p.tells
    BY <1>2, <1>11, RepliedLemma
  <2>2. \A q \in puts' : q.tells = "form" /\ q.reply = "ok" => other' \/ q.url = manager'.url
    <3>1. p.tells = "form" => \A q \in puts \ {p} : q.tells # "form"
      BY DEF IInv, FormPuts
    <3> QED BY <1>11, <2>1, <3>1
  <2>3. behind' \/ SaveTold'
    <3>1. CASE p.tells = "nobody"
      BY <1>11, <3>1
    <3>2. CASE p.tells # "nobody"
      <4>1. [p EXCEPT !.reply = "ok"] \in puts' /\ [p EXCEPT !.reply = "ok"].reply = "ok"
        BY <1>2, <1>11, <3>2 DEF Replied, Put
      <4> QED BY <4>1 DEF SaveTold
    <3> QED BY <3>1, <3>2
  <2>4. ChecksCurrent'
    BY <2>3 DEF ChecksCurrent
  <2> QED BY <1>7, <1>8, <2>2, <2>4 DEF FormPuts
<1>12. FormPuts' /\ ChecksCurrent'
  BY <1>4, <1>10, <1>11
<1>9. Numbered' /\ SelectionFromList'
  BY <1>1 DEF IInv, Numbered, SelectionFromList
<1> QED BY <1>3, <1>6, <1>9, <1>12 DEF IInv

LEMMA HandleCheckIInv == IInv /\ HandleCheck => IInv'
<1> SUFFICES ASSUME IInv, HandleCheck PROVE IInv'
  OBVIOUS
<1>1. PICK c \in calls, r \in Result :
        /\ c.reply.kind = "none"
        /\ r.url = manager.client.url
        /\ calls' = (calls \ {c}) \cup {[c EXCEPT !.reply = r]}
        /\ UNCHANGED <<server, ctx, form, puts, behind, other, spent>>
  BY DEF HandleCheck, Result, IInv, TypeOK, Client
<1>2. manager.client.url = manager.url
  BY ConnectedLemma DEF IInv, TypeOK, ServerAgrees
<1>3. /\ c \in Call /\ [c EXCEPT !.reply = r] \in Call
      /\ [c EXCEPT !.reply = r].reply = r
  BY <1>1 DEF IInv, TypeOK, Call
<1>4. TypeOK'
  BY <1>1, <1>3 DEF IInv, TypeOK, server
<1>5. ChecksCurrent'
  BY <1>1, <1>2, <1>3 DEF IInv, ChecksCurrent, SaveTold, Counts, server
<1>6. Numbered' /\ ServerAgrees' /\ SelectionFromList' /\ FormPuts'
  BY <1>1 DEF IInv, Numbered, ServerAgrees, SelectionFromList, FormPuts, SavedUrlShown, server
<1> QED BY <1>4, <1>5, <1>6 DEF IInv

LEMMA RestartIInv == IInv /\ Restart => IInv'
<1> SUFFICES ASSUME IInv, Restart PROVE IInv'
  OBVIOUS
<1>1. /\ manager' = InitialManager(row) /\ row \in Urls \cup {None}
      /\ UNCHANGED <<row, calls, ctx, form, puts, behind, other>>
      /\ spent' \in Spent /\ spent'.checks = spent.checks
  BY BoundsAssumption DEF Restart, IInv, TypeOK, Spent
<1>2. /\ manager' \in [url : Urls, key : Keys \cup {None}, client : Client]
      /\ manager' = Connected(manager'.url, manager'.key)
      /\ manager'.url = manager.url
  BY <1>1, InitialLemma DEF IInv, ServerAgrees
<1>3. TypeOK'
  BY <1>1, <1>2 DEF IInv, TypeOK, Spent
<1>4. ServerAgrees' /\ Numbered' /\ SelectionFromList'
  BY <1>1, <1>2 DEF IInv, ServerAgrees, Numbered, SelectionFromList
<1>5. FormPuts' /\ ChecksCurrent'
  BY <1>1, <1>2 DEF IInv, FormPuts, SavedUrlShown, ChecksCurrent, SaveTold, Counts
<1> QED BY <1>3, <1>4, <1>5 DEF IInv

-----------------------------------------------------------------------------
(* Checks *)

(* A new check: the answers of those before it no longer count, so that     *)
(* nothing is shown of them.                                                *)
LEMMA BeginLemma ==
  ASSUME IInv, SpendCheck, Begin(ctx), spent' = [spent EXCEPT !.checks = @ + 1]
  PROVE  /\ calls' \subseteq Call /\ ctx' \in Context /\ spent' \in Spent
         /\ behind' = FALSE /\ Numbered' /\ SelectionFromList'
         /\ ChecksCurrent'
<1> DEFINE new == [generation |-> ctx.generation + 1, aborted |-> FALSE, reply |-> NoResult]
           older == {[c EXCEPT !.aborted = TRUE] : c \in calls}
<1>1. /\ ctx \in Context /\ spent \in Spent /\ calls \subseteq Call
      /\ ctx.generation \in 0 .. MaxChecks /\ spent.checks \in 0 .. MaxChecks
      /\ ctx.generation <= spent.checks /\ spent.checks < MaxChecks /\ MaxChecks \in Nat
  BY BoundsAssumption DEF IInv, TypeOK, Spent, Context, Numbered, SpendCheck
<1>2. /\ ctx.generation + 1 \in 1 .. MaxChecks /\ ctx.generation + 1 \in 0 .. MaxChecks
      /\ spent.checks + 1 \in 0 .. MaxChecks
  BY <1>1
<1>3. new \in Call /\ new.reply.kind = "none"
  BY <1>2 DEF Call, NoResult, Result
<1>4. \A c \in older : c \in Call /\ c.aborted
  BY <1>1 DEF Call
<1>5. calls' = older \cup {new} /\ behind' = FALSE
  BY DEF Begin
<1> HIDE DEF new, older
<1>6. ctx' = [ctx EXCEPT !.generation = @ + 1, !.checking = TRUE]
  BY DEF Begin
<1>7. /\ ctx' \in Context /\ ctx'.checking
      /\ ctx'.generation = ctx.generation + 1
      /\ ctx'.check = ctx.check /\ ctx'.selected = ctx.selected
  <2>1. /\ ctx' \in Context
    BY <1>1, <1>2, <1>6 DEF Context
  <2>2. /\ ctx'.checking /\ ctx'.generation = ctx.generation + 1
        /\ ctx'.check = ctx.check /\ ctx'.selected = ctx.selected
    BY <1>1, <1>6 DEF Context
  <2> QED BY <2>1, <2>2
<1>8. spent' \in Spent /\ spent'.checks = spent.checks + 1
  BY <1>1, <1>2 DEF Spent
<1>9. Numbered' /\ SelectionFromList'
  BY <1>1, <1>7, <1>8 DEF IInv, Numbered, SelectionFromList
<1>10. ChecksCurrent'
  BY <1>3, <1>4, <1>5, <1>7 DEF ChecksCurrent, Counts
<1> QED BY <1>3, <1>4, <1>5, <1>7, <1>8, <1>9, <1>10

LEMMA RecheckIInv == IInv /\ Recheck => IInv'
<1> SUFFICES ASSUME IInv, Recheck PROVE IInv'
  OBVIOUS
<1>1. /\ calls' \subseteq Call /\ ctx' \in Context /\ spent' \in Spent
      /\ behind' = FALSE /\ Numbered' /\ SelectionFromList' /\ ChecksCurrent'
      /\ UNCHANGED <<server, form, puts, other>>
  BY BeginLemma DEF Recheck
<1>2. TypeOK'
  BY <1>1 DEF IInv, TypeOK, Spent, server
<1>3. ServerAgrees' /\ FormPuts'
  BY <1>1 DEF IInv, ServerAgrees, FormPuts, SavedUrlShown, server
<1> QED BY <1>1, <1>2, <1>3 DEF IInv

(* What the checks and the selection change leaves server and form alone.   *)
LEMMA ContextFrame ==
  ASSUME IInv, UNCHANGED <<server, form, puts, behind, other>>, spent' \in Spent,
         spent'.checks = spent.checks, calls' \subseteq calls,
         ctx' \in Context, ctx'.generation = ctx.generation, SelectionFromList',
         ~behind /\ ~SaveTold /\ ~ctx'.checking /\ ~ctx'.error => ctx'.check.url = manager.url
  PROVE  IInv'
<1>1. TypeOK'
  BY DEF IInv, TypeOK, Spent, server
<1>2. ServerAgrees' /\ FormPuts' /\ Numbered'
  BY DEF IInv, ServerAgrees, FormPuts, SavedUrlShown, Numbered, server
<1>3. ChecksCurrent'
  BY DEF IInv, ChecksCurrent, SaveTold, Counts, server
<1> QED BY <1>1, <1>2, <1>3 DEF IInv

LEMMA CheckAnsweredIInv == IInv /\ CheckAnswered => IInv'
<1> SUFFICES ASSUME IInv, CheckAnswered PROVE IInv'
  OBVIOUS
<1>1. PICK c \in calls :
        /\ c.reply.kind # "none" /\ calls' = calls \ {c}
        /\ ctx' = IF Counts(c)
                  THEN [ctx EXCEPT !.check = c.reply, !.error = FALSE, !.checking = FALSE,
                                   !.selected = SelectedAfter(c)]
                  ELSE ctx
        /\ UNCHANGED <<server, form, puts, behind, other, spent>>
  BY DEF CheckAnswered
<1>2. /\ c \in Call /\ c.reply \in Result /\ ctx \in Context /\ ctx.selected \in Models \cup {None}
      /\ spent' \in Spent /\ spent' = spent
  BY <1>1 DEF IInv, TypeOK, Call, Context, Spent
<1>3. /\ SelectedAfter(c) \in Models \cup {None}
      /\ c.reply.kind = "list" /\ SelectedAfter(c) # None => SelectedAfter(c) \in c.reply.models
  BY <1>2 DEF SelectedAfter, NextSelected
<1>4. CASE Counts(c)
  <2>1. /\ ctx' \in Context /\ ctx'.generation = ctx.generation
        /\ ctx'.check = c.reply /\ ctx'.selected = SelectedAfter(c)
    BY <1>1, <1>2, <1>3, <1>4 DEF Context
  <2>2. SelectionFromList'
    BY <1>3, <2>1 DEF SelectionFromList
  <2>3. ~behind /\ ~SaveTold => c.reply.url = manager.url
    BY <1>1, <1>4 DEF IInv, ChecksCurrent
  <2> QED BY <1>1, <1>2, <2>1, <2>2, <2>3, ContextFrame
<1>5. CASE ~Counts(c)
  <2>1. SelectionFromList'
    BY <1>1, <1>5 DEF IInv, SelectionFromList
  <2>2. ~behind /\ ~SaveTold /\ ~ctx.checking /\ ~ctx.error => ctx.check.url = manager.url
    BY DEF IInv, ChecksCurrent
  <2> QED BY <1>1, <1>2, <1>5, <2>1, <2>2, ContextFrame
<1> QED BY <1>4, <1>5

LEMMA CheckLostIInv == IInv /\ CheckLost => IInv'
<1> SUFFICES ASSUME IInv, CheckLost PROVE IInv'
  OBVIOUS
<1>1. PICK c \in calls :
        /\ calls' = calls \ {c}
        /\ ctx' = IF Counts(c) THEN [ctx EXCEPT !.error = TRUE, !.checking = FALSE] ELSE ctx
        /\ UNCHANGED <<server, form, puts, behind, other>>
  BY DEF CheckLost
<1>2. ctx \in Context /\ spent' \in Spent /\ spent'.checks = spent.checks
  BY BoundsAssumption DEF CheckLost, IInv, TypeOK, Spent
<1>3. /\ ctx' \in Context /\ ctx'.generation = ctx.generation
      /\ ctx'.check = ctx.check /\ ctx'.selected = ctx.selected
      /\ ctx' = ctx \/ ctx'.error
  BY <1>1, <1>2 DEF Context
<1>4. SelectionFromList'
  BY <1>3 DEF IInv, SelectionFromList
<1>5. ~behind /\ ~SaveTold /\ ~ctx.checking /\ ~ctx.error => ctx.check.url = manager.url
  BY DEF IInv, ChecksCurrent
<1> QED BY <1>1, <1>2, <1>3, <1>4, <1>5, ContextFrame

LEMMA SelectModelIInv == IInv /\ SelectModel => IInv'
<1> SUFFICES ASSUME IInv, SelectModel PROVE IInv'
  OBVIOUS
<1>1. PICK m \in ctx.check.models :
        /\ ctx' = [ctx EXCEPT !.selected = m]
        /\ UNCHANGED <<server, calls, form, puts, behind, other, spent>>
  BY DEF SelectModel
<1>2. ctx \in Context /\ m \in Models /\ spent' \in Spent /\ spent' = spent
  BY <1>1 DEF IInv, TypeOK, Context, Result, Spent
<1>3. /\ ctx' \in Context /\ ctx'.generation = ctx.generation
      /\ ctx'.check = ctx.check /\ ctx'.selected = m
      /\ ctx'.error = ctx.error /\ ctx'.checking = ctx.checking
  BY <1>1, <1>2 DEF Context
<1>4. SelectionFromList'
  BY <1>3 DEF SelectionFromList
<1>5. ~behind /\ ~SaveTold /\ ~ctx.checking /\ ~ctx.error => ctx.check.url = manager.url
  BY DEF IInv, ChecksCurrent
<1> QED BY <1>1, <1>2, <1>3, <1>4, <1>5, ContextFrame

-----------------------------------------------------------------------------
(* The form *)

LEMMA FormFrame ==
  ASSUME IInv, UNCHANGED <<server, calls, ctx, behind, other>>, spent' \in Spent,
         spent'.checks = spent.checks, form' \in Form, puts' \subseteq Put,
         SaveTold => SaveTold', FormPuts'
  PROVE  IInv'
<1>1. TypeOK'
  BY DEF IInv, TypeOK, Spent, server
<1>2. ServerAgrees' /\ SelectionFromList' /\ Numbered'
  BY DEF IInv, ServerAgrees, SelectionFromList, Numbered, server
<1>3. ChecksCurrent'
  BY DEF IInv, ChecksCurrent, Counts, server
<1> QED BY <1>1, <1>2, <1>3 DEF IInv

LEMMA FormTypes ==
  ASSUME TypeOK
  PROVE  /\ form \in Form /\ puts \subseteq Put /\ spent \in Spent /\ NewForm \in Form /\ NoForm \in Form
         /\ manager.url \in Urls
         /\ NoForm.shown = FALSE /\ NoForm.saving = FALSE /\ NoForm.saved = FALSE
         /\ NewForm.shown = TRUE /\ NewForm.saving = FALSE /\ NewForm.saved = FALSE
<1>1. /\ NoForm \in Form /\ NoForm.shown = FALSE /\ NoForm.saving = FALSE /\ NoForm.saved = FALSE
  BY DEF NoForm, Form
<1>2. /\ NewForm \in Form
      /\ NewForm.shown = TRUE /\ NewForm.saving = FALSE /\ NewForm.saved = FALSE
  BY DEF NoForm, NewForm, Form
<1> QED BY <1>1, <1>2 DEF TypeOK, Spent

LEMMA HandleGetIInv == IInv /\ HandleGet => IInv'
<1> SUFFICES ASSUME IInv, HandleGet PROVE IInv'
  OBVIOUS
<1>1. /\ form' \in Form /\ form'.shown = form.shown /\ form'.saving = form.saving
      /\ form'.saved = form.saved /\ form'.dirty = form.dirty /\ form'.typed = form.typed
      /\ form'.url = form.url
  BY FormTypes DEF HandleGet, IInv, Form
<1>2. FormPuts'
  BY <1>1 DEF HandleGet, IInv, FormPuts, SavedUrlShown, server
<1> QED BY <1>1, <1>2, FormTypes, FormFrame DEF HandleGet, IInv, SaveTold

LEMMA GetAnsweredIInv == IInv /\ GetAnswered => IInv'
<1> SUFFICES ASSUME IInv, GetAnswered PROVE IInv'
  OBVIOUS
<1>1. form \in Form /\ Shows(form.get) \in Urls \cup {None}
  BY FormTypes DEF GetAnswered, Shows, IInv, Form
<1>2. /\ form' \in Form /\ form'.shown = form.shown /\ form'.saving = form.saving
      /\ form'.saved = form.saved /\ form'.dirty = form.dirty /\ form'.typed = form.typed
      /\ form'.url = Shows(form.get)
  BY <1>1 DEF GetAnswered, Form
<1>3. form.saved => Shows(form.get) = form.url
  BY DEF Shows, IInv, FormPuts
<1>4. FormPuts'
  BY <1>2, <1>3 DEF GetAnswered, IInv, FormPuts, SavedUrlShown, server
<1> QED BY <1>2, <1>4, FormTypes, FormFrame DEF GetAnswered, IInv, SaveTold

LEMMA GetLostIInv == IInv /\ GetLost => IInv'
<1> SUFFICES ASSUME IInv, GetLost PROVE IInv'
  OBVIOUS
<1>1. /\ form' \in Form /\ form'.shown = form.shown /\ form'.saving = form.saving
      /\ form'.saved = form.saved /\ form'.dirty = form.dirty /\ form'.typed = form.typed
      /\ form'.url = form.url
  BY FormTypes DEF GetLost, IInv, Form
<1>2. spent' \in Spent /\ spent'.checks = spent.checks
  BY FormTypes, BoundsAssumption DEF GetLost, IInv, Spent
<1>3. FormPuts'
  BY <1>1 DEF GetLost, IInv, FormPuts, SavedUrlShown, server
<1> QED BY <1>1, <1>2, <1>3, FormTypes, FormFrame DEF GetLost, IInv, SaveTold

LEMMA OpenSettingsIInv == IInv /\ OpenSettings => IInv'
<1> SUFFICES ASSUME IInv, OpenSettings PROVE IInv'
  OBVIOUS
<1>1. spent' \in Spent /\ spent'.checks = spent.checks
  BY FormTypes, BoundsAssumption DEF OpenSettings, IInv, Spent
<1>2. FormPuts'
  BY FormTypes DEF OpenSettings, IInv, FormPuts, SavedUrlShown
<1> QED BY <1>1, <1>2, FormTypes, FormFrame DEF OpenSettings, IInv, SaveTold

LEMMA LeaveSettingsIInv == IInv /\ LeaveSettings => IInv'
<1> SUFFICES ASSUME IInv, LeaveSettings PROVE IInv'
  OBVIOUS
<1> DEFINE Left(p) == [p EXCEPT !.tells = IF @ = "form" THEN "app" ELSE @]
<1>1. \A p \in puts : Left(p) \in Put /\ Left(p).tells # "form" /\ Left(p).reply = p.reply
  BY FormTypes DEF IInv, Put
<1>2. puts' = {Left(p) : p \in puts}
  BY DEF LeaveSettings
<1> HIDE DEF Left
<1>3. FormPuts'
  BY <1>1, <1>2, FormTypes DEF LeaveSettings, IInv, FormPuts, SavedUrlShown
<1>4. SaveTold => SaveTold'
  BY <1>1, <1>2 DEF SaveTold
<1> QED BY <1>1, <1>2, <1>3, <1>4, FormTypes, FormFrame DEF LeaveSettings, IInv

LEMMA TypeUrlIInv == IInv /\ TypeUrl => IInv'
<1> SUFFICES ASSUME IInv, TypeUrl PROVE IInv'
  OBVIOUS
<1>1. /\ form' \in Form /\ form'.shown = form.shown /\ form'.saving = form.saving
      /\ form'.saved = form.saved /\ form'.dirty /\ form'.typed
  BY FormTypes DEF TypeUrl, IInv, Form
<1>2. FormPuts'
  BY <1>1 DEF TypeUrl, IInv, FormPuts, SavedUrlShown, server
<1> QED BY <1>1, <1>2, FormTypes, FormFrame DEF TypeUrl, IInv, SaveTold

LEMMA SaveIInv == IInv /\ Save => IInv'
<1> SUFFICES ASSUME IInv, Save PROVE IInv'
  OBVIOUS
<1>1. PICK p \in Put :
        /\ puts' = puts \cup {p} /\ p.tells = "form" /\ p.reply = "none"
        /\ spent' \in Spent /\ spent'.checks = spent.checks
  <2>1. PICK change \in KeyChange :
          /\ Submittable
          /\ spent.saves < MaxSaves /\ spent' = [spent EXCEPT !.saves = @ + 1]
          /\ puts' = puts \cup {[n |-> spent'.saves, url |-> form.url, key |-> change,
                                 tells |-> "form", reply |-> "none"]}
    BY DEF Save
  <2>2. /\ spent' \in Spent /\ spent'.checks = spent.checks /\ spent'.saves \in 1 .. MaxSaves
    BY <2>1, FormTypes, BoundsAssumption DEF IInv, Spent
  <2>3. form.url \in Urls
    BY <2>1, FormTypes DEF IInv, Submittable, Form
  <2> QED BY <2>1, <2>2, <2>3 DEF Put
<1>2. /\ form' \in Form /\ form.shown /\ form'.shown /\ ~form.saving /\ form'.saving
      /\ ~form'.saved
  BY FormTypes DEF Save, Submittable, IInv, Form
<1>3. FormPuts'
  BY <1>1, <1>2 DEF Save, IInv, FormPuts, SavedUrlShown, server
<1> QED BY <1>1, <1>2, <1>3, FormTypes, FormFrame DEF Save, IInv, SaveTold

LEMMA PutAnsweredIInv == IInv /\ PutAnswered => IInv'
<1> SUFFICES ASSUME IInv, PutAnswered PROVE IInv'
  OBVIOUS
<1>1. PICK p \in puts :
        /\ p.reply # "none" /\ puts' = puts \ {p}
        /\ form' = IF p.tells # "form" THEN form
                   ELSE IF p.reply = "ok"
                   THEN [form EXCEPT !.dirty = TRUE, !.url = p.url, !.saving = FALSE,
                                     !.saved = TRUE, !.typed = FALSE]
                   ELSE [form EXCEPT !.saving = FALSE]
        /\ IF FollowsSave(p)
           THEN SpendCheck /\ Begin(ctx) /\ spent' = [spent EXCEPT !.checks = @ + 1]
           ELSE UNCHANGED <<calls, ctx, behind, spent>>
        /\ UNCHANGED <<server, other>>
  BY DEF PutAnswered
<1>2. p \in Put /\ p.url \in Urls /\ form \in Form /\ puts' \subseteq Put
  BY <1>1, FormTypes DEF IInv, Put
<1>3. \/ p.tells # "form" /\ form' = form
      \/ /\ p.tells = "form" /\ p.reply = "ok"
         /\ form'.saved /\ form'.dirty /\ form'.url = p.url
      \/ /\ p.tells = "form" /\ p.reply # "ok"
         /\ form'.saved = form.saved /\ form'.dirty = form.dirty
  BY <1>1, <1>2 DEF Form
<1>4. form' \in Form
  BY <1>1, <1>2 DEF Form
<1>5. FormPuts'
  BY <1>1, <1>3 DEF IInv, FormPuts, SavedUrlShown, server
<1>6. CASE FollowsSave(p)
  <2>1. /\ calls' \subseteq Call /\ ctx' \in Context /\ spent' \in Spent
        /\ behind' = FALSE /\ Numbered' /\ SelectionFromList' /\ ChecksCurrent'
    BY <1>1, <1>6, BeginLemma
  <2>2. TypeOK'
    BY <1>1, <1>2, <1>4, <2>1 DEF IInv, TypeOK, Spent, server
  <2>3. ServerAgrees'
    BY <1>1 DEF IInv, ServerAgrees, server
  <2> QED BY <1>5, <2>1, <2>2, <2>3 DEF IInv
<1>7. CASE ~FollowsSave(p)
  <2>1. SaveTold => SaveTold'
    BY <1>1, <1>7 DEF SaveTold, FollowsSave
  <2> QED BY <1>1, <1>2, <1>4, <1>5, <1>7, <2>1, FormTypes, FormFrame DEF IInv
<1> QED BY <1>6, <1>7

LEMMA UnheardLemma ==
  ASSUME NEW ps \in SUBSET Put, NEW q \in Unheard(ps)
  PROVE  q \in Put /\ q.tells = "nobody" /\ q.reply = "none"
<1>1. PICK p \in ps : p.reply = "none" /\ q = [p EXCEPT !.tells = "nobody"]
  BY DEF Unheard
<1> QED BY <1>1 DEF Put

LEMMA PutLostIInv == IInv /\ PutLost => IInv'
<1> SUFFICES ASSUME IInv, PutLost PROVE IInv'
  OBVIOUS
<1>1. PICK p \in puts :
        /\ puts' = (puts \ {p}) \cup Unheard({p})
        /\ form' = IF p.tells = "form" THEN [form EXCEPT !.saving = FALSE] ELSE form
        /\ behind' = (behind \/ p.reply = "ok")
        /\ UNCHANGED <<server, calls, ctx, other>>
  BY DEF PutLost
<1>2. p \in Put /\ form \in Form /\ spent' \in Spent /\ spent'.checks = spent.checks
  BY FormTypes, BoundsAssumption DEF PutLost, IInv, Spent
<1>3. \A q \in puts' :
        \/ q \in puts /\ q # p
        \/ q \in Put /\ q.tells = "nobody" /\ q.reply = "none"
  BY <1>1, <1>2, UnheardLemma
<1>4. /\ form' \in Form /\ form'.shown = form.shown
      /\ form'.saving = (form.saving /\ p.tells # "form")
      /\ form'.saved = form.saved /\ form'.dirty = form.dirty /\ form'.url = form.url
      /\ form'.typed = form.typed
  BY <1>1, <1>2 DEF Form
<1>5. TypeOK'
  BY <1>1, <1>2, <1>3, <1>4 DEF IInv, TypeOK, Spent, server
<1>6. FormPuts'
  BY <1>1, <1>3, <1>4 DEF IInv, FormPuts, SavedUrlShown, server
<1>7. ServerAgrees' /\ SelectionFromList' /\ Numbered'
  BY <1>1, <1>2 DEF IInv, ServerAgrees, SelectionFromList, Numbered, server
<1>8. ~behind' /\ ~SaveTold' => ~behind /\ ~SaveTold
  BY <1>1 DEF SaveTold
<1>9. ChecksCurrent'
  BY <1>1, <1>8 DEF IInv, ChecksCurrent, Counts, server
<1> QED BY <1>5, <1>6, <1>7, <1>9 DEF IInv

LEMMA ReloadIInv == IInv /\ Reload => IInv'
<1> SUFFICES ASSUME IInv, Reload PROVE IInv'
  OBVIOUS
<1> DEFINE first == [generation |-> 1, aborted |-> FALSE, reply |-> NoResult]
<1>1. /\ calls' = {first} /\ behind' = FALSE /\ form' = NoForm /\ puts' = Unheard(puts)
      /\ UNCHANGED <<server, other>>
      /\ ctx' = [generation |-> 1, check |-> NoResult, error |-> FALSE, checking |-> TRUE,
                 selected |-> ctx.selected]
  BY DEF Reload
<1>2. NoResult \in Result /\ NoResult.kind = "none"
  BY DEF NoResult, Result
<1>3. first \in Call /\ first.reply.kind = "none"
  BY <1>2, BoundsAssumption DEF Call
<1> HIDE DEF first
<1>4. ctx' \in Context /\ ctx'.generation = 1 /\ ctx'.checking /\ ctx'.check.kind = "none"
  BY <1>1, <1>2, BoundsAssumption DEF IInv, TypeOK, Context
<1>5. spent' \in Spent /\ spent'.checks >= 1
  <2>1. /\ spent \in Spent /\ spent.checks < MaxChecks /\ spent.visits < MaxVisits
        /\ spent' = [spent EXCEPT !.visits = @ + 1, !.checks = @ + 1]
    BY FormTypes DEF Reload, SpendCheck, IInv
  <2>2. /\ spent.checks \in Nat /\ spent.checks + 1 \in 0 .. MaxChecks
        /\ spent.visits + 1 \in 0 .. MaxVisits
    BY <2>1, BoundsAssumption DEF Spent
  <2>3. spent' \in Spent
    BY <2>1, <2>2 DEF Spent
  <2>4. spent'.checks = spent.checks + 1
    BY <2>1 DEF Spent
  <2> QED BY <2>2, <2>3, <2>4
<1>6. \A q \in puts' : q \in Put /\ q.tells = "nobody" /\ q.reply = "none"
  BY <1>1, UnheardLemma DEF IInv, TypeOK
<1>7. TypeOK'
  BY <1>1, <1>3, <1>4, <1>5, <1>6, FormTypes DEF IInv, TypeOK, Spent, server
<1>8. Numbered' /\ SelectionFromList' /\ ServerAgrees'
  BY <1>1, <1>4, <1>5 DEF IInv, Numbered, SelectionFromList, ServerAgrees, server
<1>9. FormPuts'
  BY <1>1, <1>6, FormTypes DEF IInv, FormPuts, SavedUrlShown
<1>10. ChecksCurrent'
  BY <1>1, <1>3, <1>4 DEF ChecksCurrent
<1> QED BY <1>7, <1>8, <1>9, <1>10 DEF IInv

-----------------------------------------------------------------------------
LEMMA StutterIInv == IInv /\ UNCHANGED vars => IInv'
<1> SUFFICES ASSUME IInv, UNCHANGED vars PROVE IInv'
  OBVIOUS
<1>1. SaveTold => SaveTold'
  BY DEF vars, SaveTold
<1>2. FormPuts'
  BY DEF vars, server, IInv, FormPuts, SavedUrlShown
<1> QED BY <1>1, <1>2, FormTypes, FormFrame DEF vars, server, IInv

LEMMA NextIInv == IInv /\ [Next]_vars => IInv'
  BY StutterIInv, HandlePutIInv, HandleCheckIInv, HandleGetIInv, RestartIInv,
     CheckAnsweredIInv, CheckLostIInv, RecheckIInv, SelectModelIInv, OpenSettingsIInv,
     LeaveSettingsIInv, GetAnsweredIInv, GetLostIInv, TypeUrlIInv, SaveIInv,
     PutAnsweredIInv, PutLostIInv, ReloadIInv
     DEF Next

(* The invariant of the connection, its checks and its form. *)
THEOREM Invariance == Spec => []IInv
  BY InitIInv, NextIInv, PTL DEF Spec

(* Every variable keeps its type, for any endpoints, keys and bounds. *)
THEOREM TypeCorrect == Spec => []TypeOK
<1>1. IInv => TypeOK
  BY DEF IInv
<1> QED BY <1>1, Invariance, PTL

(* Row, endpoint, key and client agree however updates fail and whenever    *)
(* the process restarts (connection.ts, update).                            *)
THEOREM ServerAgreement == Spec => []ServerAgrees
<1>1. IInv => ServerAgrees
  BY DEF IInv
<1> QED BY <1>1, Invariance, PTL

(* A form that says "saved" shows what the server uses                      *)
(* (connection-section.tsx, settingsDirtyRef).                              *)
THEOREM SavedShown == Spec => []SavedUrlShown
<1>1. IInv => SavedUrlShown
  BY DEF IInv, FormPuts
<1> QED BY <1>1, Invariance, PTL

(* A check that is shown at rest was made of the endpoint in use            *)
(* (connection-context.tsx, generationRef and controllerRef).               *)
THEOREM QuietChecksCurrent == Spec => []QuietCheckIsCurrent
<1>1. IInv => QuietCheckIsCurrent
  BY DEF IInv, ChecksCurrent, SaveTold, QuietCheckIsCurrent
<1> QED BY <1>1, Invariance, PTL

(* The selected model is one of the list shown (model-selection.ts).        *)
THEOREM SelectionListed == Spec => []SelectionFromList
<1>1. IInv => SelectionFromList
  BY DEF IInv
<1> QED BY <1>1, Invariance, PTL
=============================================================================
