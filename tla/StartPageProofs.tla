--------------------------- MODULE StartPageProofs ---------------------------
EXTENDS StartPage, SequenceTheorems, TLAPS

(* A restore and a confirmation are never both under way, nobody but an     *)
(* open page waits for either, and what a restore asked for is what the     *)
(* storage still holds.                                                     *)
ManuscriptShown ==
  /\ ~open => man = None /\ restore = None
  /\ \A c \in confirms : c.mine => open /\ man = None /\ restore = None
  /\ \A c, d \in confirms : c.mine /\ d.mine => c = d
  /\ restore # None => man = None /\ (overtaken \/ stored = restore.version)
  /\ ShownIsStored

(* Every operation was asked once, and whatever carries its number carries  *)
(* the manuscript it was asked for.                                         *)
AsAsked ==
  /\ Len(asks) <= MaxStarts
  /\ \A i, j \in DOMAIN runs : i < j /\ runs[i].op = runs[j].op => ~runs[i].live
  /\ \A i \in DOMAIN runs : runs[i].op \in DOMAIN asks /\ runs[i].version = asks[runs[i].op]
  /\ \A p \in posts : p.op \in DOMAIN asks /\ p.version = asks[p.op]
  /\ home.snapshot # 0 => home.snapshot \in DOMAIN asks /\ home.sends = asks[home.snapshot]

(* The outcome goes to a run of the operation sent last. *)
Reaches(outcome) ==
  outcome.kind = "started" =>
    outcome.run \in DOMAIN runs /\ runs[outcome.run].op = home.last

(* start() and send(): what the page knows at each point of an operation,   *)
(* whose answers it waits for, and what those say.                          *)
PageKnows ==
  /\ home.at = "rest" <=> home.outcome.kind # "sending"
  /\ home.at = "checking" =>
       home.version # None /\ home.before.kind # "sending" /\ Reaches(home.before)
  /\ home.at = "posting" => home.snapshot = home.last /\ home.snapshot # 0
  /\ home.at # "posting" =>
       /\ home.canRetry <=> (home.fate = "unknown")
       /\ home.canRetry => home.snapshot = home.last /\ home.snapshot # 0
  /\ Reaches(home.outcome)

Waits ==
  /\ \A p \in posts : p.mine => home.at = "posting" /\ p.op = home.last
  /\ \A p, q \in posts : p.mine /\ q.mine => p = q
  /\ \A p \in posts : p.reply = "run" => p.run \in DOMAIN runs /\ runs[p.run].op = p.op

IInv == TypeOK /\ RunsHaveManuscripts /\ ManuscriptShown /\ AsAsked /\ PageKnows /\ Waits

-----------------------------------------------------------------------------
(* Facts about the data *)

LEMMA RunSet == \A r \in Run : r.op \in 1 .. MaxStarts /\ r.version \in Versions
  BY DEF Run

(* Appending a run keeps the runs before it. *)
LEMMA AppendRun ==
  ASSUME runs \in Seq(Run), NEW r \in Run
  PROVE  /\ Append(runs, r) \in Seq(Run)
         /\ DOMAIN runs = 1 .. Len(runs) /\ Len(runs) \in Nat
         /\ DOMAIN Append(runs, r) = 1 .. Len(runs) + 1
         /\ Append(runs, r)[Len(runs) + 1] = r
         /\ \A i \in DOMAIN runs : Append(runs, r)[i] = runs[i]
<1>1. /\ Append(runs, r) \in Seq(Run)
      /\ Len(Append(runs, r)) = Len(runs) + 1
      /\ \A i \in 1 .. Len(runs) : Append(runs, r)[i] = runs[i]
      /\ Append(runs, r)[Len(runs) + 1] = r
  BY AppendProperties
<1>2. /\ DOMAIN runs = 1 .. Len(runs) /\ Len(runs) \in Nat
      /\ DOMAIN Append(runs, r) = 1 .. Len(Append(runs, r))
  BY <1>1
<1> QED BY <1>1, <1>2

(* The same for a start operation. *)
LEMMA AppendAsk ==
  ASSUME asks \in Seq(Versions), NEW v \in Versions, Len(asks) < MaxStarts
  PROVE  /\ Append(asks, v) \in Seq(Versions)
         /\ Len(Append(asks, v)) = Len(asks) + 1 /\ Len(asks) + 1 <= MaxStarts
         /\ Len(asks) + 1 \in 1 .. MaxStarts
         /\ Len(asks) + 1 \in DOMAIN Append(asks, v)
         /\ Append(asks, v)[Len(asks) + 1] = v
         /\ \A i \in DOMAIN asks : i \in DOMAIN Append(asks, v) /\ Append(asks, v)[i] = asks[i]
<1>1. /\ Append(asks, v) \in Seq(Versions)
      /\ Len(Append(asks, v)) = Len(asks) + 1
      /\ \A i \in 1 .. Len(asks) : Append(asks, v)[i] = asks[i]
      /\ Append(asks, v)[Len(asks) + 1] = v
  BY AppendProperties
<1>2. /\ DOMAIN asks = 1 .. Len(asks) /\ Len(asks) \in Nat /\ MaxStarts \in Nat
      /\ DOMAIN Append(asks, v) = 1 .. Len(Append(asks, v))
  BY <1>1, BoundsAssumption
<1> QED BY <1>1, <1>2

(* Deleting a run changes nothing of a run but that it is there. *)
LEMMA DeletedRuns ==
  ASSUME runs \in Seq(Run), NEW i \in DOMAIN runs
  PROVE  LET after == [runs EXCEPT ![i].live = FALSE] IN
         /\ after \in Seq(Run) /\ DOMAIN after = DOMAIN runs
         /\ \A j \in DOMAIN runs : /\ after[j].op = runs[j].op
                                   /\ after[j].version = runs[j].version
                                   /\ after[j].live <=> (runs[j].live /\ j # i)
<1> DEFINE gone == [runs[i] EXCEPT !.live = FALSE]
<1>1. /\ DOMAIN runs = 1 .. Len(runs) /\ Len(runs) \in Nat
      /\ \A j \in DOMAIN runs : runs[j] \in Run
  BY ElementOfSeq
<1>2. gone \in Run /\ gone.op = runs[i].op /\ gone.version = runs[i].version /\ ~gone.live
  BY <1>1 DEF Run
<1>3. [runs EXCEPT ![i].live = FALSE] = [runs EXCEPT ![i] = gone]
  OBVIOUS
<1> HIDE DEF gone
<1>4. /\ [runs EXCEPT ![i] = gone] \in Seq(Run)
      /\ DOMAIN [runs EXCEPT ![i] = gone] = DOMAIN runs
      /\ \A j \in DOMAIN runs : [runs EXCEPT ![i] = gone][j] = IF j = i THEN gone ELSE runs[j]
  BY <1>1, <1>2, ExceptSeq
<1>5. \A j \in DOMAIN runs : runs[j].live \in BOOLEAN
  BY <1>1 DEF Run
<1> QED BY <1>2, <1>3, <1>4, <1>5

LEMMA RequestLemma ==
  ASSUME NEW op \in 1 .. MaxStarts, NEW v \in Versions, NEW mine \in BOOLEAN
  PROVE  /\ Request(op, v, mine) \in Post
         /\ Request(op, v, mine).op = op /\ Request(op, v, mine).version = v
         /\ Request(op, v, mine).mine = mine /\ Request(op, v, mine).reply = "none"
  BY DEF Request, Post

LEMMA DetachedLemma ==
  ASSUME NEW ps \in SUBSET Post, NEW d \in Detached(ps)
  PROVE  /\ d \in Post /\ ~d.mine /\ d.reply = "none"
         /\ \E p \in ps : d.op = p.op /\ d.version = p.version
<1>1. PICK p \in ps : p.reply = "none" /\ d = [p EXCEPT !.mine = FALSE]
  BY DEF Detached
<1> QED BY <1>1 DEF Post

LEMMA AnsweredLemma ==
  ASSUME posts \subseteq Post, NEW p \in posts, NEW run \in Nat,
         NEW reply \in {"none", "run", "refused", "error"},
         NEW q \in Answered(p, reply, run)
  PROVE  /\ q \in Post
         /\ \/ q \in posts /\ q # p
            \/ /\ p.mine /\ q.mine /\ q.reply = reply /\ q.run = run
               /\ q.op = p.op /\ q.version = p.version
<1>1. \/ q \in posts /\ q # p
      \/ p.mine /\ q = [p EXCEPT !.reply = reply, !.run = run]
  BY DEF Answered
<1> QED BY <1>1 DEF Post

-----------------------------------------------------------------------------
(* The initial state *)

LEMMA FreshLemma ==
  /\ FreshHome \in Home
  /\ FreshHome.at = "rest" /\ FreshHome.outcome = Idle /\ FreshHome.snapshot = 0
  /\ ~FreshHome.canRetry /\ FreshHome.fate = "none"
  BY BoundsAssumption DEF FreshHome, Home, Outcome, Idle

LEMMA InitIInv == Init => IInv
<1> SUFFICES ASSUME Init PROVE IInv
  OBVIOUS
<1>1. /\ runs = << >> /\ asks = << >> /\ posts = {} /\ confirms = {} /\ home = FreshHome
      /\ man = None /\ restore = None /\ stored = None /\ strays = {}
      /\ open = TRUE /\ overtaken = FALSE /\ manuscripts = {} /\ given = {}
      /\ spent = [faults |-> 0, leaves |-> 0]
  BY DEF Init
<1>2. runs \in Seq(Run) /\ DOMAIN runs = {}
  BY <1>1
<1>3. asks \in Seq(Versions) /\ Len(asks) = 0
  BY <1>1
<1>4. TypeOK
  <2>1. spent \in [faults : 0 .. MaxFaults, leaves : 0 .. MaxLeaves]
    BY <1>1, BoundsAssumption
  <2> QED BY <1>1, <1>2, <1>3, <2>1, FreshLemma DEF TypeOK
<1>5. RunsHaveManuscripts /\ ManuscriptShown
  BY <1>1, <1>2 DEF RunsHaveManuscripts, Live, ManuscriptShown, ShownIsStored
<1>6. AsAsked
  BY <1>1, <1>2, <1>3, FreshLemma, BoundsAssumption DEF AsAsked
<1>7. PageKnows /\ Waits
  BY <1>1, FreshLemma DEF PageKnows, Waits, Reaches, Idle
<1> QED BY <1>4, <1>5, <1>6, <1>7 DEF IInv

-----------------------------------------------------------------------------
(* The manuscript.  These actions leave the start operation alone. *)

LEMMA ManuscriptFrame ==
  ASSUME IInv, TypeOK', UNCHANGED <<runs, posts, home, asks>>,
         manuscripts \subseteq manuscripts', ManuscriptShown'
  PROVE  IInv'
<1>1. RunsHaveManuscripts'
  BY DEF IInv, RunsHaveManuscripts, Live
<1>2. AsAsked' /\ PageKnows' /\ Waits'
  BY DEF IInv, AsAsked, PageKnows, Waits, Reaches
<1> QED BY <1>1, <1>2 DEF IInv

LEMMA SpentLemma ==
  ASSUME TypeOK
  PROVE  /\ Fault => spent' \in [faults : 0 .. MaxFaults, leaves : 0 .. MaxLeaves]
         /\ SpendLeave => spent' \in [faults : 0 .. MaxFaults, leaves : 0 .. MaxLeaves]
  BY BoundsAssumption DEF TypeOK, Fault, SpendLeave

LEMMA ServeRestoreIInv == IInv /\ ServeRestore => IInv'
<1> SUFFICES ASSUME IInv, ServeRestore PROVE IInv'
  OBVIOUS
<1>1. restore \in Restore /\ restore # None
  BY DEF ServeRestore, IInv, TypeOK
<1>2. restore' \in Restore /\ restore'.version = restore.version
  BY <1>1 DEF ServeRestore, Restore
<1>3. spent' \in [faults : 0 .. MaxFaults, leaves : 0 .. MaxLeaves]
  BY SpentLemma DEF ServeRestore, IInv, TypeOK
<1>4. UNCHANGED <<server, posts, confirms, stored, open, man, home, strays, asks, overtaken>>
  BY DEF ServeRestore
<1>5. TypeOK'
  BY <1>2, <1>3, <1>4 DEF IInv, TypeOK, server
<1>6. ManuscriptShown'
  BY <1>1, <1>2, <1>4 DEF IInv, ManuscriptShown, ShownIsStored
<1> QED BY <1>4, <1>5, <1>6, ManuscriptFrame DEF server

LEMMA RestoreAnsweredIInv == IInv /\ RestoreAnswered => IInv'
<1> SUFFICES ASSUME IInv, RestoreAnswered PROVE IInv'
  OBVIOUS
<1>1. restore # None /\ restore.version \in Versions
  BY DEF RestoreAnswered, IInv, TypeOK, Restore
<1>2. TypeOK'
  BY <1>1 DEF RestoreAnswered, IInv, TypeOK, server
<1>3. /\ open /\ man = None /\ (overtaken \/ stored = restore.version)
      /\ \A c \in confirms : ~c.mine
  BY <1>1 DEF IInv, TypeOK, ManuscriptShown
<1>4. ManuscriptShown'
  BY <1>1, <1>3 DEF RestoreAnswered, ManuscriptShown, ShownIsStored
<1> QED BY <1>2, <1>4, ManuscriptFrame DEF RestoreAnswered, server

LEMMA PressConfirmIInv == IInv /\ PressConfirm => IInv'
<1> SUFFICES ASSUME IInv, PressConfirm PROVE IInv'
  OBVIOUS
<1> DEFINE asked == [mine |-> TRUE, reply |-> "none", version |-> None]
<1>1. asked \in Confirm /\ asked.mine
  BY DEF Confirm
<1>2. confirms' = confirms \cup {asked}
  BY DEF PressConfirm
<1> HIDE DEF asked
<1>3. TypeOK'
  BY <1>1, <1>2 DEF PressConfirm, AbortRestore, IInv, TypeOK, server
<1>4. ManuscriptShown'
  BY <1>1, <1>2 DEF PressConfirm, AbortRestore, IInv, ManuscriptShown, ShownIsStored
<1> QED BY <1>3, <1>4, ManuscriptFrame DEF PressConfirm, server

LEMMA ServeConfirmIInv == IInv /\ ServeConfirm => IInv'
<1> SUFFICES ASSUME IInv, ServeConfirm PROVE IInv'
  OBVIOUS
<1>1. PICK c \in confirms, d \in Confirm :
        /\ confirms' = (confirms \ {c}) \cup {d} /\ (d.mine <=> c.mine)
        /\ manuscripts' \subseteq given' /\ given' \subseteq Versions
        /\ manuscripts \subseteq manuscripts'
  <2>1. PICK c \in confirms :
          \/ \E v \in Versions \ given :
               /\ manuscripts' = manuscripts \cup {v} /\ given' = given \cup {v}
               /\ confirms' = (confirms \ {c}) \cup {[c EXCEPT !.reply = "created", !.version = v]}
          \/ /\ confirms' = (confirms \ {c}) \cup {[c EXCEPT !.reply = "failed"]}
             /\ UNCHANGED <<manuscripts, given>>
    BY DEF ServeConfirm
  <2>2. c \in Confirm
    BY DEF IInv, TypeOK
  <2>3. /\ [c EXCEPT !.reply = "failed"] \in Confirm
        /\ [c EXCEPT !.reply = "failed"].mine = c.mine
        /\ \A v \in Versions : /\ [c EXCEPT !.reply = "created", !.version = v] \in Confirm
                              /\ [c EXCEPT !.reply = "created", !.version = v].mine = c.mine
    BY <2>2 DEF Confirm
  <2> QED BY <2>1, <2>3 DEF IInv, TypeOK
<1>2. UNCHANGED <<runs, posts, browser, asks, overtaken, spent>>
  BY DEF ServeConfirm
<1>3. TypeOK'
  BY <1>1, <1>2 DEF IInv, TypeOK, browser
<1>4. ManuscriptShown'
  BY <1>1, <1>2 DEF IInv, ManuscriptShown, ShownIsStored, browser
<1> QED BY <1>1, <1>2, <1>3, <1>4, ManuscriptFrame DEF browser

LEMMA ConfirmAnsweredIInv == IInv /\ ConfirmAnswered => IInv'
<1> SUFFICES ASSUME IInv, ConfirmAnswered PROVE IInv'
  OBVIOUS
<1>1. PICK c \in confirms :
        /\ confirms' = confirms \ {c}
        /\ man' = IF c.mine /\ c.reply = "created" THEN c.version ELSE man
        /\ stored' = IF c.reply = "created" THEN c.version ELSE stored
        /\ overtaken' = (overtaken \/ (~c.mine /\ c.reply = "created"))
        /\ UNCHANGED <<server, posts, open, restore, home, strays, asks, spent>>
  BY DEF ConfirmAnswered
<1>2. c.version \in Versions \cup {None} /\ c.mine \in BOOLEAN
  BY DEF IInv, TypeOK, Confirm
<1>3. TypeOK'
  BY <1>1, <1>2 DEF IInv, TypeOK, server
<1>4. ManuscriptShown'
  <2>1. CASE c.mine
    <3>1. open /\ man = None /\ restore = None /\ \A d \in confirms' : ~d.mine
      BY <1>1, <2>1 DEF IInv, ManuscriptShown
    <3> QED BY <1>1, <2>1, <3>1 DEF ManuscriptShown, ShownIsStored
  <2>2. CASE ~c.mine
    BY <1>1, <2>2 DEF IInv, ManuscriptShown, ShownIsStored
  <2> QED BY <2>1, <2>2
<1> QED BY <1>1, <1>3, <1>4, ManuscriptFrame DEF server

LEMMA LoseConfirmIInv == IInv /\ LoseConfirm => IInv'
<1> SUFFICES ASSUME IInv, LoseConfirm PROVE IInv'
  OBVIOUS
<1>1. /\ confirms' \subseteq confirms /\ Fault
      /\ UNCHANGED <<server, posts, browser, asks, overtaken>>
  BY DEF LoseConfirm
<1>2. TypeOK'
  BY <1>1, SpentLemma DEF IInv, TypeOK, server, browser
<1>3. ManuscriptShown'
  BY <1>1 DEF IInv, ManuscriptShown, ShownIsStored, browser
<1> QED BY <1>1, <1>2, <1>3, ManuscriptFrame DEF server, browser

LEMMA PressResetIInv == IInv /\ PressReset => IInv'
<1> SUFFICES ASSUME IInv, PressReset PROVE IInv'
  OBVIOUS
<1>1. TypeOK'
  BY DEF PressReset, AbortRestore, IInv, TypeOK, server
<1>2. ManuscriptShown'
  BY DEF PressReset, AbortRestore, IInv, ManuscriptShown, ShownIsStored
<1> QED BY <1>1, <1>2, ManuscriptFrame DEF PressReset, server

LEMMA EnterPageIInv == IInv /\ EnterPage => IInv'
<1> SUFFICES ASSUME IInv, EnterPage PROVE IInv'
  OBVIOUS
<1>1. /\ restore' \in Restore \cup {None}
      /\ restore' # None => restore'.version = stored
  BY DEF EnterPage, Restoring, Restore, IInv, TypeOK
<1>2. TypeOK'
  BY <1>1 DEF EnterPage, IInv, TypeOK, server
<1>3. ManuscriptShown'
  BY <1>1 DEF EnterPage, IInv, ManuscriptShown, ShownIsStored
<1> QED BY <1>2, <1>3, ManuscriptFrame DEF EnterPage, server

-----------------------------------------------------------------------------
(* The start operation, in the browser *)

LEMMA OperationFrame ==
  ASSUME IInv, TypeOK', UNCHANGED <<runs, manuscripts, confirms, stored, open, man, restore, overtaken>>,
         AsAsked', PageKnows', Waits'
  PROVE  IInv'
<1>1. RunsHaveManuscripts' /\ ManuscriptShown'
  BY DEF IInv, RunsHaveManuscripts, Live, ManuscriptShown, ShownIsStored
<1> QED BY <1>1 DEF IInv

(* Between pressing start and sending, only where start() is and the        *)
(* outcome change.                                                          *)
LEMMA CheckingFrame ==
  ASSUME IInv, TypeOK',
         UNCHANGED <<runs, posts, asks>>, home.at # "posting", home'.at # "posting",
         home'.snapshot = home.snapshot, home'.sends = home.sends,
         home'.canRetry <=> home.canRetry, home'.last = home.last, home'.fate = home.fate
  PROVE  /\ AsAsked' /\ Waits'
         /\ home'.canRetry <=> (home'.fate = "unknown")
         /\ home'.canRetry => home'.snapshot = home'.last /\ home'.snapshot # 0
  BY DEF IInv, AsAsked, Waits, PageKnows

LEMMA PressStartIInv == IInv /\ PressStart => IInv'
<1> SUFFICES ASSUME IInv, PressStart PROVE IInv'
  OBVIOUS
<1>1. home \in Home /\ man \in Versions /\ man # None
  BY NoneAssumption DEF PressStart, StartEnabled, IInv, TypeOK
<1>2. Sending \in Outcome /\ Sending.kind = "sending"
  BY DEF Sending, Outcome
<1>3. /\ home' \in Home /\ home'.at = "checking" /\ home'.version = man
      /\ home'.before = home.outcome /\ home'.outcome = Sending
      /\ home'.snapshot = home.snapshot /\ home'.sends = home.sends
      /\ home'.canRetry = home.canRetry /\ home'.last = home.last /\ home'.fate = home.fate
  BY <1>1, <1>2 DEF PressStart, Home
<1>4. /\ home.at = "rest" /\ home.outcome.kind # "sending" /\ strays' = {}
      /\ UNCHANGED <<server, posts, confirms, stored, open, man, restore, asks, overtaken, spent>>
  BY DEF PressStart, StartEnabled
<1>5. TypeOK'
  BY <1>3, <1>4 DEF IInv, TypeOK, server
<1>6. AsAsked' /\ Waits' /\ PageKnows'
  <2>1. home.outcome \in Outcome /\ Reaches(home.outcome)
    BY <1>1 DEF IInv, PageKnows, Home
  <2>2. /\ AsAsked' /\ Waits'
        /\ home'.canRetry <=> (home'.fate = "unknown")
        /\ home'.canRetry => home'.snapshot = home'.last /\ home'.snapshot # 0
    BY <1>3, <1>4, <1>5, CheckingFrame DEF server
  <2> QED BY <1>1, <1>2, <1>3, <1>4, <2>1, <2>2 DEF PageKnows, Reaches, server
<1> QED BY <1>4, <1>5, <1>6, OperationFrame DEF server

LEMMA StopBeforeSendingIInv == IInv /\ StopBeforeSending => IInv'
<1> SUFFICES ASSUME IInv, StopBeforeSending PROVE IInv'
  OBVIOUS
<1>1. home \in Home /\ home.at = "checking"
  BY DEF StopBeforeSending, IInv, TypeOK
<1>2. Failed \in Outcome /\ Failed.kind = "failed"
  BY DEF Failed, Outcome
<1>3. /\ home' \in Home /\ home'.at = "rest" /\ home'.outcome = Failed
      /\ home'.snapshot = home.snapshot /\ home'.sends = home.sends
      /\ home'.canRetry = home.canRetry /\ home'.last = home.last /\ home'.fate = home.fate
  BY <1>1, <1>2 DEF StopBeforeSending, StoppedStart, Home
<1>4. UNCHANGED <<server, posts, confirms, stored, open, man, restore, strays, asks, overtaken, spent>>
  BY DEF StopBeforeSending
<1>5. TypeOK'
  BY <1>3, <1>4 DEF IInv, TypeOK, server
<1>6. /\ AsAsked' /\ Waits'
      /\ home'.canRetry <=> (home'.fate = "unknown")
      /\ home'.canRetry => home'.snapshot = home'.last /\ home'.snapshot # 0
  BY <1>1, <1>3, <1>4, <1>5, CheckingFrame DEF server
<1>7. PageKnows'
  BY <1>2, <1>3, <1>6 DEF PageKnows, Reaches
<1> QED BY <1>4, <1>5, <1>6, <1>7, OperationFrame DEF server

LEMMA CheckSupersededIInv == IInv /\ CheckSuperseded => IInv'
<1> SUFFICES ASSUME IInv, CheckSuperseded PROVE IInv'
  OBVIOUS
<1>1. /\ home \in Home /\ home.at = "checking"
      /\ home.before.kind # "sending" /\ Reaches(home.before)
  BY DEF CheckSuperseded, IInv, TypeOK, PageKnows
<1>2. /\ home' \in Home /\ home'.at = "rest" /\ home'.outcome = home.before
      /\ home'.snapshot = home.snapshot /\ home'.sends = home.sends
      /\ home'.canRetry = home.canRetry /\ home'.last = home.last /\ home'.fate = home.fate
  BY <1>1 DEF CheckSuperseded, Home
<1>3. UNCHANGED <<server, posts, confirms, stored, open, man, restore, strays, asks, overtaken, spent>>
  BY DEF CheckSuperseded
<1>4. TypeOK'
  BY <1>2, <1>3 DEF IInv, TypeOK, server
<1>5. /\ AsAsked' /\ Waits'
      /\ home'.canRetry <=> (home'.fate = "unknown")
      /\ home'.canRetry => home'.snapshot = home'.last /\ home'.snapshot # 0
  BY <1>1, <1>2, <1>3, <1>4, CheckingFrame DEF server
<1>6. PageKnows'
  BY <1>1, <1>2, <1>3, <1>5 DEF PageKnows, Reaches, server
<1> QED BY <1>3, <1>4, <1>5, <1>6, OperationFrame DEF server

LEMMA SendStartIInv == IInv /\ SendStart => IInv'
<1> SUFFICES ASSUME IInv, SendStart PROVE IInv'
  OBVIOUS
<1> DEFINE op == Len(asks) + 1
           post == Request(op, home.version, TRUE)
<1>1. /\ home \in Home /\ home.version \in Versions /\ home.at = "checking"
      /\ asks \in Seq(Versions) /\ Len(asks) < MaxStarts
  BY DEF SendStart, IInv, TypeOK, PageKnows, Home
<1>2. /\ asks' \in Seq(Versions) /\ Len(asks') <= MaxStarts
      /\ op \in 1 .. MaxStarts /\ op \in 0 .. MaxStarts /\ op # 0 /\ op \in DOMAIN asks' /\ asks'[op] = home.version
      /\ \A i \in DOMAIN asks : i \in DOMAIN asks' /\ asks'[i] = asks[i]
  BY <1>1, AppendAsk DEF SendStart
<1>3. /\ post \in Post /\ post.op = op /\ post.version = home.version
      /\ post.mine /\ post.reply = "none"
  BY <1>1, <1>2, RequestLemma
<1>4. /\ posts' = posts \cup {post}
      /\ UNCHANGED <<server, confirms, stored, open, man, restore, strays, overtaken, spent>>
      /\ home' = [home EXCEPT !.at = "posting", !.outcome = Sending,
                     !.snapshot = op, !.sends = home.version,
                     !.last = op, !.fate = "waiting"]
  BY DEF SendStart
<1> HIDE DEF op, post
<1>5. Sending \in Outcome /\ Sending.kind = "sending"
  BY DEF Sending, Outcome
<1>6. /\ home' \in Home /\ home'.at = "posting" /\ home'.outcome = Sending
      /\ home'.snapshot = op /\ home'.sends = home.version /\ home'.last = op
  BY <1>1, <1>2, <1>4, <1>5 DEF Home
<1>7. TypeOK'
  BY <1>2, <1>3, <1>4, <1>6 DEF IInv, TypeOK, server
<1>8. AsAsked'
  BY <1>2, <1>3, <1>4, <1>6 DEF IInv, AsAsked, server
<1>9. PageKnows'
  BY <1>2, <1>5, <1>6 DEF PageKnows, Reaches
<1>10. Waits'
  <2>1. \A p \in posts : ~p.mine
    BY <1>1 DEF IInv, Waits
  <2> QED BY <1>3, <1>4, <1>6, <2>1 DEF IInv, Waits, server
<1> QED BY <1>4, <1>7, <1>8, <1>9, <1>10, OperationFrame DEF server

LEMMA PressRetryIInv == IInv /\ PressRetry => IInv'
<1> SUFFICES ASSUME IInv, PressRetry PROVE IInv'
  OBVIOUS
<1> DEFINE post == Resent(home)
<1>1. /\ home \in Home /\ home.at = "rest" /\ home.canRetry
      /\ home.snapshot = home.last /\ home.snapshot # 0
      /\ home.snapshot \in DOMAIN asks /\ home.sends = asks[home.snapshot]
      /\ home.snapshot \in 1 .. MaxStarts /\ home.sends \in Versions
  BY ElementOfSeq, BoundsAssumption DEF PressRetry, IInv, TypeOK, PageKnows, AsAsked, Home
<1>2. /\ post \in Post /\ post.op = home.snapshot /\ post.version = home.sends
      /\ post.mine /\ post.reply = "none"
  BY <1>1, RequestLemma DEF Resent
<1>3. /\ posts' = posts \cup {post}
      /\ home' = [home EXCEPT !.at = "posting", !.outcome = Sending, !.fate = "waiting"]
      /\ UNCHANGED <<server, confirms, stored, open, man, restore, strays, asks, overtaken, spent>>
  BY DEF PressRetry
<1> HIDE DEF post
<1>4. Sending \in Outcome /\ Sending.kind = "sending"
  BY DEF Sending, Outcome
<1>5. /\ home' \in Home /\ home'.at = "posting" /\ home'.outcome = Sending
      /\ home'.snapshot = home.snapshot /\ home'.sends = home.sends /\ home'.last = home.last
  BY <1>1, <1>3, <1>4 DEF Home
<1>6. TypeOK'
  BY <1>2, <1>3, <1>5 DEF IInv, TypeOK, server
<1>7. AsAsked'
  BY <1>1, <1>2, <1>3, <1>5 DEF IInv, AsAsked, server
<1>8. PageKnows'
  BY <1>1, <1>4, <1>5 DEF PageKnows, Reaches
<1>9. Waits'
  <2>1. \A p \in posts : ~p.mine
    BY <1>1 DEF IInv, Waits
  <2> QED BY <1>1, <1>2, <1>3, <1>5, <2>1 DEF IInv, Waits, server
<1> QED BY <1>3, <1>6, <1>7, <1>8, <1>9, OperationFrame DEF server

(* How send() ends *)
LEMMA EndLemma ==
  ASSUME home \in Home, NEW o \in Outcome
  PROVE  /\ LET h == Settled(home, o) IN
              /\ h \in Home /\ h.at = "rest" /\ h.outcome = o /\ h.snapshot = 0
              /\ ~h.canRetry /\ h.fate = "settled" /\ h.last = home.last
         /\ LET h == Unknown(home) IN
              /\ h \in Home /\ h.at = "rest" /\ h.outcome = Failed
              /\ h.snapshot = home.snapshot /\ h.sends = home.sends
              /\ h.canRetry /\ h.fate = "unknown" /\ h.last = home.last
<1>1. Failed \in Outcome
  BY DEF Failed, Outcome
<1>2. 0 \in 0 .. MaxStarts
  BY BoundsAssumption
<1> QED BY <1>1, <1>2 DEF Settled, Unknown, Home

LEMMA StartAnsweredIInv == IInv /\ StartAnswered => IInv'
<1> SUFFICES ASSUME IInv, StartAnswered PROVE IInv'
  OBVIOUS
<1>1. PICK p \in posts :
        /\ p.mine /\ p.reply # "none"
        /\ posts' = posts \ {p}
        /\ home' = CASE p.reply = "run" -> Settled(home, [kind |-> "started", run |-> p.run])
                     [] p.reply = "refused" -> Settled(home, Failed)
                     [] p.reply = "error" -> Unknown(home)
        /\ UNCHANGED <<server, confirms, stored, open, man, restore, strays, asks, overtaken, spent>>
  BY DEF StartAnswered
<1>2. /\ p \in Post /\ home \in Home /\ home.at = "posting" /\ p.op = home.last
      /\ home.snapshot = home.last /\ home.snapshot # 0
      /\ \A q \in posts' : ~q.mine
      /\ p.reply = "run" => p.run \in DOMAIN runs /\ runs[p.run].op = home.last
  BY <1>1 DEF IInv, TypeOK, PageKnows, Waits
<1> DEFINE started == [kind |-> "started", run |-> p.run]
<1>3. /\ started \in Outcome /\ Failed \in Outcome
      /\ started.kind = "started" /\ started.run = p.run /\ Failed.kind = "failed"
  BY <1>2 DEF Failed, Outcome, Post
<1> HIDE DEF started
<1>4. /\ home' \in Home /\ home'.at = "rest" /\ home'.last = home.last
      /\ \/ /\ home'.snapshot = 0 /\ ~home'.canRetry /\ home'.fate = "settled"
            /\ home'.outcome # Failed => home'.outcome = started /\ p.reply = "run"
         \/ /\ home'.snapshot = home.snapshot /\ home'.sends = home.sends
            /\ home'.canRetry /\ home'.fate = "unknown" /\ home'.outcome = Failed
  <2>1. CASE p.reply = "run"
    <3>1. home' = Settled(home, started)
      BY <1>1, <2>1 DEF started
    <3> QED BY <1>2, <1>3, <2>1, <3>1, EndLemma
  <2>2. CASE p.reply = "refused"
    <3>1. home' = Settled(home, Failed)
      BY <1>1, <2>2
    <3> QED BY <1>2, <1>3, <3>1, EndLemma
  <2>3. CASE p.reply = "error"
    <3>1. home' = Unknown(home)
      BY <1>1, <2>3
    <3> QED BY <1>2, <1>3, <3>1, EndLemma
  <2> QED BY <1>1, <1>2, <2>1, <2>2, <2>3 DEF Post
<1>5. TypeOK'
  BY <1>1, <1>4 DEF IInv, TypeOK, server
<1>6. AsAsked'
  BY <1>1, <1>4 DEF IInv, AsAsked, server
<1>7. PageKnows'
  <2>1. home'.outcome.kind # "sending"
    BY <1>3, <1>4
  <2>2. home'.outcome.kind = "started" =>
          home'.outcome.run \in DOMAIN runs' /\ runs'[home'.outcome.run].op = home'.last
    <3>1. runs' = runs
      BY <1>1 DEF server
    <3> QED BY <1>2, <1>3, <1>4, <3>1
  <2> QED BY <1>2, <1>4, <2>1, <2>2 DEF PageKnows, Reaches
<1>8. Waits'
  BY <1>1, <1>2 DEF IInv, Waits, server
<1> QED BY <1>1, <1>5, <1>6, <1>7, <1>8, OperationFrame DEF server

LEMMA LoseAnswerIInv == IInv /\ LoseAnswer => IInv'
<1> SUFFICES ASSUME IInv, LoseAnswer PROVE IInv'
  OBVIOUS
<1>1. PICK p \in posts :
        /\ p.mine /\ Fault
        /\ posts' = (posts \ {p}) \cup Detached({p})
        /\ home' = Unknown(home)
        /\ UNCHANGED <<server, confirms, stored, open, man, restore, strays, asks, overtaken>>
  BY DEF LoseAnswer
<1>2. /\ p \in Post /\ home \in Home
      /\ home.snapshot = home.last /\ home.snapshot # 0
      /\ \A q \in posts \ {p} : ~q.mine
  BY <1>1 DEF IInv, TypeOK, PageKnows, Waits
<1>3. \A q \in Detached({p}) : /\ q \in Post /\ ~q.mine /\ q.reply = "none"
                               /\ q.op = p.op /\ q.version = p.version
  BY <1>2, DetachedLemma
<1>4. /\ home' \in Home /\ home'.at = "rest" /\ home'.outcome = Failed
      /\ home'.snapshot = home.snapshot /\ home'.sends = home.sends
      /\ home'.canRetry /\ home'.fate = "unknown" /\ home'.last = home.last
      /\ Failed.kind = "failed"
  BY <1>1, <1>2, EndLemma DEF Failed, Outcome
<1>5. TypeOK'
  BY <1>1, <1>3, <1>4, SpentLemma DEF IInv, TypeOK, server
<1>6. AsAsked'
  BY <1>1, <1>3, <1>4 DEF IInv, AsAsked, server
<1>7. PageKnows'
  BY <1>2, <1>4 DEF PageKnows, Reaches
<1>8. Waits'
  BY <1>1, <1>2, <1>3 DEF IInv, Waits, server
<1> QED BY <1>1, <1>5, <1>6, <1>7, <1>8, OperationFrame DEF server

LEMMA StrayEndsIInv == IInv /\ StrayEnds => IInv'
<1> SUFFICES ASSUME IInv, StrayEnds PROVE IInv'
  OBVIOUS
<1>1. PICK v \in strays :
        /\ strays' = strays \ {v}
        /\ \/ UNCHANGED <<posts, asks>>
           \/ /\ Len(asks) < MaxStarts
              /\ asks' = Append(asks, v)
              /\ posts' = posts \cup {Request(Len(asks) + 1, v, FALSE)}
        /\ UNCHANGED <<server, confirms, stored, open, man, restore, home, overtaken, spent>>
  BY DEF StrayEnds
<1>2. v \in Versions /\ asks \in Seq(Versions)
  BY DEF IInv, TypeOK
<1>3. CASE UNCHANGED <<posts, asks>>
  <2>1. TypeOK'
    BY <1>1, <1>3 DEF IInv, TypeOK, server
  <2>2. AsAsked' /\ PageKnows' /\ Waits'
    BY <1>1, <1>3 DEF IInv, AsAsked, PageKnows, Waits, Reaches, server
  <2> QED BY <1>1, <2>1, <2>2, OperationFrame DEF server
<1>4. CASE ~UNCHANGED <<posts, asks>>
  <2> DEFINE op == Len(asks) + 1
             post == Request(op, v, FALSE)
  <2>1. /\ Len(asks) < MaxStarts /\ asks' = Append(asks, v) /\ posts' = posts \cup {post}
    BY <1>1, <1>4
  <2>2. /\ asks' \in Seq(Versions) /\ Len(asks') <= MaxStarts
        /\ op \in 1 .. MaxStarts /\ op \in DOMAIN asks' /\ asks'[op] = v
        /\ \A i \in DOMAIN asks : i \in DOMAIN asks' /\ asks'[i] = asks[i]
    BY <1>2, <2>1, AppendAsk
  <2>3. /\ post \in Post /\ post.op = op /\ post.version = v
        /\ ~post.mine /\ post.reply = "none"
    BY <1>2, <2>2, RequestLemma
  <2> HIDE DEF op, post
  <2>4. TypeOK'
    BY <1>1, <2>1, <2>2, <2>3 DEF IInv, TypeOK, server
  <2>5. AsAsked'
    BY <1>1, <2>1, <2>2, <2>3 DEF IInv, AsAsked, server
  <2>6. PageKnows' /\ Waits'
    BY <1>1, <2>1, <2>3 DEF IInv, PageKnows, Waits, Reaches, server
  <2> QED BY <1>1, <2>4, <2>5, <2>6, OperationFrame DEF server
<1> QED BY <1>3, <1>4

-----------------------------------------------------------------------------
(* The server *)

(* An answer to one post changes no other and starts nothing. *)
LEMMA AnswerFrame ==
  ASSUME IInv, NEW p \in posts, NEW reply \in {"run", "refused", "error"}, NEW run \in Nat,
         p.reply = "none", posts' = Answered(p, reply, run),
         runs' \in Seq(Run), \A i \in DOMAIN runs : i \in DOMAIN runs' /\ runs'[i] = runs[i],
         reply = "run" => run \in DOMAIN runs' /\ runs'[run].op = p.op,
         \A i, j \in DOMAIN runs' : i < j /\ runs'[i].op = runs'[j].op => ~runs'[i].live,
         \A i \in DOMAIN runs' : runs'[i].op \in DOMAIN asks /\ runs'[i].version = asks[runs'[i].op],
         RunsHaveManuscripts',
         spent' \in [faults : 0 .. MaxFaults, leaves : 0 .. MaxLeaves],
         UNCHANGED <<manuscripts, given, confirms, browser, asks, overtaken>>
  PROVE  IInv'
<1>1. \A q \in posts' :
        /\ q \in Post
        /\ \/ q \in posts /\ q # p
           \/ /\ p.mine /\ q.mine /\ q.reply = reply /\ q.run = run
              /\ q.op = p.op /\ q.version = p.version
  BY AnsweredLemma DEF IInv, TypeOK
<1>2. posts' \subseteq Post
  BY <1>1
<1>3. TypeOK'
  BY <1>2 DEF IInv, TypeOK, browser
<1>4. ManuscriptShown'
  BY DEF IInv, ManuscriptShown, ShownIsStored, browser
<1>5. AsAsked'
  BY <1>1 DEF IInv, AsAsked, browser
<1>6. PageKnows'
  BY DEF IInv, PageKnows, Reaches, browser
<1>7. Waits'
  <2>1. \A q \in posts' : q.mine => home'.at = "posting" /\ q.op = home'.last
    BY <1>1 DEF IInv, Waits, browser
  <2>2. \A q, r \in posts' : q.mine /\ r.mine => q = r
    <3>1. p.mine => \A q \in posts \ {p} : ~q.mine
      BY DEF IInv, Waits
    <3>2. \A q, r \in posts : q.mine /\ r.mine => q = r
      BY DEF IInv, Waits
    <3> QED BY <3>1, <3>2 DEF Answered
  <2>3. \A q \in posts' : q.reply = "run" => q.run \in DOMAIN runs' /\ runs'[q.run].op = q.op
    BY <1>1 DEF IInv, Waits
  <2> QED BY <2>1, <2>2, <2>3 DEF Waits
<1> QED BY <1>3, <1>4, <1>5, <1>6, <1>7 DEF IInv

LEMMA HandleStartIInv == IInv /\ HandleStart => IInv'
<1> SUFFICES ASSUME IInv, HandleStart PROVE IInv'
  OBVIOUS
<1>1. PICK p \in posts :
        /\ p.reply = "none"
        /\ \/ FindsRun(p) /\ UNCHANGED <<runs, spent>>
           \/ Refuses(p) /\ UNCHANGED <<runs, spent>>
           \/ StartRun(p) /\ UNCHANGED spent
           \/ posts' = Answered(p, "error", 0) /\ Fault /\ UNCHANGED runs
        /\ UNCHANGED <<manuscripts, given, confirms, browser, asks, overtaken>>
  BY DEF HandleStart
<1>2. /\ p \in Post /\ runs \in Seq(Run)
      /\ spent \in [faults : 0 .. MaxFaults, leaves : 0 .. MaxLeaves]
      /\ Fault => spent' \in [faults : 0 .. MaxFaults, leaves : 0 .. MaxLeaves]
  BY SpentLemma DEF IInv, TypeOK
<1>3. /\ \A i, j \in DOMAIN runs : i < j /\ runs[i].op = runs[j].op => ~runs[i].live
      /\ \A i \in DOMAIN runs : runs[i].op \in DOMAIN asks /\ runs[i].version = asks[runs[i].op]
      /\ p.op \in DOMAIN asks /\ p.version = asks[p.op]
  BY DEF IInv, AsAsked
<1>4. UNCHANGED runs => RunsHaveManuscripts'
  BY <1>1 DEF IInv, RunsHaveManuscripts, Live
<1>5. CASE FindsRun(p) /\ UNCHANGED <<runs, spent>>
  <2>1. PICK i \in DOMAIN runs : runs[i].op = p.op /\ posts' = Answered(p, "run", i)
    BY <1>5 DEF FindsRun, StartedBy, Live
  <2>2. i \in Nat
    BY <1>2
  <2> QED BY <1>1, <1>2, <1>3, <1>4, <1>5, <2>1, <2>2, AnswerFrame
<1>6. CASE Refuses(p) /\ UNCHANGED <<runs, spent>>
  BY <1>1, <1>2, <1>3, <1>4, <1>6, AnswerFrame DEF Refuses
<1>7. CASE posts' = Answered(p, "error", 0) /\ Fault /\ UNCHANGED runs
  BY <1>1, <1>2, <1>3, <1>4, <1>7, AnswerFrame
<1>8. CASE StartRun(p) /\ UNCHANGED spent
  <2> DEFINE new == [op |-> p.op, version |-> p.version, live |-> TRUE]
             n == Len(runs) + 1
  <2>1. /\ new \in Run /\ new.op = p.op /\ new.version = p.version /\ new.live
    BY <1>2 DEF Run, Post
  <2>2. /\ runs' = Append(runs, new) /\ posts' = Answered(p, "run", n)
        /\ p.version \in manuscripts
        /\ \A i \in DOMAIN runs : runs[i].op = p.op => ~runs[i].live
    BY <1>8 DEF StartRun, StartedBy, Live
  <2> HIDE DEF new
  <2>3. /\ runs' \in Seq(Run) /\ n \in Nat /\ n \in DOMAIN runs' /\ runs'[n] = new
        /\ \A i \in DOMAIN runs : i \in DOMAIN runs' /\ runs'[i] = runs[i] /\ i < n
        /\ \A i \in DOMAIN runs' : i \in DOMAIN runs \/ i = n
    BY <1>2, <2>1, <2>2, AppendRun
  <2> HIDE DEF n
  <2>4. \A i, j \in DOMAIN runs' : i < j /\ runs'[i].op = runs'[j].op => ~runs'[i].live
    <3> TAKE i, j \in DOMAIN runs'
    <3>1. CASE i = n
      <4>1. ~(i < j)
        BY <1>2, <2>3, <3>1 DEF n
      <4> QED BY <4>1
    <3>2. CASE i # n /\ j = n
      BY <2>1, <2>2, <2>3, <3>2
    <3>3. CASE i # n /\ j # n
      BY <1>3, <2>3, <3>3
    <3> QED BY <3>1, <3>2, <3>3
  <2>5. \A i \in DOMAIN runs' : runs'[i].op \in DOMAIN asks /\ runs'[i].version = asks[runs'[i].op]
    BY <1>3, <2>1, <2>3
  <2>6. RunsHaveManuscripts'
    BY <1>1, <2>1, <2>2, <2>3 DEF IInv, RunsHaveManuscripts, Live
  <2> QED BY <1>1, <1>2, <1>8, <2>1, <2>2, <2>3, <2>4, <2>5, <2>6, AnswerFrame
<1> QED BY <1>1, <1>5, <1>6, <1>7, <1>8

LEMMA DeleteRunIInv == IInv /\ DeleteRun => IInv'
<1> SUFFICES ASSUME IInv, DeleteRun PROVE IInv'
  OBVIOUS
<1>1. PICK i \in Live :
        /\ runs' = [runs EXCEPT ![i].live = FALSE]
        /\ manuscripts' = IF StillReferenced(i) THEN manuscripts
                          ELSE manuscripts \ {runs[i].version}
        /\ UNCHANGED <<given, posts, confirms, browser, asks, overtaken, spent>>
  BY DEF DeleteRun
<1>2. /\ i \in DOMAIN runs /\ runs' \in Seq(Run) /\ DOMAIN runs' = DOMAIN runs
      /\ \A j \in DOMAIN runs : /\ runs'[j].op = runs[j].op
                                /\ runs'[j].version = runs[j].version
                                /\ runs'[j].live <=> (runs[j].live /\ j # i)
  BY <1>1, DeletedRuns DEF Live, IInv, TypeOK
<1>3. TypeOK'
  BY <1>1, <1>2 DEF IInv, TypeOK, browser
<1>4. RunsHaveManuscripts'
  BY <1>1, <1>2 DEF IInv, RunsHaveManuscripts, Live, StillReferenced
<1>5. ManuscriptShown'
  BY <1>1 DEF IInv, ManuscriptShown, ShownIsStored, browser
<1>6. AsAsked'
  BY <1>1, <1>2 DEF IInv, AsAsked, browser
<1>7. PageKnows' /\ Waits'
  BY <1>1, <1>2 DEF IInv, PageKnows, Waits, Reaches, browser
<1> QED BY <1>3, <1>4, <1>5, <1>6, <1>7 DEF IInv

-----------------------------------------------------------------------------
(* Leaving the page *)

(* Nobody waits for what is under way, and the next page knows of nothing. *)
LEMMA LeavingFrame ==
  ASSUME IInv, TypeOK', home' = FreshHome,
         posts' = {p \in posts : ~p.mine} \cup Detached(posts),
         UNCHANGED <<server, asks>>, ManuscriptShown'
  PROVE  IInv'
<1>1. \A q \in posts' :
        /\ ~q.mine
        /\ q \in posts \/ q.reply = "none"
        /\ \E p \in posts : q.op = p.op /\ q.version = p.version
  BY DetachedLemma DEF IInv, TypeOK
<1>2. RunsHaveManuscripts'
  BY DEF IInv, RunsHaveManuscripts, Live, server
<1>3. AsAsked'
  BY <1>1, FreshLemma DEF IInv, AsAsked, server
<1>4. PageKnows'
  BY FreshLemma DEF PageKnows, Reaches, Idle
<1>5. Waits'
  <2>1. \A q \in posts' : q.reply = "run" => q \in posts
    BY <1>1
  <2>2. \A q \in posts : q.reply = "run" => q.run \in DOMAIN runs' /\ runs'[q.run].op = q.op
    BY DEF IInv, Waits, server
  <2>3. \A q \in posts' : ~q.mine
    BY <1>1
  <2> QED BY <2>1, <2>2, <2>3 DEF Waits
<1> QED BY <1>2, <1>3, <1>4, <1>5 DEF IInv

LEMMA LeavePageIInv == IInv /\ LeavePage => IInv'
<1> SUFFICES ASSUME IInv, LeavePage PROVE IInv'
  OBVIOUS
<1>1. posts' \subseteq Post
  BY DetachedLemma DEF LeavePage, IInv, TypeOK
<1>2. confirms' \subseteq Confirm /\ \A c \in confirms' : ~c.mine
  BY DEF LeavePage, IInv, TypeOK, Confirm
<1>3. strays' \subseteq Versions
  BY DEF LeavePage, IInv, TypeOK, PageKnows, Home
<1>4. spent' \in [faults : 0 .. MaxFaults, leaves : 0 .. MaxLeaves]
  BY SpentLemma DEF LeavePage, IInv
<1>5. TypeOK'
  BY <1>1, <1>2, <1>3, <1>4, FreshLemma DEF LeavePage, IInv, TypeOK, server
<1>6. ManuscriptShown'
  BY <1>2 DEF LeavePage, ManuscriptShown, ShownIsStored
<1> QED BY <1>5, <1>6, LeavingFrame DEF LeavePage

LEMMA ReloadPageIInv == IInv /\ ReloadPage => IInv'
<1> SUFFICES ASSUME IInv, ReloadPage PROVE IInv'
  OBVIOUS
<1>1. posts' \subseteq Post
  BY DetachedLemma DEF ReloadPage, IInv, TypeOK
<1>2. /\ restore' \in Restore \cup {None}
      /\ restore' # None => restore'.version = stored
  BY DEF ReloadPage, Restoring, Restore, IInv, TypeOK
<1>3. spent' \in [faults : 0 .. MaxFaults, leaves : 0 .. MaxLeaves]
  BY SpentLemma DEF ReloadPage, IInv
<1>4. TypeOK'
  BY <1>1, <1>2, <1>3, FreshLemma DEF ReloadPage, IInv, TypeOK, server
<1>5. ManuscriptShown'
  BY <1>2 DEF ReloadPage, ManuscriptShown, ShownIsStored
<1> QED BY <1>4, <1>5, LeavingFrame DEF ReloadPage

-----------------------------------------------------------------------------
LEMMA StutterIInv == IInv /\ UNCHANGED vars => IInv'
<1> SUFFICES ASSUME IInv, UNCHANGED vars PROVE IInv'
  OBVIOUS
<1>1. TypeOK'
  BY DEF vars, server, browser, IInv, TypeOK
<1>2. ManuscriptShown'
  BY DEF vars, server, browser, IInv, ManuscriptShown, ShownIsStored
<1> QED BY <1>1, <1>2, ManuscriptFrame DEF vars, server, browser

LEMMA NextIInv == IInv /\ [Next]_vars => IInv'
  BY StutterIInv, ServeRestoreIInv, RestoreAnsweredIInv, PressConfirmIInv, ServeConfirmIInv,
     ConfirmAnsweredIInv, LoseConfirmIInv, PressResetIInv, EnterPageIInv, PressStartIInv,
     StopBeforeSendingIInv, CheckSupersededIInv, SendStartIInv, PressRetryIInv,
     StartAnsweredIInv, LoseAnswerIInv, StrayEndsIInv, HandleStartIInv, DeleteRunIInv,
     LeavePageIInv, ReloadPageIInv
     DEF Next, User, CheckEnds, Network

(* The invariant of the start page and the rows it writes. *)
THEOREM Invariance == Spec => []IInv
  BY InitIInv, NextIInv, PTL DEF Spec

(* Every variable keeps its type, for any ids and any bounds. *)
THEOREM TypeCorrect == Spec => []TypeOK
<1>1. IInv => TypeOK
  BY DEF IInv
<1> QED BY <1>1, Invariance, PTL

(* However often a start is resent, lost or delayed, its operation has at   *)
(* most one run at a time, for the manuscript it was pressed for, and the   *)
(* page goes to that run (use-start-run.ts, POST /runs).                    *)
THEOREM RunsAsAsked == Spec => []RunsAreAsAsked
<1>1. IInv => RunsAreAsAsked
  BY DEF IInv, AsAsked, PageKnows, Reaches, RunsAreAsAsked
<1> QED BY <1>1, Invariance, PTL

(* An operation whose outcome is unknown can be resent, and nothing else    *)
(* can (use-start-run.ts, the snapshot and canRetry).                       *)
THEOREM RetryOffered == Spec => []UnknownCanBeRetried
<1>1. IInv => UnknownCanBeRetried
  BY DEF IInv, PageKnows, UnknownCanBeRetried
<1> QED BY <1>1, Invariance, PTL

(* Deleting runs leaves every other run its manuscript (delete-run.ts).     *)
THEOREM ManuscriptsKept == Spec => []RunsHaveManuscripts
<1>1. IInv => RunsHaveManuscripts
  BY DEF IInv
<1> QED BY <1>1, Invariance, PTL

(* What is shown as confirmed is what a reload restores (use-manuscript.ts). *)
THEOREM ShownStored == Spec => []ShownIsStored
<1>1. IInv => ShownIsStored
  BY DEF IInv, ManuscriptShown
<1> QED BY <1>1, Invariance, PTL
=============================================================================
