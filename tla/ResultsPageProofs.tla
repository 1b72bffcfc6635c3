-------------------------- MODULE ResultsPageProofs --------------------------
(* Theorems about ResultsPage, for any runs, findings, filters and budgets. *)
EXTENDS ResultsPage, WellFoundedInduction, TLAPS

-----------------------------------------------------------------------------
(* What is selected is a finding, if anything: a group has a first one.     *)

Lower == {p \in Nat \X Nat : p[1] < p[2]}

LEMMA LowerWellFounded == IsWellFoundedOn(Lower, Nat)
<1>1. IsWellFoundedOn(OpToRel(<, Nat), Nat)
  BY NatLessThanWellFounded
<1>2. OpToRel(<, Nat) = Lower
  BY DEF OpToRel, Lower
<1> QED
  BY <1>1, <1>2, Zenon

LEMMA LeastNumber ==
  ASSUME NEW T, T \subseteq Nat, T # {}
  PROVE  \E m \in T : \A n \in T : m <= n
<1>1. PICK m \in T : \A n \in T : <<n, m>> \notin Lower
  BY LowerWellFounded, WFMin, Zenon
<1>2. ASSUME NEW n \in T
      PROVE  m <= n
  <2>1. <<n, m>> \notin Lower
    BY <1>1
  <2>2. n \in Nat /\ m \in Nat
    OBVIOUS
  <2>3. n < m => <<n, m>> \in Lower
    BY <2>2 DEF Lower
  <2> QED
    BY <2>1, <2>2, <2>3
<1> QED
  BY <1>2

LEMMA FindingFields ==
  ASSUME NEW f \in Findings
  PROVE  f.run \in Runs /\ f.n \in Nat
  BY FindingsAssumption

LEMMA FirstOfGroup ==
  ASSUME NEW group \in SUBSET Findings
  PROVE  First(group) \in Findings \cup {None}
<1>1. CASE group = {}
  BY <1>1 DEF First
<1>2. CASE group # {}
  <2> DEFINE T == {f.n : f \in group}
  <2>1. T \subseteq Nat /\ T # {}
    BY <1>2, FindingFields
  <2>2. PICK m \in T : \A n \in T : m <= n
    <3> HIDE DEF T
    <3> QED
      BY <2>1, LeastNumber
  <2>3. PICK f \in group : f.n = m
    OBVIOUS
  <2>4. \A g \in group : f.n <= g.n
    BY <2>2, <2>3
  <2> QED
    BY <1>2, <2>3, <2>4 DEF First
<1> QED
  BY <1>1, <1>2

LEMMA NoneIsNoSnapshot == None \notin Snapshot
  BY DEF None, Snapshot

-----------------------------------------------------------------------------
(* The hook of details                                                      *)

(* It holds something only of the findings it follows, has asked for each   *)
(* of them, and drops what it gets of any other.                            *)
HookGood(hook) ==
  /\ hook \in Hook
  /\ hook.asked = hook.ids
  /\ \A c \in hook.calls : c.live => c.finding \in hook.ids
  /\ \A f \in Findings : f \notin hook.ids => hook.entries[f] = PendingDetail

(* What it has, or will be given, is of the run of the list and no older    *)
(* than the list; to be called new on condition that the list is shown.     *)
Reads(hook, shown, list, r) ==
  shown => /\ \A f \in hook.ids : f.run = r
           /\ \A c \in hook.calls : c.live /\ c.read => c.ver >= list.found

Tells(hook, shown, list) ==
  \A f \in hook.ids :
    ~Awaited(hook, f) =>
      LET entry == hook.entries[f] IN
      entry.error \/ (entry.has /\ (shown => entry.ver >= list.found))

NewCalls(fs) == {[finding |-> f, live |-> TRUE, read |-> FALSE, ver |-> 0] : f \in fs}

LEMMA HookFields ==
  ASSUME NEW hook \in Hook
  PROVE  /\ hook.ids \in SUBSET Findings
         /\ hook.asked \in SUBSET Findings
         /\ hook.entries \in [Findings -> Entry]
         /\ hook.calls \in SUBSET Call
         /\ DOMAIN hook = {"ids", "asked", "entries", "calls"}
  BY DEF Hook

LEMMA NewCallsTyped ==
  ASSUME NEW fs \in SUBSET Findings
  PROVE  /\ NewCalls(fs) \in SUBSET Call
         /\ \A c \in NewCalls(fs) : c.live /\ ~c.read /\ c.finding \in fs
         /\ \A f \in fs : \E c \in NewCalls(fs) : c.live /\ c.finding = f
<1> DEFINE New(f) == [finding |-> f, live |-> TRUE, read |-> FALSE, ver |-> 0]
<1>1. ASSUME NEW f \in fs
      PROVE  New(f) \in Call /\ New(f).live /\ ~New(f).read /\ New(f).finding = f
  BY DEF Call
<1>2. NewCalls(fs) = {New(f) : f \in fs}
  BY DEF NewCalls
<1> HIDE DEF New
<1> QED
  BY <1>1, <1>2

LEMMA ForgottenTyped ==
  ASSUME NEW calls \in SUBSET Call, NEW fs
  PROVE  /\ Forgotten(calls, fs) \in SUBSET Call
         /\ \A c \in Forgotten(calls, fs) :
              c.live => c \in calls /\ c.finding \notin fs
         /\ \A c \in calls : c.live /\ c.finding \notin fs => c \in Forgotten(calls, fs)
<1>1. ASSUME NEW c \in calls
      PROVE  LET d == [c EXCEPT !.live = c.live /\ c.finding \notin fs] IN
             /\ d \in Call
             /\ d.live => d = c /\ d.finding \notin fs
             /\ c.live /\ c.finding \notin fs => d = c
  BY <1>1 DEF Call
<1> QED
  BY <1>1 DEF Forgotten

LEMMA PendingTyped == PendingDetail \in Entry
  BY DEF PendingDetail, Entry

LEMMA FetchFields ==
  ASSUME NEW hook \in Hook, NEW fs \in SUBSET Findings
  PROVE  /\ Fetch(hook, fs) \in Hook
         /\ Fetch(hook, fs).ids = hook.ids
         /\ Fetch(hook, fs).asked = hook.asked \cup fs
         /\ Fetch(hook, fs).entries = hook.entries
         /\ Fetch(hook, fs).calls = Forgotten(hook.calls, fs) \cup NewCalls(fs)
<1>1. Forgotten(hook.calls, fs) \cup NewCalls(fs) \in SUBSET Call
  BY HookFields, NewCallsTyped, ForgottenTyped
<1>2. Fetch(hook, fs) = [hook EXCEPT !.asked = hook.asked \cup fs,
                                     !.calls = Forgotten(hook.calls, fs) \cup NewCalls(fs)]
  BY DEF Fetch, NewCalls
<1> HIDE DEF Fetch
<1> QED
  BY <1>1, <1>2 DEF Hook

Followed(new, hook, ids, fs) ==
  LET kept == ids \cap hook.ids IN
  /\ new \in Hook
  /\ new.ids = ids
  /\ new.asked = (hook.asked \cap kept) \cup fs
  /\ new.entries = [f \in Findings |-> IF f \in kept THEN hook.entries[f] ELSE PendingDetail]
  /\ new.calls = Forgotten(Forgotten(hook.calls, Findings \ kept), fs) \cup NewCalls(fs)

LEMMA FollowFields ==
  ASSUME NEW hook \in Hook, NEW ids \in SUBSET Findings, ids # hook.ids,
         NEW fs, fs = ids \ (hook.asked \cap (ids \cap hook.ids))
  PROVE  Followed(Follow(hook, ids), hook, ids, fs)
<1> DEFINE kept == ids \cap hook.ids
           entries == [f \in Findings |-> IF f \in kept THEN hook.entries[f] ELSE PendingDetail]
           calls == Forgotten(hook.calls, Findings \ kept)
           base == [ids |-> ids, asked |-> hook.asked \cap kept, entries |-> entries, calls |-> calls]
<1>1. /\ entries \in [Findings -> Entry]
      /\ calls \in SUBSET Call
      /\ kept \in SUBSET Findings /\ hook.asked \cap kept \in SUBSET Findings
      /\ fs \in SUBSET Findings
  BY HookFields, PendingTyped, ForgottenTyped
<1>2. base \in Hook
  <2> HIDE DEF entries, calls, kept
  <2> QED
    BY <1>1 DEF Hook
<1>3. /\ [Kept(hook, kept) EXCEPT !.ids = ids] = base
      /\ Kept(hook, kept).asked = hook.asked \cap kept
  <2>1. Kept(hook, kept) = [hook EXCEPT !.ids = kept, !.asked = hook.asked \cap kept,
                                        !.entries = entries, !.calls = calls]
    BY DEF Kept
  <2> DEFINE mid == [ids |-> kept, asked |-> hook.asked \cap kept,
                     entries |-> entries, calls |-> calls]
  <2> HIDE DEF entries, calls, kept
  <2>2. Kept(hook, kept) = mid
    BY <2>1, HookFields DEF Hook
  <2>3. mid.asked = hook.asked \cap kept /\ [mid EXCEPT !.ids = ids] = base
    OBVIOUS
  <2> QED
    BY <2>2, <2>3
<1>4. Follow(hook, ids) = Fetch(base, fs)
  <2> HIDE DEF base, kept
  <2>1. Follow(hook, ids) =
          Fetch([Kept(hook, kept) EXCEPT !.ids = ids], ids \ Kept(hook, kept).asked)
    BY DEF Follow, kept
  <2> QED
    BY <2>1, <1>3 DEF kept
<1>5. /\ base.ids = ids /\ base.asked = hook.asked \cap kept
      /\ base.entries = entries /\ base.calls = calls
  OBVIOUS
<1> HIDE DEF base, entries, calls
<1>6. /\ Fetch(base, fs) \in Hook
      /\ Fetch(base, fs).ids = base.ids
      /\ Fetch(base, fs).asked = base.asked \cup fs
      /\ Fetch(base, fs).entries = base.entries
      /\ Fetch(base, fs).calls = Forgotten(base.calls, fs) \cup NewCalls(fs)
  BY <1>1, <1>2, FetchFields
<1> QED
  BY <1>4, <1>5, <1>6 DEF entries, calls, Followed

(* Following another group                                                  *)
LEMMA FollowKeeps ==
  ASSUME NEW hook, HookGood(hook), NEW ids \in SUBSET Findings,
         NEW shown, NEW list, NEW r,
         Reads(hook, shown, list, r), Tells(hook, shown, list),
         shown => \A f \in ids : f.run = r
  PROVE  LET new == Follow(hook, ids) IN
         /\ HookGood(new) /\ new.ids = ids
         /\ Reads(new, shown, list, r) /\ Tells(new, shown, list)
<1> DEFINE new == Follow(hook, ids)
           kept == ids \cap hook.ids
           fs == ids \ (hook.asked \cap (ids \cap hook.ids))
<1>1. CASE ids = hook.ids
  BY <1>1 DEF Follow
<1>2. CASE ids # hook.ids
  <2>1. /\ hook \in Hook /\ fs \in SUBSET Findings /\ kept \in SUBSET Findings
        /\ fs = ids \ (hook.asked \cap (ids \cap hook.ids)) /\ fs = ids \ kept
    BY DEF HookGood
  <2> HIDE DEF fs
  <2> HIDE DEF kept
  <2>2. Followed(new, hook, ids, fs)
    BY <1>2, <2>1, FollowFields, Zenon DEF new
  <2> HIDE DEF new
  <2> USE <2>2 DEF Followed, kept
  <2>3. /\ hook.calls \in SUBSET Call
        /\ Forgotten(hook.calls, Findings \ kept) \in SUBSET Call
    BY <2>1, HookFields, ForgottenTyped
  <2>4. ASSUME NEW c \in new.calls, c.live
        PROVE  \/ c \in hook.calls /\ c.finding \in kept
               \/ c.finding \in fs /\ ~c.read
    <3>1. CASE c \in NewCalls(fs)
      BY <3>1, <2>1, NewCallsTyped
    <3>2. CASE c \in Forgotten(Forgotten(hook.calls, Findings \ kept), fs)
      <4>1. c \in Forgotten(hook.calls, Findings \ kept)
        BY <2>4, <3>2, <2>3, ForgottenTyped
      <4>2. c \in hook.calls /\ c.finding \notin Findings \ kept
        BY <2>4, <4>1, <2>3, ForgottenTyped
      <4> QED
        BY <4>2, <2>3 DEF Call
    <3> QED
      BY <2>2, <2>4, <3>1, <3>2
  <2>5. ASSUME NEW c \in hook.calls, c.live, c.finding \in kept
        PROVE  c \in new.calls
    <3>1. c \in Forgotten(hook.calls, Findings \ kept)
      BY <2>3, <2>5, ForgottenTyped
    <3>2. c.finding \notin fs
      BY <2>1, <2>5
    <3>3. c \in Forgotten(Forgotten(hook.calls, Findings \ kept), fs)
      BY <2>3, <2>5, <3>1, <3>2, ForgottenTyped
    <3> QED
      BY <2>2, <3>3
  <2>6. \A f \in fs : Awaited(new, f)
    BY <2>1, <2>2, NewCallsTyped DEF Awaited
  <2>7. HookGood(new)
    <3>1. new.asked = new.ids
      BY <2>1, <2>2 DEF HookGood
    <3>2. \A c \in new.calls : c.live => c.finding \in new.ids
      BY <2>1, <2>2, <2>4
    <3>3. \A f \in Findings : f \notin new.ids => new.entries[f] = PendingDetail
      BY <2>2
    <3> QED
      BY <2>2, <3>1, <3>2, <3>3 DEF HookGood
  <2>8. Reads(new, shown, list, r)
    BY <2>2, <2>4 DEF Reads
  <2>9. Tells(new, shown, list)
    <3> SUFFICES ASSUME NEW f \in new.ids, ~Awaited(new, f)
                 PROVE  LET entry == new.entries[f] IN
                        entry.error \/ (entry.has /\ (shown => entry.ver >= list.found))
      BY DEF Tells
    <3>1. f \in kept
      BY <2>1, <2>2, <2>6
    <3>2. new.entries[f] = hook.entries[f]
      BY <2>1, <2>2, <3>1
    <3>3. ~Awaited(hook, f)
      BY <2>5, <3>1 DEF Awaited
    <3> QED
      BY <3>1, <3>2, <3>3 DEF Tells
  <2> QED
    BY <2>2, <2>7, <2>8, <2>9 DEF new
<1> QED
  BY <1>1, <1>2

(* Reading everything again, for whatever list                              *)
LEMMA RefreshKeeps ==
  ASSUME NEW hook, HookGood(hook), NEW shown, NEW list, NEW r,
         shown => \A f \in hook.ids : f.run = r
  PROVE  LET new == Refresh(hook) IN
         /\ HookGood(new) /\ new.ids = hook.ids
         /\ Reads(new, shown, list, r) /\ Tells(new, shown, list)
<1> DEFINE new == Refresh(hook)
           fs == hook.ids
<1>1. hook \in Hook /\ fs \in SUBSET Findings
  BY HookFields DEF HookGood
<1>2. /\ new \in Hook
      /\ new.ids = hook.ids
      /\ new.asked = hook.asked \cup fs
      /\ new.entries = hook.entries
      /\ new.calls = Forgotten(hook.calls, fs) \cup NewCalls(fs)
  BY <1>1, FetchFields DEF Refresh
<1> HIDE DEF new
<1>3. ASSUME NEW c \in new.calls, c.live
      PROVE  c.finding \in fs /\ ~c.read
  <2>1. c \notin Forgotten(hook.calls, fs)
    <3> SUFFICES ASSUME c \in Forgotten(hook.calls, fs)
                 PROVE  FALSE
      OBVIOUS
    <3>1. c \in hook.calls /\ c.finding \notin fs
      BY <1>1, <1>3, HookFields, ForgottenTyped
    <3> QED
      BY <1>3, <3>1 DEF HookGood
  <2> QED
    BY <1>1, <1>2, <2>1, NewCallsTyped
<1>4. \A f \in new.ids : Awaited(new, f)
  BY <1>1, <1>2, NewCallsTyped DEF Awaited
<1>5. HookGood(new)
  BY <1>2, <1>3 DEF HookGood
<1>6. Reads(new, shown, list, r)
  BY <1>2, <1>3 DEF Reads
<1>7. Tells(new, shown, list)
  BY <1>4 DEF Tells
<1> QED
  BY <1>2, <1>5, <1>6, <1>7 DEF new

(* A call handled by the server at a version                                *)
LEMMA AnsweredKeeps ==
  ASSUME NEW hook, HookGood(hook), NEW c \in hook.calls, NEW ver \in Nat,
         NEW shown, NEW list, NEW r,
         Reads(hook, shown, list, r), Tells(hook, shown, list),
         c.live /\ shown => ver >= list.found
  PROVE  LET new == Answered(hook, c, ver) IN
         /\ HookGood(new) /\ new.ids = hook.ids
         /\ Reads(new, shown, list, r) /\ Tells(new, shown, list)
<1> DEFINE new == Answered(hook, c, ver)
           d == [c EXCEPT !.read = TRUE, !.ver = ver]
<1>1. hook \in Hook /\ c \in Call /\ hook.calls \in SUBSET Call
  BY HookFields DEF HookGood
<1>2. /\ d \in Call /\ d.live = c.live /\ d.finding = c.finding /\ d.read /\ d.ver = ver
  BY <1>1 DEF Call
<1>3. /\ new \in Hook
      /\ new.ids = hook.ids
      /\ new.asked = hook.asked
      /\ new.entries = hook.entries
      /\ new.calls = (hook.calls \ {c}) \cup {d}
  <2>1. new = [hook EXCEPT !.calls = (hook.calls \ {c}) \cup {d}]
    BY DEF Answered
  <2> HIDE DEF new, d
  <2> QED
    BY <1>1, <1>2, <2>1 DEF Hook
<1> HIDE DEF new, d
<1>4. \A f : Awaited(hook, f) => Awaited(new, f)
  BY <1>2, <1>3 DEF Awaited
<1>5. HookGood(new)
  BY <1>2, <1>3 DEF HookGood
<1>6. Reads(new, shown, list, r)
  BY <1>2, <1>3 DEF Reads
<1>7. Tells(new, shown, list)
  BY <1>3, <1>4 DEF Tells
<1> QED
  BY <1>3, <1>5, <1>6, <1>7 DEF new

(* An answer, or none                                                       *)
Dropped(hook, c, entry) ==
  LET left == [hook EXCEPT !.calls = hook.calls \ {c}]
  IN IF ~c.live THEN left
     ELSE [left EXCEPT !.entries = [left.entries EXCEPT ![c.finding] = entry]]

LEMMA DroppedKeeps ==
  ASSUME NEW hook, HookGood(hook), NEW c \in hook.calls, NEW entry \in Entry,
         NEW shown, NEW list, NEW r,
         Reads(hook, shown, list, r), Tells(hook, shown, list),
         entry.error \/ (entry.has /\ (c.live /\ shown => entry.ver >= list.found))
  PROVE  LET new == Dropped(hook, c, entry) IN
         /\ HookGood(new) /\ new.ids = hook.ids
         /\ Reads(new, shown, list, r) /\ Tells(new, shown, list)
<1> DEFINE left == [hook EXCEPT !.calls = hook.calls \ {c}]
           new  == Dropped(hook, c, entry)
<1>1. /\ hook \in Hook /\ c \in Call /\ hook.calls \in SUBSET Call
      /\ hook.entries \in [Findings -> Entry] /\ hook.ids \in SUBSET Findings
  BY HookFields DEF HookGood
<1>2. c.finding \in Findings /\ c.live \in BOOLEAN
  BY <1>1 DEF Call
<1>3. /\ left \in Hook /\ left.ids = hook.ids /\ left.asked = hook.asked
      /\ left.entries = hook.entries /\ left.calls = hook.calls \ {c}
  BY <1>1 DEF Hook
<1>4. /\ new \in Hook /\ new.ids = hook.ids /\ new.asked = hook.asked
      /\ new.calls = hook.calls \ {c}
      /\ \A f \in Findings :
           new.entries[f] = IF c.live /\ f = c.finding THEN entry ELSE hook.entries[f]
  <2>0. new = IF ~c.live THEN left
              ELSE [left EXCEPT !.entries = [left.entries EXCEPT ![c.finding] = entry]]
    BY DEF Dropped
  <2> HIDE DEF left, new
  <2>1. [left.entries EXCEPT ![c.finding] = entry] \in [Findings -> Entry]
    BY <1>1, <1>3
  <2>2. CASE ~c.live
    BY <2>0, <2>2, <1>3
  <2>3. CASE c.live
    <3>1. new = [left EXCEPT !.entries = [left.entries EXCEPT ![c.finding] = entry]]
      BY <2>0, <2>3
    <3>2. /\ new \in Hook /\ new.ids = left.ids /\ new.asked = left.asked
          /\ new.calls = left.calls
          /\ new.entries = [left.entries EXCEPT ![c.finding] = entry]
      BY <3>1, <2>1, <1>3 DEF Hook
    <3> QED
      BY <3>2, <2>3, <1>1, <1>3
  <2> QED
    BY <2>2, <2>3, <1>2
<1> HIDE DEF new, left
<1>5. HookGood(new)
  BY <1>4, <1>1 DEF HookGood
<1>6. Reads(new, shown, list, r)
  BY <1>4 DEF Reads
<1>7. Tells(new, shown, list)
  <2> SUFFICES ASSUME NEW f \in new.ids, ~Awaited(new, f)
               PROVE  LET e == new.entries[f] IN
                      e.error \/ (e.has /\ (shown => e.ver >= list.found))
    BY DEF Tells
  <2>1. CASE c.live /\ f = c.finding
    BY <2>1, <1>1, <1>4
  <2>2. CASE ~(c.live /\ f = c.finding)
    <3>1. ~Awaited(hook, f)
      BY <2>2, <1>4 DEF Awaited
    <3> QED
      BY <3>1, <2>2, <1>1, <1>4 DEF Tells
  <2> QED
    BY <2>1, <2>2
<1> QED
  BY <1>4, <1>5, <1>6, <1>7 DEF new, left

LEMMA ArrivedKeeps ==
  ASSUME NEW hook, HookGood(hook), NEW c \in hook.calls, c.read,
         NEW shown, NEW list, NEW r,
         Reads(hook, shown, list, r), Tells(hook, shown, list)
  PROVE  LET new == Arrived(hook, c) IN
         /\ HookGood(new) /\ new.ids = hook.ids
         /\ Reads(new, shown, list, r) /\ Tells(new, shown, list)
<1> DEFINE entry == [has |-> TRUE, ver |-> c.ver, error |-> FALSE]
<1>1. entry \in Entry /\ entry.has /\ entry.ver = c.ver
  BY HookFields DEF HookGood, Call, Entry
<1>2. c.live /\ shown => entry.ver >= list.found
  BY <1>1 DEF Reads
<1>3. Arrived(hook, c) = Dropped(hook, c, entry)
  BY DEF Arrived, Dropped
<1> HIDE DEF entry
<1> QED
  BY <1>1, <1>2, <1>3, DroppedKeeps

LEMMA FailedKeeps ==
  ASSUME NEW hook, HookGood(hook), NEW c \in hook.calls,
         NEW shown, NEW list, NEW r,
         Reads(hook, shown, list, r), Tells(hook, shown, list)
  PROVE  LET new == Failed(hook, c) IN
         /\ HookGood(new) /\ new.ids = hook.ids
         /\ Reads(new, shown, list, r) /\ Tells(new, shown, list)
<1> DEFINE entry == [hook.entries[c.finding] EXCEPT !.error = TRUE]
<1>1. entry \in Entry /\ entry.error
  <2>1. hook.entries[c.finding] \in Entry
    BY HookFields DEF HookGood, Call
  <2> QED
    BY <2>1 DEF Entry
<1>2. Failed(hook, c) = Dropped(hook, c, entry)
  <2>1. hook \in Hook
    BY DEF HookGood
  <2>2. [hook EXCEPT !.calls = hook.calls \ {c}].entries = hook.entries
    BY <2>1 DEF Hook
  <2> QED
    BY <2>2 DEF Failed, Dropped
<1> HIDE DEF entry
<1> QED
  BY <1>1, <1>2, DroppedKeeps

-----------------------------------------------------------------------------
(* The page and its requests                                                *)

(* What a request brings is of its own run and no newer than the rows, and  *)
(* one whose generation is the latest asks for the run of the URL.          *)
Owned(p, i, d) ==
  /\ p.live => p.run = i
  /\ p.row # None => p.row.run = p.run
  /\ p.list # None => p.list.run = p.run /\ p.list.found <= d[p.run].found

(* There is one such request at most; if it is the first load, the page is  *)
(* loading, and the details of the run before are gone when it is answered. *)
FirstLoads(p, state, ids) ==
  p.live /\ p.kind = "initial" =>
    /\ state = "loading"
    /\ p.row # None \/ p.list # None => ids = {}

PassesGood(ps, state, i, d, ids) ==
  /\ ps \in SUBSET Pass
  /\ \A p \in ps : Owned(p, i, d) /\ FirstLoads(p, state, ids)
  /\ \A p, q \in ps : p.live /\ q.live => p = q

ViewGood(pg, i, d) ==
  pg.state = "loaded" =>
    /\ pg.row \in Snapshot /\ pg.row.run = i
    /\ pg.list \in Snapshot /\ pg.list.run = i /\ pg.list.found <= d[i].found

PageGood(pg, i, d, ids) ==
  /\ pg \in Page
  /\ PassesGood(pg.passes, pg.state, i, d, ids)
  /\ ViewGood(pg, i, d)

SameView(q, pg) ==
  q.state = pg.state /\ q.row = pg.row /\ q.list = pg.list

LEMMA PageFields ==
  ASSUME NEW pg \in Page
  PROVE  /\ pg.state \in {"loading", "loaded", "error"}
         /\ pg.row \in Snapshot \cup {None}
         /\ pg.list \in Snapshot \cup {None}
         /\ pg.fresh \in {"current", "pending", "failed"}
         /\ pg.ended \in BOOLEAN
         /\ pg.conn \in {"open", "reconnecting", "closed"}
         /\ pg.autoErr \in BOOLEAN
         /\ pg.manErr \in BOOLEAN
         /\ pg.dirty \in Kinds \cup {"none"}
         /\ pg.loud \in BOOLEAN
         /\ pg.pending \in BOOLEAN
         /\ pg.sel \in Findings \cup {None}
         /\ pg.hidden \in SUBSET Findings
         /\ pg.passes \in SUBSET Pass
         /\ pg.ctls \in SUBSET Control
  BY DEF Page

LEMMA ViewKept ==
  ASSUME NEW pg, NEW q \in Page, NEW i, NEW d, NEW ids,
         PageGood(pg, i, d, ids), SameView(q, pg),
         PassesGood(q.passes, pg.state, i, d, ids)
  PROVE  PageGood(q, i, d, ids)
  BY DEF PageGood, ViewGood, SameView

LEMMA NewPassTyped ==
  ASSUME NEW kind \in Kinds \cup {"initial"}, NEW r \in Runs
  PROVE  LET p == NewPass(kind, r) IN
         /\ p \in Pass
         /\ p.live /\ p.run = r /\ p.kind = kind /\ p.row = None /\ p.list = None
  BY DEF NewPass, Pass, Kinds

LEMMA SupersededTyped ==
  ASSUME NEW ps \in SUBSET Pass
  PROVE  /\ Superseded(ps) \in SUBSET Pass
         /\ \A q \in Superseded(ps) :
              /\ ~q.live
              /\ \E p \in ps : q.run = p.run /\ q.row = p.row /\ q.list = p.list
<1>1. ASSUME NEW p \in ps
      PROVE  LET q == [p EXCEPT !.live = FALSE] IN
             q \in Pass /\ ~q.live /\ q.run = p.run /\ q.row = p.row /\ q.list = p.list
  BY DEF Pass
<1> QED
  BY <1>1 DEF Superseded

(* A new request takes the place of all before it.                          *)
LEMMA NewestPass ==
  ASSUME NEW ps, NEW state, NEW other, NEW i \in Runs, NEW d, NEW ids, NEW old, NEW j,
         PassesGood(ps, other, j, d, old),
         NEW kind \in Kinds \cup {"initial"},
         kind = "initial" => state = "loading"
  PROVE  PassesGood(Superseded(ps) \cup {NewPass(kind, i)}, state, i, d, ids)
<1> DEFINE new == NewPass(kind, i)
<1>1. ps \in SUBSET Pass
  BY DEF PassesGood
<1>2. new \in Pass /\ new.live /\ new.run = i /\ new.kind = kind /\ new.row = None /\ new.list = None
  BY NewPassTyped, Zenon
<1> HIDE DEF new
<1>3. ASSUME NEW q \in Superseded(ps)
      PROVE  ~q.live /\ Owned(q, i, d)
  <2>1. /\ ~q.live
        /\ \E p \in ps : q.run = p.run /\ q.row = p.row /\ q.list = p.list
    BY <1>1, <1>3, SupersededTyped
  <2>2. PICK p \in ps : q.run = p.run /\ q.row = p.row /\ q.list = p.list
    BY <2>1
  <2> QED
    BY <2>1, <2>2 DEF PassesGood, Owned
<1>4. Owned(new, i, d) /\ FirstLoads(new, state, ids)
  BY <1>2 DEF Owned, FirstLoads
<1>5. Superseded(ps) \cup {new} \in SUBSET Pass
  BY <1>1, <1>2, SupersededTyped
<1>6. PassesGood(Superseded(ps) \cup {new}, state, i, d, ids)
  BY <1>3, <1>4, <1>5 DEF PassesGood, FirstLoads
<1> QED
  BY <1>6 DEF new

LEMMA FewerPasses ==
  ASSUME NEW ps, NEW qs \in SUBSET ps, NEW state, NEW i, NEW d, NEW ids,
         PassesGood(ps, state, i, d, ids)
  PROVE  PassesGood(qs, state, i, d, ids)
  BY DEF PassesGood

LEMMA ChangedPass ==
  ASSUME NEW ps, NEW state, NEW i, NEW d, NEW ids, PassesGood(ps, state, i, d, ids),
         NEW p \in ps, NEW q \in Pass,
         q.live = p.live, Owned(q, i, d), FirstLoads(q, state, ids)
  PROVE  PassesGood((ps \ {p}) \cup {q}, state, i, d, ids)
  BY DEF PassesGood

LEMMA PerformRefreshKeeps ==
  ASSUME NEW pg, NEW d, NEW ids, PageGood(pg, id, d, ids), id \in Runs, NEW kind \in Kinds
  PROVE  /\ PageGood(PerformRefresh(pg, kind), id, d, ids)
         /\ SameView(PerformRefresh(pg, kind), pg)
<1> DEFINE new == PerformRefresh(pg, kind)
           ps == Superseded(pg.passes) \cup {NewPass(kind, id)}
<1>1. pg \in Page
  BY DEF PageGood
<1>2. PassesGood(ps, pg.state, id, d, ids)
  BY NewestPass DEF PageGood, Kinds
<1>3. ps \in SUBSET Pass
  BY <1>2 DEF PassesGood
<1>4. new = [pg EXCEPT !.passes = ps, !.fresh = IF kind = "heavy" THEN "pending" ELSE pg.fresh]
  BY DEF PerformRefresh
<1> HIDE DEF new, ps
<1>5. new \in Page /\ new.passes = ps /\ SameView(new, pg)
  BY <1>1, <1>3, <1>4 DEF Page, SameView
<1>6. PageGood(new, id, d, ids)
  BY <1>2, <1>5, ViewKept
<1> QED
  BY <1>5, <1>6 DEF new

LEMMA RequestRefreshKeeps ==
  ASSUME NEW pg, NEW d, NEW ids, PageGood(pg, id, d, ids), id \in Runs,
         NEW kind \in Kinds, NEW source
  PROVE  /\ PageGood(RequestRefresh(pg, kind, source), id, d, ids)
         /\ SameView(RequestRefresh(pg, kind, source), pg)
<1> DEFINE heard == IF source = "manual" THEN [pg EXCEPT !.loud = TRUE, !.manErr = FALSE]
                                         ELSE pg
           folded == [heard EXCEPT !.dirty = Stronger(heard.dirty, kind)]
<1>1. pg \in Page
  BY DEF PageGood
<1>2. heard \in Page /\ SameView(heard, pg) /\ heard.passes = pg.passes
  <2>1. CASE source = "manual"
    BY <2>1, <1>1 DEF Page, SameView
  <2>2. CASE source # "manual"
    BY <2>2, <1>1 DEF SameView
  <2> QED
    BY <2>1, <2>2
<1>3. PageGood(heard, id, d, ids)
  <2> HIDE DEF heard
  <2> QED
    BY <1>2, ViewKept DEF PageGood
<1> HIDE DEF heard
<1>4. folded \in Page /\ SameView(folded, pg) /\ folded.passes = pg.passes
  <2>1. Stronger(heard.dirty, kind) \in Kinds
    BY DEF Stronger, Kinds
  <2> QED
    BY <1>2, <2>1 DEF Page, SameView
<1>5. PageGood(folded, id, d, ids)
  <2> HIDE DEF folded
  <2> QED
    BY <1>4, ViewKept DEF PageGood
<1>6. /\ PageGood(PerformRefresh(heard, kind), id, d, ids)
      /\ SameView(PerformRefresh(heard, kind), heard)
  BY <1>3, PerformRefreshKeeps
<1>7. RequestRefresh(pg, kind, source) =
        IF InFlight(pg) THEN folded ELSE PerformRefresh(heard, kind)
  BY DEF RequestRefresh, heard
<1> HIDE DEF folded
<1> QED
  BY <1>2, <1>4, <1>5, <1>6, <1>7 DEF SameView

LEMMA SettleIdleKeeps ==
  ASSUME NEW pg, NEW i, NEW d, NEW ids, PageGood(pg, i, d, ids), NEW here \in BOOLEAN
  PROVE  /\ PageGood(SettleIdle(pg, here), i, d, ids)
         /\ SameView(SettleIdle(pg, here), pg)
<1> DEFINE new == SettleIdle(pg, here)
           freed == {c \in pg.ctls : c.step = "waiting" /\ c.here = here}
           ctls == pg.ctls \ freed
           pending == pg.pending /\ ~(here /\ freed # {})
<1>1. pg \in Page
  BY DEF PageGood
<1>2. ctls \in SUBSET Control /\ pending \in BOOLEAN
  BY <1>1, PageFields
<1>3. new = [pg EXCEPT !.ctls = ctls, !.pending = pending]
  BY DEF SettleIdle
<1> HIDE DEF new, ctls, pending
<1>4. new \in Page /\ new.passes = pg.passes /\ SameView(new, pg)
  BY <1>1, <1>2, <1>3 DEF Page, SameView
<1>5. PageGood(new, i, d, ids)
  BY <1>4, ViewKept DEF PageGood
<1> QED
  BY <1>4, <1>5 DEF new

LEMMA WithoutPass ==
  ASSUME NEW pg, NEW i, NEW d, NEW ids, PageGood(pg, i, d, ids), NEW p
  PROVE  LET left == [pg EXCEPT !.passes = pg.passes \ {p}] IN
         /\ PageGood(left, i, d, ids) /\ SameView(left, pg)
         /\ left.passes = pg.passes \ {p}
<1> DEFINE left == [pg EXCEPT !.passes = pg.passes \ {p}]
<1>1. pg \in Page /\ pg.passes \in SUBSET Pass
  BY PageFields DEF PageGood
<1>2. left \in Page /\ left.passes = pg.passes \ {p} /\ SameView(left, pg)
  BY <1>1 DEF Page, SameView
<1> HIDE DEF left
<1>3. PassesGood(left.passes, pg.state, i, d, ids)
  BY <1>2, FewerPasses DEF PageGood
<1>4. PageGood(left, i, d, ids)
  BY <1>2, <1>3, ViewKept
<1> QED
  BY <1>2, <1>4 DEF left

LEMMA FinishKeeps ==
  ASSUME NEW pg, NEW d, NEW ids, PageGood(pg, id, d, ids), id \in Runs, NEW p
  PROVE  /\ PageGood(Finish(pg, p), id, d, ids)
         /\ SameView(Finish(pg, p), pg)
<1> DEFINE left == [pg EXCEPT !.passes = pg.passes \ {p}]
           clean == [left EXCEPT !.dirty = "none"]
           quiet == [left EXCEPT !.loud = FALSE]
<1>1. PageGood(left, id, d, ids) /\ SameView(left, pg)
  BY WithoutPass
<1>2. Finish(pg, p) = IF ~p.here THEN SettleIdle(left, FALSE)
                      ELSE IF left.dirty # "none" THEN PerformRefresh(clean, left.dirty)
                      ELSE SettleIdle(quiet, TRUE)
  BY DEF Finish
<1> HIDE DEF left
<1>3. left \in Page
  BY <1>1 DEF PageGood
<1>4. /\ clean \in Page /\ clean.passes = left.passes /\ SameView(clean, left)
      /\ quiet \in Page /\ quiet.passes = left.passes /\ SameView(quiet, left)
  BY <1>3 DEF Page, SameView
<1> HIDE DEF clean, quiet
<1>5. PageGood(clean, id, d, ids) /\ PageGood(quiet, id, d, ids)
  BY <1>1, <1>4, ViewKept DEF PageGood
<1>6. CASE ~p.here
  <2>1. PageGood(SettleIdle(left, FALSE), id, d, ids) /\ SameView(SettleIdle(left, FALSE), left)
    BY <1>1, SettleIdleKeeps
  <2> QED
    BY <1>1, <1>2, <1>6, <2>1 DEF SameView
<1>7. CASE p.here /\ left.dirty # "none"
  <2>1. left.dirty \in Kinds
    BY <1>3, <1>7, PageFields
  <2>2. /\ PageGood(PerformRefresh(clean, left.dirty), id, d, ids)
        /\ SameView(PerformRefresh(clean, left.dirty), clean)
    BY <1>5, <2>1, PerformRefreshKeeps
  <2> QED
    BY <1>1, <1>2, <1>4, <1>7, <2>2 DEF SameView
<1>8. CASE p.here /\ left.dirty = "none"
  <2>1. PageGood(SettleIdle(quiet, TRUE), id, d, ids) /\ SameView(SettleIdle(quiet, TRUE), quiet)
    BY <1>5, SettleIdleKeeps
  <2> QED
    BY <1>1, <1>2, <1>4, <1>8, <2>1 DEF SameView
<1> QED
  BY <1>6, <1>7, <1>8

LEMMA ReportKeeps ==
  ASSUME NEW pg, NEW i, NEW d, NEW ids, PageGood(pg, i, d, ids), NEW p
  PROVE  /\ PageGood(Report(pg, p), i, d, ids)
         /\ SameView(Report(pg, p), pg)
<1> DEFINE new == Report(pg, p)
<1>1. pg \in Page /\ pg.loud \in BOOLEAN /\ pg.manErr \in BOOLEAN
  BY PageFields DEF PageGood
<1>2. PICK a, m \in BOOLEAN : new = pg \/ new = [pg EXCEPT !.autoErr = a, !.manErr = m]
  <2>1. CASE ~p.live
    BY <2>1 DEF Report
  <2>2. CASE p.live /\ "failed" \in {p.light, p.heavy} /\ pg.loud
    <3>1. new = [pg EXCEPT !.manErr = TRUE, !.autoErr = FALSE]
      BY <2>2 DEF Report
    <3>2. new = [pg EXCEPT !.autoErr = FALSE, !.manErr = TRUE]
      BY <1>1, <3>1 DEF Page
    <3> QED
      BY <3>2
  <2>3. CASE p.live /\ "failed" \in {p.light, p.heavy} /\ ~pg.loud
    <3>1. new = [pg EXCEPT !.autoErr = TRUE]
      BY <2>3 DEF Report
    <3>2. new = [pg EXCEPT !.autoErr = TRUE, !.manErr = pg.manErr]
      BY <1>1, <3>1 DEF Page
    <3> QED
      BY <1>1, <3>2
  <2>4. CASE p.live /\ "failed" \notin {p.light, p.heavy}
    <3>1. new = [pg EXCEPT !.autoErr = FALSE, !.manErr = pg.manErr /\ ~pg.loud]
      BY <2>4 DEF Report
    <3>2. (pg.manErr /\ ~pg.loud) \in BOOLEAN
      OBVIOUS
    <3> QED
      BY <3>1, <3>2
  <2> QED
    BY <1>1, <2>1, <2>2, <2>3, <2>4
<1> HIDE DEF new
<1>3. new \in Page /\ new.passes = pg.passes /\ SameView(new, pg)
  BY <1>1, <1>2 DEF Page, SameView
<1>4. PageGood(new, i, d, ids)
  BY <1>3, ViewKept DEF PageGood
<1> QED
  BY <1>3, <1>4 DEF new

LEMMA ProgressKeeps ==
  ASSUME NEW pg, NEW d, NEW ids, PageGood(pg, id, d, ids), id \in Runs,
         NEW old \in pg.passes, NEW p \in Pass,
         p.live = old.live, Owned(p, id, d), FirstLoads(p, pg.state, ids)
  PROVE  /\ PageGood(Progress(pg, old, p), id, d, ids)
         /\ SameView(Progress(pg, old, p), pg)
<1> DEFINE ps == (pg.passes \ {old}) \cup {p}
           next == [pg EXCEPT !.passes = ps]
<1>1. pg \in Page
  BY DEF PageGood
<1>2. PassesGood(ps, pg.state, id, d, ids) /\ ps \in SUBSET Pass
  BY ChangedPass DEF PageGood, PassesGood
<1>3. Progress(pg, old, p) = IF "out" \in {p.light, p.heavy} THEN next
                             ELSE Finish(Report(next, p), p)
  BY DEF Progress
<1> HIDE DEF ps
<1>4. next \in Page /\ next.passes = ps /\ SameView(next, pg)
  BY <1>1, <1>2 DEF Page, SameView
<1> HIDE DEF next
<1>5. PageGood(next, id, d, ids)
  BY <1>2, <1>4, ViewKept
<1>6. PageGood(Report(next, p), id, d, ids) /\ SameView(Report(next, p), next)
  BY <1>5, ReportKeeps
<1>7. /\ PageGood(Finish(Report(next, p), p), id, d, ids)
      /\ SameView(Finish(Report(next, p), p), Report(next, p))
  BY <1>6, FinishKeeps
<1> QED
  BY <1>3, <1>4, <1>5, <1>6, <1>7 DEF SameView

SameList(q, pg) == q.state = pg.state /\ q.list = pg.list

LEMMA ShowLightKeeps ==
  ASSUME NEW pg, NEW i, NEW d, NEW ids, PageGood(pg, i, d, ids),
         NEW p \in pg.passes, p.row # None
  PROVE  /\ PageGood(ShowLight(pg, p), i, d, ids)
         /\ SameList(ShowLight(pg, p), pg)
         /\ ShowLight(pg, p).passes = pg.passes
<1>1. CASE ~(p.live /\ pg.state = "loaded")
  BY <1>1 DEF ShowLight, SameList
<1>2. CASE p.live /\ pg.state = "loaded"
  <2> DEFINE ended == pg.ended /\ p.row.status # "running"
             conn == IF p.row.status = "running" /\ pg.loud /\ pg.conn = "closed"
                     THEN "reconnecting" ELSE pg.conn
             new == ShowLight(pg, p)
  <2>1. /\ pg \in Page /\ p \in Pass /\ Owned(p, i, d)
        /\ ended \in BOOLEAN /\ conn \in {"open", "reconnecting", "closed"}
    BY PageFields DEF PageGood, PassesGood
  <2>2. p.row \in Snapshot /\ p.row.run = i
    BY <1>2, <2>1 DEF Pass, Owned
  <2>3. new = [pg EXCEPT !.row = p.row, !.ended = ended, !.conn = conn]
    BY <1>2 DEF ShowLight
  <2> HIDE DEF new, ended, conn
  <2>4. /\ new \in Page /\ new.passes = pg.passes
        /\ new.state = pg.state /\ new.list = pg.list /\ new.row = p.row
    BY <2>1, <2>2, <2>3 DEF Page
  <2>5. PageGood(new, i, d, ids)
    BY <2>2, <2>4 DEF PageGood, ViewGood
  <2> QED
    BY <2>4, <2>5 DEF new, SameList
<1> QED
  BY <1>1, <1>2

LEMMA ShowHeavyKeeps ==
  ASSUME NEW pg, NEW i, NEW d, NEW ids, PageGood(pg, i, d, ids),
         NEW p \in pg.passes, p.list # None
  PROVE  /\ PageGood(ShowHeavy(pg, p), i, d, ids)
         /\ ShowHeavy(pg, p).state = pg.state
         /\ ~p.live => ShowHeavy(pg, p) = pg
         /\ ShowHeavy(pg, p).passes = pg.passes
<1>1. CASE ~(p.live /\ pg.state = "loaded")
  BY <1>1 DEF ShowHeavy
<1>2. CASE p.live /\ pg.state = "loaded"
  <2> DEFINE new == ShowHeavy(pg, p)
  <2>1. pg \in Page /\ p \in Pass /\ Owned(p, i, d)
    BY DEF PageGood, PassesGood
  <2>2. p.list \in Snapshot /\ p.list.run = i /\ p.list.found <= d[i].found
    BY <1>2, <2>1 DEF Pass, Owned
  <2>3. new = [pg EXCEPT !.list = p.list, !.fresh = "current"]
    BY <1>2 DEF ShowHeavy
  <2> HIDE DEF new
  <2>4. /\ new \in Page /\ new.passes = pg.passes
        /\ new.state = pg.state /\ new.row = pg.row /\ new.list = p.list
    BY <2>1, <2>2, <2>3 DEF Page
  <2>5. PageGood(new, i, d, ids)
    BY <2>2, <2>4 DEF PageGood, ViewGood
  <2> QED
    BY <1>2, <2>4, <2>5 DEF new
<1> QED
  BY <1>1, <1>2

(* The first load of a run, whatever the page was showing                   *)
LEMMA FetchInitialKeeps ==
  ASSUME NEW pg \in Page, NEW i, NEW d, NEW ids, PassesGood(pg.passes, pg.state, i, d, ids),
         NEW r \in Runs, NEW new_ids
  PROVE  /\ PageGood(FetchInitial(pg, r), r, d, new_ids)
         /\ FetchInitial(pg, r).state = "loading"
<1> DEFINE ps == Superseded(pg.passes) \cup {NewPass("initial", r)}
           new == FetchInitial(pg, r)
<1>1. PassesGood(ps, "loading", r, d, new_ids)
  BY NewestPass
<1>2. ps \in SUBSET Pass
  BY <1>1 DEF PassesGood
<1>3. new = [pg EXCEPT !.passes = ps, !.state = "loading", !.row = None, !.list = None,
                       !.fresh = "current", !.ended = FALSE, !.conn = "open",
                       !.autoErr = FALSE, !.manErr = FALSE, !.pending = FALSE,
                       !.sel = None, !.hidden = {}]
  BY DEF FetchInitial
<1> HIDE DEF new, ps
<1>4. new \in Page /\ new.passes = ps /\ new.state = "loading"
  BY <1>2, <1>3 DEF Page
<1> QED
  BY <1>1, <1>4 DEF PageGood, ViewGood, new

LEMMA DbGrows ==
  ASSUME NEW pg, NEW i \in Runs, NEW d, NEW e, NEW ids, PageGood(pg, i, d, ids),
         d \in [Runs -> Snapshot], e \in [Runs -> Snapshot],
         \A r \in Runs : e[r].found >= d[r].found
  PROVE  PageGood(pg, i, e, ids)
<1>1. \A r \in Runs : d[r].found \in Nat /\ e[r].found \in Nat
  BY DEF Snapshot
<1>2. ASSUME NEW p \in pg.passes
      PROVE  Owned(p, i, e)
  <2>1. p \in Pass /\ Owned(p, i, d)
    BY DEF PageGood, PassesGood
  <2>2. p.run \in Runs /\ (p.list # None => p.list.found \in Nat)
    BY <2>1 DEF Pass, Snapshot
  <2> QED
    BY <1>1, <2>1, <2>2 DEF Owned
<1>3. ViewGood(pg, i, e)
  <2>1. pg.state = "loaded" => pg.list.found \in Nat
    BY DEF PageGood, ViewGood, Snapshot
  <2> QED
    BY <1>1, <2>1 DEF PageGood, ViewGood
<1> QED
  BY <1>2, <1>3 DEF PageGood, PassesGood

-----------------------------------------------------------------------------
(* The invariant                                                            *)

ServerGood ==
  /\ db \in [Runs -> Snapshot]
  /\ \A r \in Runs : db[r].run = r
  /\ stream \in Stream
  /\ id \in Runs
  /\ budget \in Budget

RenderedGood ==
  /\ rendered \in [supported : BOOLEAN, enabled : BOOLEAN, members : SUBSET Findings]
  /\ rendered.members = details.ids

DetailsGood ==
  /\ HookGood(details)
  /\ Reads(details, page.state = "loaded", page.list, id)
  /\ Tells(details, page.state = "loaded", page.list)

IInv ==
  /\ ServerGood
  /\ RenderedGood
  /\ PageGood(page, id, db, details.ids)
  /\ DetailsGood

LEMMA StepKeeps ==
  ASSUME IInv,
         db' \in [Runs -> Snapshot], \A r \in Runs : db'[r].run = r,
         stream' \in Stream, budget' \in Budget,
         PageGood(page', id, db', details.ids), SameList(page', page),
         UNCHANGED <<id, details, rendered>>
  PROVE  IInv'
<1>1. ServerGood'
  BY DEF IInv, ServerGood
<1>2. RenderedGood'
  BY DEF IInv, RenderedGood
<1>3. DetailsGood'
  BY DEF IInv, DetailsGood, SameList
<1> QED
  BY <1>1, <1>2, <1>3 DEF IInv

(* A step of the page alone                                                 *)
LEMMA PageStepKeeps ==
  ASSUME IInv, budget' \in Budget, stream' \in Stream,
         PageGood(page', id, db, details.ids), SameList(page', page),
         UNCHANGED <<db, id, details, rendered>>
  PROVE  IInv'
  BY StepKeeps DEF IInv, ServerGood

LEMMA SameViewSameList ==
  ASSUME NEW q, NEW pg, SameView(q, pg)
  PROVE  SameList(q, pg)
  BY DEF SameView, SameList

LEMMA BudgetSpent ==
  ASSUME ServerGood
  PROVE  /\ Fault => budget' \in Budget
         /\ Click => budget' \in Budget
         /\ Pick  => budget' \in Budget
  BY DEF ServerGood, Budget, Fault, Click, Pick

LEMMA StreamsTyped == NoStream \in Stream /\ Connecting \in Stream
  BY DEF NoStream, Connecting, Stream

LEMMA EmitTyped ==
  ASSUME stream \in Stream, NEW r, NEW event \in {"open", "light", "heavy", "settled"}
  PROVE  Emit(r, event) \in Stream
<1> DEFINE Events == {"open", "light", "heavy", "settled"}
           wire == Append(stream.wire, event)
           sub == event # "settled"
<1>1. wire \in Seq(Events) /\ sub \in BOOLEAN
  BY DEF Stream
<1>2. Emit(r, event) = IF stream.sub /\ r = id THEN [stream EXCEPT !.wire = wire, !.sub = sub]
                       ELSE stream
  BY DEF Emit
<1> HIDE DEF wire, sub
<1> QED
  BY <1>1, <1>2 DEF Stream

LEMMA ViewTyped ==
  ASSUME IInv
  PROVE  /\ Supported(page) \in BOOLEAN /\ Enabled(page) \in BOOLEAN
         /\ Visible(page) \in SUBSET Findings
         /\ Members(page) \in SUBSET Findings
         /\ page.state # "loaded" => Members(page) = {}
         /\ page.state = "loaded" => \A f \in Members(page) : f.run = id
<1>1. Supported(page) \in BOOLEAN /\ Enabled(page) \in BOOLEAN
  BY DEF Supported, Enabled
<1>2. Visible(page) \in SUBSET Findings
  BY DEF Visible, Listed
<1>3. Members(page) \subseteq Visible(page)
  BY DEF Members, SelectedGroup
<1>4. page.state = "loaded" => \A f \in Visible(page) : f.run = id
  BY DEF IInv, PageGood, ViewGood, Visible, Listed
<1>5. page.state # "loaded" => Members(page) = {}
  BY DEF Members
<1> QED
  BY <1>1, <1>2, <1>3, <1>4, <1>5

-----------------------------------------------------------------------------
(* The server's steps                                                       *)

LEMMA InitKeeps == Init => IInv
<1> SUFFICES ASSUME Init
             PROVE  IInv
  OBVIOUS
<1> DEFINE p == NewPass("initial", id)
<1>1. id \in Runs
  BY RunsAssumption DEF Init
<1>2. p \in Pass /\ p.live /\ p.run = id /\ p.kind = "initial" /\ p.row = None /\ p.list = None
  BY <1>1, NewPassTyped, Zenon
<1> HIDE DEF p
<1>3. page = [state |-> "loading", row |-> None, list |-> None,
              fresh |-> "current", ended |-> FALSE, conn |-> "open",
              autoErr |-> FALSE, manErr |-> FALSE, dirty |-> "none", loud |-> FALSE,
              pending |-> FALSE, sel |-> None, hidden |-> {}, ctls |-> {}, passes |-> {p}]
  BY DEF Init, p
<1>4. page \in Page /\ page.state = "loading" /\ page.passes = {p}
  BY <1>2, <1>3 DEF Page
<1>5. budget \in Budget
  BY BudgetsAssumption DEF Init
<1>6. db \in [Runs -> Snapshot] /\ \A r \in Runs : db[r].run = r
  BY DEF Init, Snapshot
<1>7. details = NoDetails /\ rendered = [supported |-> FALSE, enabled |-> FALSE, members |-> {}]
  BY DEF Init
<1>8. ServerGood
  BY <1>1, <1>5, <1>6, StreamsTyped DEF Init, ServerGood
<1>9. HookGood(details) /\ details.ids = {}
  BY <1>7, PendingTyped DEF HookGood, Hook, NoDetails
<1>10. RenderedGood
  BY <1>7, <1>9 DEF RenderedGood
<1>11. PageGood(page, id, db, details.ids)
  <2>1. Owned(p, id, db) /\ FirstLoads(p, "loading", details.ids)
    BY <1>2 DEF Owned, FirstLoads
  <2> QED
    BY <1>2, <1>4, <2>1 DEF PageGood, PassesGood, ViewGood
<1>12. DetailsGood
  BY <1>4, <1>9 DEF DetailsGood, Reads, Tells
<1> QED
  BY <1>8, <1>10, <1>11, <1>12 DEF IInv

LEMMA DbStepKeeps ==
  ASSUME IInv, db' \in [Runs -> Snapshot],
         \A r \in Runs : db'[r].run = r /\ db'[r].found >= db[r].found
  PROVE  PageGood(page, id, db', details.ids)
  BY DbGrows DEF IInv, ServerGood

(* What a change leaves of a run's snapshot                                 *)
Counted(s)  == [s EXCEPT !.ver = s.ver + 1]
Extended(s) == [Counted(s) EXCEPT !.found = s.found + 1]
AtRest(s)   == [Counted(s) EXCEPT !.status = "rest"]
Resumed(s)  == [Counted(s) EXCEPT !.status = "running"]

Follows(t, s) == t \in Snapshot /\ t.run = s.run /\ t.found >= s.found

LEMMA SnapshotChanged ==
  ASSUME NEW s \in Snapshot
  PROVE  Follows(Counted(s), s) /\ Follows(Extended(s), s)
         /\ Follows(AtRest(s), s) /\ Follows(Resumed(s), s)
<1>1. /\ Counted(s) \in Snapshot /\ Counted(s).run = s.run
      /\ Counted(s).found = s.found /\ s.found \in Nat
  BY DEF Snapshot, Counted
<1>2. Follows(Counted(s), s)
  BY <1>1 DEF Follows
<1>3. Follows(Extended(s), s)
  BY <1>1 DEF Snapshot, Extended, Follows
<1>4. Follows(AtRest(s), s)
  BY <1>1 DEF Snapshot, AtRest, Follows
<1>5. Follows(Resumed(s), s)
  BY <1>1 DEF Snapshot, Resumed, Follows
<1> QED
  BY <1>2, <1>3, <1>4, <1>5

LEMMA DbChanged ==
  ASSUME ServerGood, NEW r \in Runs, NEW t, Follows(t, db[r]), db' = [db EXCEPT ![r] = t]
  PROVE  /\ db' \in [Runs -> Snapshot]
         /\ \A q \in Runs : db'[q].run = q /\ db'[q].found >= db[q].found
<1>1. \A q \in Runs : db[q].found \in Nat /\ db[q].run = q
  BY DEF ServerGood, Snapshot
<1>2. db \in [Runs -> Snapshot]
  BY DEF ServerGood
<1>3. t \in Snapshot /\ t.run = r /\ t.found >= db[r].found
  BY <1>1 DEF Follows
<1> QED
  BY <1>1, <1>2, <1>3

LEMMA ChangeKeeps ==
  ASSUME IInv, NEW r \in Runs, Change(r)
  PROVE  IInv'
<1>1. /\ db \in [Runs -> Snapshot] /\ \A q \in Runs : db[q].run = q
      /\ stream \in Stream /\ budget \in Budget
  BY DEF IInv, ServerGood
<1>2. /\ db' \in [Runs -> Snapshot]
      /\ \A q \in Runs : db'[q].run = q /\ db'[q].found >= db[q].found
  <2>1. db[r] \in Snapshot
    BY <1>1
  <2>2. CASE db' = [db EXCEPT ![r].ver = @ + 1]
    <3>1. db' = [db EXCEPT ![r] = Counted(db[r])]
      BY <2>2 DEF Counted
    <3> QED
      BY <2>1, <3>1, SnapshotChanged, DbChanged DEF IInv
  <2>3. CASE db' = [db EXCEPT ![r].ver = @ + 1, ![r].found = @ + 1]
    <3>1. db' = [db EXCEPT ![r] = Extended(db[r])]
      BY <1>1, <2>3 DEF Counted, Extended, Snapshot
    <3> QED
      BY <2>1, <3>1, SnapshotChanged, DbChanged DEF IInv
  <2>4. CASE db' = [db EXCEPT ![r].ver = @ + 1, ![r].status = "rest"]
    <3>1. db' = [db EXCEPT ![r] = AtRest(db[r])]
      BY <1>1, <2>4 DEF Counted, AtRest, Snapshot
    <3> QED
      BY <2>1, <3>1, SnapshotChanged, DbChanged DEF IInv
  <2> QED
    BY <2>2, <2>3, <2>4 DEF Change
<1>3. stream' \in Stream
  BY <1>1, EmitTyped DEF Change
<1>4. PageGood(page, id, db', details.ids)
  BY <1>2, DbStepKeeps
<1>5. UNCHANGED <<id, page, details, rendered, budget>>
  BY DEF Change
<1> QED
  BY <1>1, <1>2, <1>3, <1>4, <1>5, StepKeeps DEF SameList

LEMMA ConnKeeps ==
  ASSUME IInv, NEW conn \in {"open", "reconnecting", "closed"}
  PROVE  LET pg == [page EXCEPT !.conn = conn] IN
         /\ PageGood(pg, id, db, details.ids) /\ SameView(pg, page)
<1> DEFINE pg == [page EXCEPT !.conn = conn]
<1>1. page \in Page
  BY DEF IInv, PageGood
<1>2. pg \in Page /\ pg.passes = page.passes /\ SameView(pg, page)
  BY <1>1 DEF Page, SameView
<1> HIDE DEF pg
<1>3. PageGood(pg, id, db, details.ids)
  BY <1>2, ViewKept DEF IInv, PageGood
<1> QED
  BY <1>2, <1>3 DEF pg

LEMMA RestartKeeps ==
  ASSUME IInv, Restart
  PROVE  IInv'
<1>1. /\ db \in [Runs -> Snapshot] /\ \A q \in Runs : db[q].run = q
      /\ stream \in Stream /\ id \in Runs
  BY DEF IInv, ServerGood
<1>2. budget' \in Budget
  BY BudgetSpent DEF IInv, Restart
<1>3. /\ db' \in [Runs -> Snapshot]
      /\ \A q \in Runs : db'[q].run = q /\ db'[q].found >= db[q].found
  <2>1. db' = [q \in Runs |-> IF db[q].status = "rest" THEN db[q]
                              ELSE [db[q] EXCEPT !.ver = @ + 1, !.status = "rest"]]
    BY DEF Restart
  <2>2. ASSUME NEW q \in Runs
        PROVE  /\ db'[q] \in Snapshot
               /\ db'[q].run = q /\ db'[q].found >= db[q].found
    <3>1. db[q] \in Snapshot /\ db[q].found \in Nat /\ db[q].run = q
      BY <1>1 DEF Snapshot
    <3>2. db'[q] = IF db[q].status = "rest" THEN db[q] ELSE AtRest(db[q])
      BY <2>1 DEF AtRest, Counted
    <3>3. Follows(AtRest(db[q]), db[q])
      BY <3>1, SnapshotChanged
    <3> QED
      BY <3>1, <3>2, <3>3 DEF Follows
  <2> QED
    BY <2>1, <2>2
<1>4. stream' \in Stream
  BY <1>1, StreamsTyped DEF Restart
<1>5. page' = page \/ page' = [page EXCEPT !.conn = "reconnecting"]
  BY DEF Restart
<1>6. PageGood(page', id, db, details.ids) /\ SameView(page', page)
  <2>1. CASE page' = page
    BY <2>1 DEF IInv, SameView
  <2>2. CASE page' = [page EXCEPT !.conn = "reconnecting"]
    BY <2>2, ConnKeeps, Zenon
  <2> QED
    BY <1>5, <2>1, <2>2
<1>7. PageGood(page', id, db', details.ids)
  BY <1>1, <1>3, <1>6, DbGrows
<1>8. UNCHANGED <<id, details, rendered>>
  BY DEF Restart
<1> QED
  BY <1>2, <1>3, <1>4, <1>6, <1>7, <1>8, StepKeeps, SameViewSameList

LEMMA ReadKeeps ==
  ASSUME IInv, NEW p \in page.passes, NEW part \in {"row", "list"}, Read(p, part)
  PROVE  IInv'
<1> DEFINE q  == [p EXCEPT ![part] = db[p.run]]
           ps == (page.passes \ {p}) \cup {q}
<1>1. page \in Page /\ PassesGood(page.passes, page.state, id, db, details.ids)
  BY DEF IInv, PageGood
<1>2. p \in Pass /\ Owned(p, id, db) /\ FirstLoads(p, page.state, details.ids)
  BY <1>1 DEF PassesGood
<1>3. /\ db[p.run] \in Snapshot /\ db[p.run].run = p.run /\ db[p.run].found \in Nat
      /\ db[p.run] # None
  BY <1>2, NoneIsNoSnapshot DEF IInv, ServerGood, Pass, Snapshot
<1>4. page.state = "loading" => details.ids = {}
  <2>1. rendered.members = Members(page)
    BY DEF Read, Rendered, Rendering
  <2> QED
    BY <2>1, ViewTyped DEF IInv, RenderedGood
<1>5. /\ q \in Pass /\ q.live = p.live /\ q.kind = p.kind /\ q.run = p.run
      /\ q.row \in {p.row, db[p.run]} /\ q.list \in {p.list, db[p.run]}
  <2>1. CASE part = "row"
    <3>1. q = [p EXCEPT !.row = db[p.run]]
      BY <2>1
    <3> HIDE DEF q
    <3> QED
      BY <1>2, <1>3, <3>1 DEF Pass
  <2>2. CASE part = "list"
    <3>1. q = [p EXCEPT !.list = db[p.run]]
      BY <2>2
    <3> HIDE DEF q
    <3> QED
      BY <1>2, <1>3, <3>1 DEF Pass
  <2> QED
    BY <2>1, <2>2
<1>6. page' = [page EXCEPT !.passes = ps]
  BY DEF Read
<1> HIDE DEF q
<1>7. Owned(q, id, db) /\ FirstLoads(q, page.state, details.ids)
  BY <1>2, <1>3, <1>4, <1>5 DEF Owned, FirstLoads
<1>8. PassesGood(ps, page.state, id, db, details.ids)
  BY <1>1, <1>5, <1>7, ChangedPass
<1>9. ps \in SUBSET Pass
  BY <1>8 DEF PassesGood
<1> HIDE DEF ps
<1>10. page' \in Page /\ page'.passes = ps /\ SameView(page', page)
  BY <1>1, <1>6, <1>9 DEF Page, SameView
<1>11. PageGood(page', id, db, details.ids)
  BY <1>8, <1>10, ViewKept DEF IInv
<1>12. /\ budget' \in Budget /\ stream' \in Stream
       /\ UNCHANGED <<db, id, details, rendered>>
  BY DEF Read, IInv, ServerGood
<1> QED
  BY <1>10, <1>11, <1>12, PageStepKeeps, SameViewSameList

LEMMA CtlsKeep ==
  ASSUME NEW pg, NEW i, NEW d, NEW ids, PageGood(pg, i, d, ids), NEW ctls \in SUBSET Control
  PROVE  LET q == [pg EXCEPT !.ctls = ctls] IN
         PageGood(q, i, d, ids) /\ SameView(q, pg) /\ q.ctls = ctls
<1> DEFINE q == [pg EXCEPT !.ctls = ctls]
<1>1. pg \in Page
  BY DEF PageGood
<1>2. q \in Page /\ q.passes = pg.passes /\ SameView(q, pg) /\ q.ctls = ctls
  BY <1>1 DEF Page, SameView
<1> HIDE DEF q
<1>3. PageGood(q, i, d, ids)
  BY <1>2, ViewKept DEF PageGood
<1> QED
  BY <1>2, <1>3 DEF q

LEMMA ServeControlKeeps ==
  ASSUME IInv, NEW c \in page.ctls, ServeControl(c)
  PROVE  IInv'
<1> DEFINE served == [c EXCEPT !.step = "answered", !.ver = db'[c.run].ver]
           ctls == (page.ctls \ {c}) \cup {served}
<1>1. /\ db \in [Runs -> Snapshot] /\ \A q \in Runs : db[q].run = q
      /\ stream \in Stream /\ budget \in Budget /\ id \in Runs
  BY DEF IInv, ServerGood
<1>2. page \in Page /\ page.ctls \in SUBSET Control /\ c \in Control /\ c.run \in Runs
  BY PageFields DEF IInv, PageGood, Control
<1>3. /\ db' \in [Runs -> Snapshot]
      /\ \A q \in Runs : db'[q].run = q /\ db'[q].found >= db[q].found
  <2>1. db[c.run] \in Snapshot
    BY <1>1, <1>2
  <2>2. CASE db' = [db EXCEPT ![c.run].ver = @ + 1]
    <3>1. db' = [db EXCEPT ![c.run] = Counted(db[c.run])]
      BY <2>2 DEF Counted
    <3> QED
      BY <1>2, <2>1, <3>1, SnapshotChanged, DbChanged DEF IInv
  <2>3. CASE db' = [db EXCEPT ![c.run].ver = @ + 1, ![c.run].status = "running"]
    <3>1. db' = [db EXCEPT ![c.run] = Resumed(db[c.run])]
      BY <1>1, <1>2, <2>3 DEF Counted, Resumed, Snapshot
    <3> QED
      BY <1>2, <2>1, <3>1, SnapshotChanged, DbChanged DEF IInv
  <2>4. CASE db' = db
    BY <1>1, <2>4 DEF Snapshot
  <2> QED
    BY <2>2, <2>3, <2>4 DEF ServeControl
<1>4. stream' \in Stream
  BY <1>1, EmitTyped DEF ServeControl
<1>5. served \in Control
  <2>1. db'[c.run].ver \in Nat
    BY <1>2, <1>3 DEF Snapshot
  <2> QED
    BY <1>2, <2>1 DEF Control
<1>6. page' = [page EXCEPT !.ctls = ctls]
  BY DEF ServeControl
<1> HIDE DEF served
<1>7. ctls \in SUBSET Control
  BY <1>2, <1>5
<1> HIDE DEF ctls
<1>8. PageGood(page', id, db, details.ids) /\ SameView(page', page)
  BY <1>6, <1>7, CtlsKeep DEF IInv
<1>9. PageGood(page', id, db', details.ids)
  BY <1>1, <1>3, <1>8, DbGrows
<1>10. budget' \in Budget /\ UNCHANGED <<id, details, rendered>>
  BY <1>1 DEF ServeControl
<1> QED
  BY <1>3, <1>4, <1>8, <1>9, <1>10, StepKeeps, SameViewSameList

LEMMA AcceptKeeps ==
  ASSUME IInv, Accept
  PROVE  IInv'
<1>1. PageGood(page, id, db, details.ids) /\ budget \in Budget
  BY DEF IInv, ServerGood
<1>2. UNCHANGED <<db, id, page, details, rendered, budget>>
  BY DEF Accept
<1>3. stream' \in Stream
  BY DEF Accept, Stream
<1> QED
  BY <1>1, <1>2, <1>3, PageStepKeeps DEF SameList

-----------------------------------------------------------------------------
(* The browser's steps                                                      *)

LEMMA StreamFailsKeeps ==
  ASSUME IInv, StreamFails
  PROVE  IInv'
<1>1. budget' \in Budget
  BY BudgetSpent DEF IInv, StreamFails
<1>2. UNCHANGED <<db, id, details, rendered>>
  BY DEF StreamFails
<1>3. stream' \in Stream
  <2>1. stream' = Connecting \/ stream' = [Connecting EXCEPT !.es = "dead"]
    BY DEF StreamFails
  <2>2. [Connecting EXCEPT !.es = "dead"] \in Stream
    <3> DEFINE s == Connecting
    <3>1. s \in Stream
      BY StreamsTyped
    <3> HIDE DEF s
    <3>2. [s EXCEPT !.es = "dead"] \in Stream
      BY <3>1 DEF Stream
    <3> QED
      BY <3>2 DEF s
  <2> QED
    BY <2>1, <2>2, StreamsTyped
<1>4. PageGood(page', id, db, details.ids) /\ SameView(page', page)
  <2>1. CASE page' = [page EXCEPT !.conn = "reconnecting"]
    BY <2>1, ConnKeeps, Zenon
  <2>2. CASE page' = [page EXCEPT !.conn = "closed"]
    BY <2>2, ConnKeeps, Zenon
  <2> QED
    BY <2>1, <2>2 DEF StreamFails
<1> QED
  BY <1>1, <1>2, <1>3, <1>4, PageStepKeeps, SameViewSameList

LEMMA DeliverKeeps ==
  ASSUME IInv, Deliver
  PROVE  IInv'
<1> DEFINE event  == Head(stream.wire)
           ended  == [page EXCEPT !.ended = TRUE]
           opened == [page EXCEPT !.conn = "open"]
<1>1. stream \in Stream /\ budget \in Budget /\ id \in Runs
  BY DEF IInv, ServerGood
<1>2. /\ UNCHANGED <<db, id, details, rendered, budget>>
      /\ stream' \in {NoStream, [stream EXCEPT !.wire = Tail(stream.wire)]}
  BY DEF Deliver
<1>3. event \in {"open", "light", "heavy", "settled"} /\ stream' \in Stream
  <2>1. stream.wire \in Seq({"open", "light", "heavy", "settled"}) /\ stream.wire # <<>>
    BY <1>1 DEF Deliver, Stream
  <2>2. /\ event \in {"open", "light", "heavy", "settled"}
        /\ Tail(stream.wire) \in Seq({"open", "light", "heavy", "settled"})
    BY <2>1
  <2> HIDE DEF event
  <2>3. [stream EXCEPT !.wire = Tail(stream.wire)] \in Stream
    BY <1>1, <2>2 DEF Stream
  <2> QED
    BY <1>2, <2>2, <2>3, StreamsTyped
<1>4. /\ PageGood(page, id, db, details.ids)
      /\ PageGood(opened, id, db, details.ids) /\ SameView(opened, page)
  BY ConnKeeps, Zenon DEF IInv
<1>5. PageGood(ended, id, db, details.ids) /\ SameView(ended, page)
  <2>1. page \in Page
    BY <1>4 DEF PageGood
  <2>2. ended \in Page /\ ended.passes = page.passes /\ SameView(ended, page)
    BY <2>1 DEF Page, SameView
  <2> HIDE DEF ended
  <2> QED
    BY <1>4, <2>2, ViewKept DEF PageGood
<1>6. PageGood(page', id, db, details.ids) /\ SameView(page', page)
  <2>1. page' = IF event = "settled" THEN RequestRefresh(ended, "heavy", "auto")
                ELSE IF event = "open" THEN RequestRefresh(opened, "heavy", "auto")
                ELSE RequestRefresh(page, event, "auto")
    BY DEF Deliver
  <2> HIDE DEF ended, opened, event
  <2>2. CASE event = "settled"
    BY <1>1, <1>5, <2>1, <2>2, RequestRefreshKeeps DEF SameView, Kinds
  <2>3. CASE event = "open"
    BY <1>1, <1>4, <2>1, <2>3, RequestRefreshKeeps DEF SameView, Kinds
  <2>4. CASE event \in {"light", "heavy"}
    BY <1>1, <1>4, <2>1, <2>4, RequestRefreshKeeps DEF SameView, Kinds
  <2> QED
    BY <1>3, <2>2, <2>3, <2>4
<1> QED
  BY <1>1, <1>2, <1>3, <1>6, PageStepKeeps, SameViewSameList

LEMMA PassOf ==
  ASSUME IInv, NEW p \in page.passes
  PROVE  /\ p \in Pass /\ Owned(p, id, db) /\ FirstLoads(p, page.state, details.ids)
         /\ id \in Runs /\ stream \in Stream /\ budget \in Budget
         /\ PageGood(page, id, db, details.ids)
  BY DEF IInv, ServerGood, PageGood, PassesGood

LEMMA LightAnsweredKeeps ==
  ASSUME IInv, NEW p \in page.passes, LightAnswered(p)
  PROVE  IInv'
<1> DEFINE q == [p EXCEPT !.light = "ok"]
           shown == ShowLight(page, p)
<1>1. /\ p \in Pass /\ Owned(p, id, db) /\ FirstLoads(p, page.state, details.ids)
      /\ id \in Runs /\ stream \in Stream /\ budget \in Budget
      /\ PageGood(page, id, db, details.ids)
  BY PassOf
<1>2. /\ q \in Pass /\ q.live = p.live
      /\ Owned(q, id, db) /\ FirstLoads(q, page.state, details.ids)
  BY <1>1 DEF Pass, Owned, FirstLoads
<1>3. /\ PageGood(shown, id, db, details.ids) /\ SameList(shown, page)
      /\ shown.passes = page.passes
  BY <1>1, ShowLightKeeps DEF LightAnswered
<1>4. page' = Progress(shown, p, q)
  BY DEF LightAnswered
<1> HIDE DEF q, shown
<1>5. PageGood(page', id, db, details.ids) /\ SameView(page', shown)
  BY <1>1, <1>2, <1>3, <1>4, ProgressKeeps DEF SameList
<1>6. SameList(page', page)
  BY <1>3, <1>5 DEF SameView, SameList
<1>7. UNCHANGED <<db, stream, id, details, rendered, budget>>
  BY DEF LightAnswered
<1> QED
  BY <1>1, <1>5, <1>6, <1>7, PageStepKeeps

(* A new list: everything that is shown is read again.                      *)
LEMMA HeavyAnsweredKeeps ==
  ASSUME IInv, NEW p \in page.passes, HeavyAnswered(p)
  PROVE  IInv'
<1> DEFINE q == [p EXCEPT !.heavy = "ok"]
           shown == ShowHeavy(page, p)
<1>1. /\ p \in Pass /\ Owned(p, id, db) /\ FirstLoads(p, page.state, details.ids)
      /\ id \in Runs /\ stream \in Stream /\ budget \in Budget
      /\ PageGood(page, id, db, details.ids)
  BY PassOf
<1>2. /\ q \in Pass /\ q.live = p.live
      /\ Owned(q, id, db) /\ FirstLoads(q, page.state, details.ids)
  BY <1>1 DEF Pass, Owned, FirstLoads
<1>3. /\ PageGood(shown, id, db, details.ids) /\ shown.state = page.state
      /\ ~p.live => shown = page
      /\ shown.passes = page.passes
  BY <1>1, ShowHeavyKeeps DEF HeavyAnswered
<1>4. page' = Progress(shown, p, q)
  BY DEF HeavyAnswered
<1> HIDE DEF q, shown
<1>5. PageGood(page', id, db, details.ids) /\ SameView(page', shown)
  BY <1>1, <1>2, <1>3, <1>4, ProgressKeeps
<1>6. UNCHANGED <<db, stream, id, rendered, budget>>
  BY DEF HeavyAnswered
<1>7. CASE ~p.live
  <2>1. details' = details
    BY <1>7 DEF HeavyAnswered
  <2>2. SameList(page', page)
    BY <1>3, <1>5, <1>7 DEF SameView, SameList
  <2> QED
    BY <1>1, <1>5, <1>6, <2>1, <2>2, PageStepKeeps
<1>8. CASE p.live
  <2>1. details' = Refresh(details)
    BY <1>8 DEF HeavyAnswered
  <2>2. HookGood(details) /\ (page.state = "loaded" => \A f \in details.ids : f.run = id)
    BY DEF IInv, DetailsGood, Reads
  <2>3. /\ HookGood(details') /\ details'.ids = details.ids
        /\ Reads(details', page.state = "loaded", page'.list, id)
        /\ Tells(details', page.state = "loaded", page'.list)
    BY <2>1, <2>2, RefreshKeeps
  <2>4. page'.state = page.state
    BY <1>3, <1>5 DEF SameView
  <2>5. DetailsGood'
    BY <1>6, <2>3, <2>4 DEF DetailsGood
  <2>6. ServerGood' /\ RenderedGood'
    BY <1>6, <2>3 DEF IInv, ServerGood, RenderedGood
  <2> QED
    BY <1>5, <1>6, <2>3, <2>5, <2>6 DEF IInv
<1> QED
  BY <1>7, <1>8

(* A step of the page that shows no list afterwards, or has nothing in      *)
(* detail                                                                   *)
LEMMA BareStepKeeps ==
  ASSUME IInv, budget' \in Budget, PageGood(page', id, db, details.ids),
         \/ page.state # "loaded" /\ page'.state # "loaded"
         \/ details.ids = {},
         UNCHANGED <<db, stream, id, details, rendered>>
  PROVE  IInv'
<1>1. ServerGood' /\ RenderedGood'
  BY DEF IInv, ServerGood, RenderedGood
<1>2. DetailsGood'
  <2>1. CASE page.state # "loaded" /\ page'.state # "loaded"
    BY <2>1 DEF IInv, DetailsGood, Reads, Tells
  <2>2. CASE details.ids = {}
    BY <2>2 DEF IInv, DetailsGood, HookGood, Reads, Tells
  <2> QED
    BY <2>1, <2>2
<1> QED
  BY <1>1, <1>2 DEF IInv

LEMMA InitialAnsweredKeeps ==
  ASSUME IInv, NEW p \in page.passes, InitialAnswered(p)
  PROVE  IInv'
<1> DEFINE left == [page EXCEPT !.passes = page.passes \ {p}]
<1>1. /\ p \in Pass /\ Owned(p, id, db) /\ FirstLoads(p, page.state, details.ids)
      /\ id \in Runs /\ stream \in Stream /\ budget \in Budget
      /\ PageGood(page, id, db, details.ids)
  BY PassOf
<1>2. /\ PageGood(left, id, db, details.ids) /\ SameView(left, page)
      /\ left.passes = page.passes \ {p}
  BY <1>1, WithoutPass
<1>3. UNCHANGED <<db, stream, id, details, rendered, budget>>
  BY DEF InitialAnswered
<1>4. page' = IF ~p.live THEN left
              ELSE [left EXCEPT !.state = "loaded", !.row = p.row, !.list = p.list]
  BY DEF InitialAnswered
<1> HIDE DEF left
<1>5. CASE ~p.live
  BY <1>1, <1>2, <1>3, <1>4, <1>5, PageStepKeeps, SameViewSameList
<1>6. CASE p.live
  <2>1. /\ p.row # None /\ p.list # None /\ p.kind = "initial"
    BY DEF InitialAnswered
  <2>2. /\ details.ids = {}
        /\ p.row \in Snapshot /\ p.row.run = id
        /\ p.list \in Snapshot /\ p.list.run = id /\ p.list.found <= db[id].found
    BY <1>1, <1>6, <2>1 DEF FirstLoads, Owned, Pass
  <2>3. left \in Page
    BY <1>2 DEF PageGood
  <2>4. /\ page' \in Page /\ page'.passes = left.passes /\ page'.state = "loaded"
        /\ page'.row = p.row /\ page'.list = p.list
    BY <1>4, <1>6, <2>2, <2>3 DEF Page
  <2>5. \A o \in left.passes : ~o.live
    BY <1>1, <1>2, <1>6 DEF PageGood, PassesGood
  <2>6. PassesGood(left.passes, "loaded", id, db, details.ids)
    BY <1>2, <2>5 DEF PageGood, PassesGood, FirstLoads
  <2>7. PageGood(page', id, db, details.ids)
    BY <2>2, <2>4, <2>6 DEF PageGood, ViewGood
  <2> QED
    BY <1>1, <1>3, <2>2, <2>7, BareStepKeeps
<1> QED
  BY <1>5, <1>6

LEMMA PassFailsKeeps ==
  ASSUME IInv, NEW p \in page.passes, PassFails(p)
  PROVE  IInv'
<1> DEFINE light == [p EXCEPT !.light = "failed"]
           heavy == [p EXCEPT !.heavy = "failed"]
           stale == [page EXCEPT !.fresh = "failed"]
           left  == [page EXCEPT !.passes = page.passes \ {p}]
<1>1. /\ p \in Pass /\ Owned(p, id, db) /\ FirstLoads(p, page.state, details.ids)
      /\ id \in Runs /\ stream \in Stream
      /\ PageGood(page, id, db, details.ids)
  BY PassOf
<1>2. budget' \in Budget /\ UNCHANGED <<db, stream, id, details, rendered>>
  BY BudgetSpent DEF IInv, PassFails
<1>3. /\ light \in Pass /\ light.live = p.live
      /\ Owned(light, id, db) /\ FirstLoads(light, page.state, details.ids)
  BY <1>1 DEF Pass, Owned, FirstLoads
<1>4. /\ heavy \in Pass /\ heavy.live = p.live
      /\ Owned(heavy, id, db) /\ FirstLoads(heavy, page.state, details.ids)
  BY <1>1 DEF Pass, Owned, FirstLoads
<1>5. /\ PageGood(stale, id, db, details.ids) /\ SameView(stale, page)
      /\ stale.passes = page.passes
  <2>1. page \in Page
    BY <1>1 DEF PageGood
  <2>2. stale \in Page /\ stale.passes = page.passes /\ SameView(stale, page)
    BY <2>1 DEF Page, SameView
  <2> HIDE DEF stale
  <2> QED
    BY <1>1, <2>2, ViewKept DEF PageGood
<1>6. /\ PageGood(left, id, db, details.ids) /\ SameView(left, page)
      /\ left.passes = page.passes \ {p}
  BY <1>1, WithoutPass
<1>7. CASE page' = Progress(page, p, light)
  <2> HIDE DEF light
  <2>1. PageGood(page', id, db, details.ids) /\ SameView(page', page)
    BY <1>1, <1>3, <1>7, ProgressKeeps
  <2> QED
    BY <1>1, <1>2, <2>1, PageStepKeeps, SameViewSameList
<1>8. CASE page' = Progress(IF p.live THEN stale ELSE page, p, heavy)
  <2> HIDE DEF heavy, stale
  <2>1. CASE p.live
    <3>1. page' = Progress(stale, p, heavy)
      BY <1>8, <2>1
    <3>2. PageGood(page', id, db, details.ids) /\ SameView(page', stale)
      BY <1>1, <1>4, <1>5, <3>1, ProgressKeeps DEF SameView
    <3>3. SameList(page', page)
      BY <1>5, <3>2 DEF SameView, SameList
    <3> QED
      BY <1>1, <1>2, <3>2, <3>3, PageStepKeeps
  <2>2. CASE ~p.live
    <3>1. page' = Progress(page, p, heavy)
      BY <1>8, <2>2
    <3>2. PageGood(page', id, db, details.ids) /\ SameView(page', page)
      BY <1>1, <1>4, <3>1, ProgressKeeps
    <3> QED
      BY <1>1, <1>2, <3>2, PageStepKeeps, SameViewSameList
  <2> QED
    BY <2>1, <2>2
<1>9. CASE /\ p.kind = "initial"
           /\ page' = [page EXCEPT !.passes = page.passes \ {p},
                                   !.state = IF p.live THEN "error" ELSE page.state]
  <2>1. page \in Page
    BY <1>1 DEF PageGood
  <2>2. CASE ~p.live
    <3>1. page' = left
      BY <1>9, <2>1, <2>2 DEF Page
    <3> HIDE DEF left
    <3> QED
      BY <1>1, <1>2, <1>6, <3>1, PageStepKeeps, SameViewSameList
  <2>3. CASE p.live
    <3>1. page.state = "loading"
      BY <1>1, <1>9, <2>3 DEF FirstLoads
    <3>2. page' = [left EXCEPT !.state = "error"]
      BY <1>9, <2>3
    <3> HIDE DEF left
    <3>3. page' \in Page /\ page'.passes = left.passes /\ page'.state = "error"
      BY <1>6, <3>2 DEF PageGood, Page
    <3>4. \A o \in left.passes : ~o.live
      BY <1>1, <1>6, <2>3 DEF PageGood, PassesGood
    <3>5. PassesGood(left.passes, "error", id, db, details.ids)
      BY <1>6, <3>4 DEF PageGood, PassesGood, FirstLoads
    <3>6. PageGood(page', id, db, details.ids)
      BY <3>3, <3>5 DEF PageGood, ViewGood
    <3> QED
      BY <1>2, <3>1, <3>3, <3>6, BareStepKeeps
  <2> QED
    BY <2>2, <2>3
<1> QED
  BY <1>7, <1>8, <1>9 DEF PassFails

LEMMA PageOf ==
  ASSUME IInv
  PROVE  /\ page \in Page /\ PageGood(page, id, db, details.ids)
         /\ id \in Runs /\ stream \in Stream /\ budget \in Budget
         /\ db \in [Runs -> Snapshot]
         /\ HookGood(details)
         /\ Reads(details, page.state = "loaded", page.list, id)
         /\ Tells(details, page.state = "loaded", page.list)
  BY DEF IInv, ServerGood, PageGood, DetailsGood

-----------------------------------------------------------------------------
(* What the user does                                                       *)

LEMMA PressRefreshKeeps ==
  ASSUME IInv, PressRefresh
  PROVE  IInv'
<1>1. budget' \in Budget /\ UNCHANGED <<db, stream, id, details, rendered>>
  BY BudgetSpent DEF IInv, PressRefresh
<1>2. page' = RequestRefresh(page, "heavy", "manual")
  BY DEF PressRefresh
<1>3. PageGood(page', id, db, details.ids) /\ SameView(page', page)
  BY <1>2, PageOf, RequestRefreshKeeps DEF Kinds
<1> QED
  BY <1>1, <1>3, PageOf, PageStepKeeps, SameViewSameList

LEMMA RetryInitialKeeps ==
  ASSUME IInv, RetryInitial
  PROVE  IInv'
<1>1. /\ page.state = "error" /\ page' = FetchInitial(page, id)
      /\ UNCHANGED <<db, stream, id, details, rendered, budget>>
  BY DEF RetryInitial
<1>2. PassesGood(page.passes, page.state, id, db, details.ids)
  BY PageOf DEF PageGood
<1>3. PageGood(page', id, db, details.ids) /\ page'.state = "loading"
  BY <1>1, <1>2, PageOf, FetchInitialKeeps
<1> QED
  BY <1>1, <1>3, PageOf, BareStepKeeps

LEMMA PressControlKeeps ==
  ASSUME IInv, PressControl
  PROVE  IInv'
<1> DEFINE op   == IF page.row.status = "running" THEN "stop" ELSE "resume"
           c    == [op |-> op, run |-> id, here |-> TRUE, step |-> "sent", ver |-> 0]
           ctls == page.ctls \cup {c}
           held == [page EXCEPT !.pending = TRUE]
<1>1. budget' \in Budget /\ UNCHANGED <<db, stream, id, details, rendered>>
  BY BudgetSpent DEF IInv, PressControl
<1>2. c \in Control
  BY PageOf DEF Control
<1>3. page' = [held EXCEPT !.ctls = ctls]
  BY DEF PressControl
<1>4. /\ held \in Page /\ held.passes = page.passes /\ held.ctls = page.ctls
      /\ SameView(held, page)
  BY PageOf DEF Page, SameView
<1> HIDE DEF c, held
<1>5. PageGood(held, id, db, details.ids)
  BY <1>4, PageOf, ViewKept DEF PageGood
<1>6. ctls \in SUBSET Control
  BY <1>2, PageOf, PageFields
<1> HIDE DEF ctls
<1>7. PageGood(page', id, db, details.ids) /\ SameView(page', held)
  BY <1>3, <1>5, <1>6, CtlsKeep
<1>8. SameList(page', page)
  BY <1>4, <1>7 DEF SameView, SameList
<1> QED
  BY <1>1, <1>7, <1>8, PageOf, PageStepKeeps

LEMMA ControlAnsweredKeeps ==
  ASSUME IInv, NEW c \in page.ctls, ControlAnswered(c)
  PROVE  IInv'
<1> DEFINE gone  == page.ctls \ {c}
           left  == [page EXCEPT !.ctls = gone]
           kept  == gone \cup {[c EXCEPT !.step = "waiting"]}
           waits == [left EXCEPT !.ctls = left.ctls \cup {[c EXCEPT !.step = "waiting"]}]
<1>1. UNCHANGED <<db, stream, id, details, rendered, budget>>
  BY DEF ControlAnswered
<1>2. page' = IF ~c.here THEN left ELSE RequestRefresh(waits, "heavy", "auto")
  BY DEF ControlAnswered
<1>3. gone \in SUBSET Control /\ kept \in SUBSET Control
  <2>1. page.ctls \in SUBSET Control
    BY PageOf, PageFields
  <2>2. [c EXCEPT !.step = "waiting"] \in Control
    BY <2>1 DEF Control
  <2> QED
    BY <2>1, <2>2
<1>4. PageGood(left, id, db, details.ids) /\ SameView(left, page) /\ left.ctls = gone
  <2> HIDE DEF gone
  <2> QED
    BY <1>3, PageOf, CtlsKeep
<1>5. waits = [left EXCEPT !.ctls = kept]
  BY <1>4
<1> HIDE DEF left, waits, kept
<1>6. PageGood(waits, id, db, details.ids) /\ SameView(waits, left)
  BY <1>3, <1>4, <1>5, CtlsKeep
<1>7. /\ PageGood(RequestRefresh(waits, "heavy", "auto"), id, db, details.ids)
      /\ SameView(RequestRefresh(waits, "heavy", "auto"), waits)
  BY <1>6, PageOf, RequestRefreshKeeps DEF Kinds
<1>8. PageGood(page', id, db, details.ids) /\ SameList(page', page)
  BY <1>2, <1>4, <1>6, <1>7 DEF SameView, SameList
<1> QED
  BY <1>1, <1>8, PageOf, PageStepKeeps

LEMMA SelectFindingKeeps ==
  ASSUME IInv, NEW f \in Findings, SelectFinding(f)
  PROVE  IInv'
<1> DEFINE sel == First({g \in Visible(page) : SameRange(f, g)})
<1>1. budget' \in Budget /\ UNCHANGED <<db, stream, id, details, rendered>>
  BY BudgetSpent DEF IInv, SelectFinding
<1>2. sel \in Findings \cup {None}
  BY ViewTyped, FirstOfGroup
<1>3. page' = [page EXCEPT !.sel = sel]
  BY DEF SelectFinding
<1> HIDE DEF sel
<1>4. page' \in Page /\ page'.passes = page.passes /\ SameView(page', page)
  BY <1>2, <1>3, PageOf DEF Page, SameView
<1>5. PageGood(page', id, db, details.ids)
  BY <1>4, PageOf, ViewKept DEF PageGood
<1> QED
  BY <1>1, <1>4, <1>5, PageOf, PageStepKeeps, SameViewSameList

LEMMA ChangeFilterKeeps ==
  ASSUME IInv, NEW hidden \in Filters, ChangeFilter(hidden)
  PROVE  IInv'
<1>1. budget' \in Budget /\ UNCHANGED <<db, stream, id, details, rendered>>
  BY BudgetSpent DEF IInv, ChangeFilter
<1>2. hidden \in SUBSET Findings
  BY FiltersAssumption
<1>3. page' = [page EXCEPT !.hidden = hidden]
  BY DEF ChangeFilter
<1>4. page' \in Page /\ page'.passes = page.passes /\ SameView(page', page)
  BY <1>2, <1>3, PageOf DEF Page, SameView
<1>5. PageGood(page', id, db, details.ids)
  BY <1>4, PageOf, ViewKept DEF PageGood
<1> QED
  BY <1>1, <1>4, <1>5, PageOf, PageStepKeeps, SameViewSameList

-----------------------------------------------------------------------------
(* Details                                                                  *)

LEMMA DetailStepKeeps ==
  ASSUME IInv, budget' \in Budget, HookGood(details'), details'.ids = details.ids,
         Reads(details', page.state = "loaded", page.list, id),
         Tells(details', page.state = "loaded", page.list),
         UNCHANGED <<db, stream, id, page, rendered>>
  PROVE  IInv'
<1>1. ServerGood' /\ RenderedGood'
  BY DEF IInv, ServerGood, RenderedGood
<1>2. DetailsGood'
  BY DEF DetailsGood
<1>3. PageGood(page', id', db', details'.ids)
  BY PageOf
<1> QED
  BY <1>1, <1>2, <1>3 DEF IInv

(* The server answers with what it has, and the list was read before.       *)
LEMMA ReadDetailKeeps ==
  ASSUME IInv, NEW c \in details.calls, ReadDetail(c)
  PROVE  IInv'
<1> DEFINE ver == db[c.finding.run].found
           shown == page.state = "loaded"
<1>1. c \in Call /\ c.finding \in Findings
  BY PageOf, HookFields DEF HookGood, Call
<1>2. ver \in Nat
  BY <1>1, PageOf, FindingFields DEF Snapshot
<1>3. c.live /\ shown => ver >= page.list.found
  <2> SUFFICES ASSUME c.live, shown
               PROVE  ver >= page.list.found
    OBVIOUS
  <2>1. c.finding \in details.ids
    BY PageOf DEF HookGood
  <2>2. c.finding.run = id
    BY <2>1, PageOf DEF Reads
  <2>3. page.list \in Snapshot /\ page.list.found <= db[id].found
    BY PageOf DEF PageGood, ViewGood
  <2> QED
    BY <1>2, <2>2, <2>3 DEF Snapshot
<1>4. details' = Answered(details, c, ver)
  BY DEF ReadDetail
<1>5. UNCHANGED <<db, stream, id, page, rendered, budget>>
  BY DEF ReadDetail
<1> HIDE DEF ver
<1>6. /\ HookGood(details') /\ details'.ids = details.ids
      /\ Reads(details', shown, page.list, id) /\ Tells(details', shown, page.list)
  BY <1>2, <1>3, <1>4, PageOf, AnsweredKeeps
<1> QED
  BY <1>5, <1>6, PageOf, DetailStepKeeps

LEMMA DetailArrivesKeeps ==
  ASSUME IInv, NEW c \in details.calls, DetailArrives(c)
  PROVE  IInv'
<1>1. details' = Arrived(details, c) /\ c.read
  BY DEF DetailArrives
<1>2. UNCHANGED <<db, stream, id, page, rendered, budget>>
  BY DEF DetailArrives
<1>3. /\ HookGood(details') /\ details'.ids = details.ids
      /\ Reads(details', page.state = "loaded", page.list, id)
      /\ Tells(details', page.state = "loaded", page.list)
  BY <1>1, PageOf, ArrivedKeeps
<1> QED
  BY <1>2, <1>3, PageOf, DetailStepKeeps

LEMMA DetailFailsKeeps ==
  ASSUME IInv, NEW c \in details.calls, DetailFails(c)
  PROVE  IInv'
<1>1. details' = Failed(details, c)
  BY DEF DetailFails
<1>2. budget' \in Budget /\ UNCHANGED <<db, stream, id, page, rendered>>
  BY BudgetSpent DEF IInv, DetailFails
<1>3. /\ HookGood(details') /\ details'.ids = details.ids
      /\ Reads(details', page.state = "loaded", page.list, id)
      /\ Tells(details', page.state = "loaded", page.list)
  BY <1>1, PageOf, FailedKeeps
<1> QED
  BY <1>2, <1>3, DetailStepKeeps

(* A render follows the selected group, which is of the list that is shown. *)
LEMMA FollowsMembers ==
  ASSUME IInv, details' = Follow(details, Members(page)), rendered' = Rendering
  PROVE  /\ HookGood(details') /\ details'.ids = Members(page) /\ RenderedGood'
         /\ Reads(details', page.state = "loaded", page.list, id)
         /\ Tells(details', page.state = "loaded", page.list)
<1>1. /\ HookGood(details') /\ details'.ids = Members(page)
      /\ Reads(details', page.state = "loaded", page.list, id)
      /\ Tells(details', page.state = "loaded", page.list)
  BY PageOf, ViewTyped, FollowKeeps
<1>2. RenderedGood'
  BY <1>1, ViewTyped DEF RenderedGood, Rendering
<1> QED
  BY <1>1, <1>2

LEMMA RenderKeeps ==
  ASSUME IInv, Render
  PROVE  IInv'
<1> DEFINE conn == IF rendered.supported /\ ~Supported(page) THEN "open" ELSE page.conn
           sel  == First(Members(page))
<1>1. /\ rendered' = Rendering /\ details' = Follow(details, Members(page))
      /\ UNCHANGED <<db, id, budget>>
  BY DEF Render
<1>2. /\ HookGood(details') /\ details'.ids = Members(page) /\ RenderedGood'
      /\ Reads(details', page.state = "loaded", page.list, id)
      /\ Tells(details', page.state = "loaded", page.list)
  BY <1>1, FollowsMembers
<1>3. stream' \in Stream
  BY PageOf, StreamsTyped DEF Render
<1>4. page' = [page EXCEPT !.conn = conn, !.sel = sel]
  BY DEF Render
<1>5. conn \in {"open", "reconnecting", "closed"} /\ sel \in Findings \cup {None}
  BY PageOf, PageFields, ViewTyped, FirstOfGroup
<1> HIDE DEF conn, sel
<1>6. page' \in Page /\ page'.passes = page.passes /\ SameView(page', page)
  BY <1>4, <1>5, PageOf DEF Page, SameView
<1>7. PassesGood(page'.passes, page.state, id, db, details'.ids)
  BY <1>2, <1>6, PageOf, ViewTyped DEF PageGood, PassesGood, FirstLoads
<1>8. PageGood(page', id', db', details'.ids)
  BY <1>1, <1>6, <1>7, PageOf DEF PageGood, ViewGood, SameView
<1>9. DetailsGood'
  BY <1>1, <1>2, <1>6 DEF DetailsGood, SameView
<1>10. ServerGood'
  BY <1>1, <1>3 DEF IInv, ServerGood
<1> QED
  BY <1>2, <1>8, <1>9, <1>10 DEF IInv

(* Another run: what was under way goes on, and belongs to no generation.   *)
LEMMA MoveKeeps ==
  ASSUME IInv, NEW r \in Runs, Move(r)
  PROVE  IInv'
<1> DEFINE ps   == {[p EXCEPT !.here = FALSE] : p \in page.passes}
           ctls == {[c EXCEPT !.here = FALSE] : c \in page.ctls}
           away == [page EXCEPT !.passes = ps, !.ctls = ctls, !.dirty = "none", !.loud = FALSE]
<1>1. /\ rendered' = Rendering /\ details' = Follow(details, Members(page))
      /\ db' = db /\ id' = r /\ page' = FetchInitial(away, r)
  BY DEF Move
<1>2. /\ HookGood(details') /\ details'.ids = Members(page) /\ RenderedGood'
      /\ Tells(details', page.state = "loaded", page.list)
  BY <1>1, FollowsMembers
<1>3. stream' \in Stream
  BY StreamsTyped DEF Move
<1>4. budget' \in Budget
  BY PageOf DEF Move, Budget
<1>5. ctls \in SUBSET Control
  <2> DEFINE Away(c) == [c EXCEPT !.here = FALSE]
  <2>1. ASSUME NEW c \in page.ctls
        PROVE  Away(c) \in Control
    <3>1. c \in Control
      BY PageOf, PageFields
    <3> QED
      BY <3>1 DEF Control
  <2>2. ctls = {Away(c) : c \in page.ctls}
    OBVIOUS
  <2> HIDE DEF Away, ctls
  <2> QED
    BY <2>1, <2>2
<1>6. PassesGood(ps, page.state, id, db, details.ids)
  <2>1. PassesGood(page.passes, page.state, id, db, details.ids)
    BY PageOf DEF PageGood
  <2>2. ASSUME NEW p \in page.passes
        PROVE  LET q == [p EXCEPT !.here = FALSE] IN
               /\ q \in Pass /\ q.live = p.live
               /\ Owned(q, id, db) /\ FirstLoads(q, page.state, details.ids)
    BY <2>1 DEF PassesGood, Pass, Owned, FirstLoads
  <2>3. ASSUME NEW a \in ps, NEW b \in ps, a.live, b.live
        PROVE  a = b
    <3>1. PICK p \in page.passes : a = [p EXCEPT !.here = FALSE]
      OBVIOUS
    <3>2. PICK q \in page.passes : b = [q EXCEPT !.here = FALSE]
      OBVIOUS
    <3>3. p.live /\ q.live
      BY <2>2, <2>3, <3>1, <3>2
    <3>4. p = q
      BY <2>1, <3>3 DEF PassesGood
    <3> QED
      BY <3>1, <3>2, <3>4
  <2>4. \A q \in ps : q \in Pass /\ Owned(q, id, db) /\ FirstLoads(q, page.state, details.ids)
    BY <2>2
  <2> HIDE DEF ps
  <2>5. ps \in SUBSET Pass
    BY <2>4
  <2> QED
    BY <2>3, <2>4, <2>5 DEF PassesGood
<1>7. ps \in SUBSET Pass
  BY <1>6 DEF PassesGood
<1> HIDE DEF ps, ctls
<1>8. away \in Page /\ away.passes = ps /\ away.state = page.state
  BY <1>5, <1>7, PageOf DEF Page
<1> HIDE DEF away
<1>9. PageGood(page', r, db, details'.ids) /\ page'.state = "loading"
  BY <1>1, <1>6, <1>8, FetchInitialKeeps
<1>10. DetailsGood'
  BY <1>2, <1>9 DEF DetailsGood, Reads, Tells
<1>11. ServerGood'
  BY <1>1, <1>3, <1>4 DEF IInv, ServerGood
<1> QED
  BY <1>1, <1>2, <1>9, <1>10, <1>11 DEF IInv

-----------------------------------------------------------------------------
LEMMA NextKeeps == IInv /\ [Next]_vars => IInv'
<1> SUFFICES ASSUME IInv, [Next]_vars
             PROVE  IInv'
  OBVIOUS
<1>1. CASE UNCHANGED vars
  BY <1>1 DEF vars, IInv, ServerGood, RenderedGood, DetailsGood
<1>2. CASE \E r \in Runs : Change(r) \/ Move(r)
  BY <1>2, ChangeKeeps, MoveKeeps
<1>3. CASE Restart \/ Accept \/ StreamFails \/ Deliver \/ Render
  BY <1>3, RestartKeeps, AcceptKeeps, StreamFailsKeeps, DeliverKeeps, RenderKeeps
<1>4. CASE PressRefresh \/ RetryInitial \/ PressControl
  BY <1>4, PressRefreshKeeps, RetryInitialKeeps, PressControlKeeps
<1>5. ASSUME NEW p \in page.passes,
             \/ \E part \in {"row", "list"} : Read(p, part)
             \/ LightAnswered(p) \/ HeavyAnswered(p) \/ InitialAnswered(p) \/ PassFails(p)
      PROVE  IInv'
  BY <1>5, ReadKeeps, LightAnsweredKeeps, HeavyAnsweredKeeps, InitialAnsweredKeeps,
     PassFailsKeeps
<1>6. CASE \E c \in page.ctls : ServeControl(c) \/ ControlAnswered(c)
  BY <1>6, ServeControlKeeps, ControlAnsweredKeeps
<1>7. CASE \/ \E f \in Findings : SelectFinding(f)
           \/ \E hidden \in Filters : ChangeFilter(hidden)
  BY <1>7, SelectFindingKeeps, ChangeFilterKeeps
<1>8. CASE \E c \in details.calls : ReadDetail(c) \/ DetailArrives(c) \/ DetailFails(c)
  BY <1>8, ReadDetailKeeps, DetailArrivesKeeps, DetailFailsKeeps
<1> QED
  BY <1>1, <1>2, <1>3, <1>4, <1>5, <1>6, <1>7, <1>8 DEF Next

(* The page, its requests, the details it holds and the run in its URL      *)
(* agree in every reachable state.                                          *)
THEOREM Invariance == Spec => []IInv
  BY InitKeeps, NextKeeps, PTL DEF Spec

(* The page, its hook of details, the stream and the runs keep their types. *)
THEOREM TypeCorrect == Spec => []TypeOK
<1>1. IInv => TypeOK
  BY DEF IInv, TypeOK, ServerGood, RenderedGood, PageGood, DetailsGood, HookGood
<1> QED
  BY <1>1, Invariance, PTL

(* A loaded page shows the run of the URL, whatever was asked for another   *)
(* run and is answered late (requestGenerationRef).                         *)
THEOREM ShownRun == Spec => []ShowsItsRun
<1>1. IInv => ShowsItsRun
  BY DEF IInv, PageGood, ViewGood, ShowsItsRun
<1> QED
  BY <1>1, Invariance, PTL

(* What is shown of a finding in detail is awaited, no older than the list, *)
(* or marked as failed, and nothing is kept of a finding that is no longer  *)
(* shown (useFindingDetails).                                               *)
THEOREM DetailsFollow == Spec => []DetailsFollowList
<1>1. IInv => DetailsFollowList
  BY DEF IInv, DetailsGood, HookGood, Tells, DetailsFollowList
<1> QED
  BY <1>1, Invariance, PTL

-----------------------------------------------------------------------------
(* The gate of refreshes                                                    *)

Mine(p) == p.here /\ p.kind # "initial"

(* A refresh of this visit is of the latest generation and of a loaded page *)
(* and something folded waits for one.                                      *)
GateGood(pg) ==
  /\ \A p \in pg.passes : p.live => p.here
  /\ \A p \in pg.passes : Mine(p) => p.live /\ pg.state = "loaded"
  /\ pg.dirty # "none" => InFlight(pg)

(* The page shows one of these rows, says that it could not, or will.       *)
RowDue(pg, rows) ==
  \/ pg.dirty # "none"
  \/ InFlight(pg) /\ \A p \in pg.passes : Mine(p) =>
       \/ p.light = "failed"
       \/ p.light = "out" /\ p.row \in rows \cup {None}
       \/ p.light = "ok" /\ pg.row \in rows
  \/ ~InFlight(pg) /\ (pg.row \in rows \/ pg.autoErr \/ pg.manErr)

ListOut(p) == Mine(p) /\ p.kind = "heavy" /\ p.heavy = "out"

(* The same of a list with so many changes                                  *)
ListDue(pg, found) ==
  \/ pg.dirty = "heavy"
  \/ \E p \in pg.passes : ListOut(p) /\ (p.list = None \/ p.list.found = found)
  \/ (\A p \in pg.passes : ~ListOut(p)) /\ (pg.fresh = "failed" \/ pg.list.found = found)

NoLess(ver) == {s \in Snapshot : s.ver >= ver}

(* A control of this visit holds the buttons, and when it is answered the   *)
(* page is going to show a state that it has taken effect in.               *)
CtlsGood(pg, i, d) ==
  \A c \in pg.ctls : c.here =>
    /\ c.run = i /\ pg.state = "loaded" /\ pg.pending
    /\ c.step # "sent" => c.ver <= d[i].ver
    /\ c.step = "waiting" => InFlight(pg) /\ RowDue(pg, NoLess(c.ver))
    /\ \A e \in pg.ctls : e.here => e = c

(* What else a page keeps while it is refreshed                             *)
SameShown(q, pg) ==
  SameView(q, pg) /\ q.ctls = pg.ctls /\ q.pending = pg.pending

LEMMA PerformRefreshDue ==
  ASSUME NEW pg \in Page, id \in Runs, NEW kind \in Kinds,
         pg.state = "loaded", ~InFlight(pg),
         NEW rows, NEW found
  PROVE  LET q == PerformRefresh(pg, kind) IN
         /\ q \in Page /\ SameShown(q, pg)
         /\ GateGood(q) /\ InFlight(q) /\ RowDue(q, rows)
         /\ kind = "heavy" \/ pg.fresh = "failed" \/ pg.list.found = found
              => ListDue(q, found)
<1> DEFINE new == NewPass(kind, id)
           ps  == Superseded(pg.passes) \cup {new}
           q   == PerformRefresh(pg, kind)
<1>1. /\ new \in Pass /\ new.live /\ new.here /\ new.kind = kind
      /\ new.light = "out" /\ new.row = None /\ new.list = None
      /\ kind = "heavy" => new.heavy = "out"
      /\ kind = "light" => new.heavy = "ok"
  BY DEF NewPass, Pass, Kinds
<1>2. ASSUME NEW s \in Superseded(pg.passes)
      PROVE  s \in Pass /\ ~s.live /\ ~Mine(s)
  <2>1. PICK p \in pg.passes : s = [p EXCEPT !.live = FALSE]
    BY <1>2 DEF Superseded
  <2>2. p \in Pass /\ ~Mine(p)
    BY PageFields DEF InFlight, Mine
  <2> QED
    BY <2>1, <2>2 DEF Pass, Mine
<1>3. ps \in SUBSET Pass
  BY <1>1, <1>2
<1>4. q = [pg EXCEPT !.passes = ps, !.fresh = IF kind = "heavy" THEN "pending" ELSE pg.fresh]
  BY DEF PerformRefresh
<1> HIDE DEF new
<1>5. /\ \A p \in ps : (p.live \/ Mine(p)) => p = new
      /\ Mine(new) /\ new \in ps
  BY <1>1, <1>2 DEF Mine, Kinds
<1> HIDE DEF ps, q
<1>6. /\ q \in Page /\ q.passes = ps /\ SameShown(q, pg)
      /\ q.state = "loaded" /\ q.dirty = pg.dirty
      /\ kind = "light" => q.fresh = pg.fresh
  BY <1>3, <1>4 DEF Page, SameShown, SameView, Kinds
<1>7. InFlight(q)
  BY <1>5, <1>6 DEF InFlight, Mine
<1>8. GateGood(q)
  BY <1>1, <1>5, <1>6, <1>7 DEF GateGood
<1>9. RowDue(q, rows)
  BY <1>1, <1>5, <1>6, <1>7 DEF RowDue
<1>10. ASSUME kind = "heavy" \/ pg.fresh = "failed" \/ pg.list.found = found
       PROVE  ListDue(q, found)
  <2>1. CASE kind = "heavy"
    BY <1>1, <1>5, <1>6, <2>1 DEF ListDue, ListOut
  <2>2. CASE kind = "light"
    <3>1. \A p \in ps : ~ListOut(p)
      BY <1>1, <1>5, <2>2 DEF ListOut
    <3> QED
      BY <1>6, <1>10, <2>2, <3>1 DEF ListDue, SameShown, SameView
  <2> QED
    BY <2>1, <2>2 DEF Kinds
<1> QED
  BY <1>6, <1>7, <1>8, <1>9, <1>10 DEF q

LEMMA ListDueKept ==
  ASSUME NEW pg, NEW q, NEW found, ListDue(pg, found), q.passes = pg.passes,
         q.list = pg.list, q.fresh = pg.fresh, pg.dirty = "heavy" => q.dirty = "heavy"
  PROVE  ListDue(q, found)
  BY DEF ListDue

LEMMA RequestRefreshDue ==
  ASSUME NEW pg \in Page, id \in Runs, NEW kind \in Kinds, NEW source,
         pg.state = "loaded", GateGood(pg), NEW rows, NEW found
  PROVE  LET q == RequestRefresh(pg, kind, source) IN
         /\ q \in Page /\ SameShown(q, pg)
         /\ GateGood(q) /\ InFlight(q) /\ RowDue(q, rows)
         /\ kind = "heavy" \/ ListDue(pg, found) => ListDue(q, found)
<1> DEFINE heard == IF source = "manual" THEN [pg EXCEPT !.loud = TRUE, !.manErr = FALSE]
                                         ELSE pg
           folded == [heard EXCEPT !.dirty = Stronger(heard.dirty, kind)]
           q == RequestRefresh(pg, kind, source)
<1>1. /\ heard \in Page /\ SameShown(heard, pg) /\ heard.passes = pg.passes
      /\ heard.dirty = pg.dirty /\ heard.fresh = pg.fresh
  <2>1. CASE source = "manual"
    BY <2>1 DEF Page, SameShown, SameView
  <2>2. CASE source # "manual"
    BY <2>2 DEF SameShown, SameView
  <2> QED
    BY <2>1, <2>2
<1>2. q = IF InFlight(pg) THEN folded ELSE PerformRefresh(heard, kind)
  BY DEF RequestRefresh, heard
<1> HIDE DEF heard
<1>3. CASE InFlight(pg)
  <2>1. /\ Stronger(heard.dirty, kind) \in Kinds
        /\ kind = "heavy" \/ heard.dirty = "heavy" => Stronger(heard.dirty, kind) = "heavy"
    BY DEF Stronger, Kinds
  <2>2. /\ folded \in Page /\ SameShown(folded, pg) /\ folded.passes = pg.passes
        /\ folded.fresh = pg.fresh /\ folded.dirty \in Kinds
        /\ kind = "heavy" \/ pg.dirty = "heavy" => folded.dirty = "heavy"
    BY <1>1, <2>1 DEF Page, SameShown, SameView
  <2> HIDE DEF folded
  <2>3. InFlight(folded) /\ RowDue(folded, rows)
    BY <1>3, <2>2 DEF InFlight, RowDue, Kinds
  <2>4. GateGood(folded)
    BY <2>2, <2>3 DEF GateGood, SameShown, SameView
  <2>5. kind = "heavy" \/ ListDue(pg, found) => ListDue(folded, found)
    BY <2>2, ListDueKept DEF ListDue, SameShown, SameView
  <2> QED
    BY <1>2, <1>3, <2>2, <2>3, <2>4, <2>5
<1>4. CASE ~InFlight(pg)
  <2>1. ~InFlight(heard) /\ heard.state = "loaded"
    BY <1>1, <1>4 DEF InFlight, SameShown, SameView
  <2>2. ListDue(pg, found) => heard.fresh = "failed" \/ heard.list.found = found
    BY <1>1, <1>4 DEF ListDue, ListOut, Mine, InFlight, GateGood, SameShown, SameView
  <2>3. /\ q \in Page /\ SameShown(q, heard)
        /\ GateGood(q) /\ InFlight(q) /\ RowDue(q, rows)
        /\ kind = "heavy" \/ heard.fresh = "failed" \/ heard.list.found = found
             => ListDue(q, found)
    BY <1>1, <1>2, <1>4, <2>1, PerformRefreshDue
  <2> HIDE DEF q
  <2> QED
    BY <1>1, <2>2, <2>3 DEF q, SameShown, SameView
<1> QED
  BY <1>3, <1>4

(* What the end of a request leaves of what is due.  The buttons come back  *)
(* only when nothing is under way, for a control that waited for that.      *)
Progressed(q, pg, rows, found) ==
  /\ q \in Page /\ GateGood(q) /\ SameView(q, pg)
  /\ RowDue(pg, rows) => RowDue(q, rows)
  /\ ListDue(pg, found) => ListDue(q, found)
  /\ q.ctls \subseteq pg.ctls
  /\ \A c \in q.ctls : c.here /\ c.step = "waiting" /\ InFlight(pg) => InFlight(q)
  /\ q.pending # pg.pending =>
       /\ pg.pending /\ ~InFlight(q) /\ q.dirty = "none"
       /\ \E c \in pg.ctls \ q.ctls : c.here /\ c.step = "waiting"

LEMMA SettleIdleFrees ==
  ASSUME NEW pg \in Page, NEW here \in BOOLEAN
  PROVE  LET q == SettleIdle(pg, here)
             freed == {c \in pg.ctls : c.step = "waiting" /\ c.here = here}
         IN /\ q \in Page /\ SameView(q, pg) /\ q.passes = pg.passes
            /\ q.dirty = pg.dirty /\ q.fresh = pg.fresh
            /\ q.autoErr = pg.autoErr /\ q.manErr = pg.manErr
            /\ q.ctls = pg.ctls \ freed
            /\ q.pending # pg.pending => pg.pending /\ here /\ freed # {}
<1> DEFINE freed == {c \in pg.ctls : c.step = "waiting" /\ c.here = here}
           ctls == pg.ctls \ freed
           pending == pg.pending /\ ~(here /\ freed # {})
           q == SettleIdle(pg, here)
<1>1. ctls \in SUBSET Control /\ pending \in BOOLEAN
  BY PageFields
<1>2. q = [pg EXCEPT !.ctls = ctls, !.pending = pending]
  BY DEF SettleIdle
<1>3. pending # pg.pending => pg.pending /\ here /\ freed # {}
  BY PageFields
<1> HIDE DEF q, ctls, pending
<1>4. /\ q \in Page /\ SameView(q, pg) /\ q.passes = pg.passes
      /\ q.dirty = pg.dirty /\ q.fresh = pg.fresh
      /\ q.autoErr = pg.autoErr /\ q.manErr = pg.manErr
      /\ q.ctls = ctls /\ q.pending = pending
  BY <1>1, <1>2 DEF Page, SameView
<1> QED
  BY <1>3, <1>4 DEF q, ctls

LEMMA FinishDue ==
  ASSUME NEW pg \in Page, id \in Runs, NEW p \in pg.passes, NEW rows, NEW found,
         p.kind # "initial", p.light # "out", p.heavy # "out",
         GateGood(pg), \A o \in pg.passes : Mine(o) /\ Mine(p) => o = p,
         Mine(p) /\ p.light = "failed" => pg.autoErr \/ pg.manErr
  PROVE  Progressed(Finish(pg, p), pg, rows, found)
<1> DEFINE left  == [pg EXCEPT !.passes = pg.passes \ {p}]
           clean == [left EXCEPT !.dirty = "none"]
           quiet == [left EXCEPT !.loud = FALSE]
           q     == Finish(pg, p)
<1>1. q = IF ~p.here THEN SettleIdle(left, FALSE)
          ELSE IF left.dirty # "none" THEN PerformRefresh(clean, left.dirty)
          ELSE SettleIdle(quiet, TRUE)
  BY DEF Finish
<1>2. /\ left \in Page /\ SameShown(left, pg) /\ left.passes = pg.passes \ {p}
      /\ left.dirty = pg.dirty /\ left.fresh = pg.fresh
      /\ left.autoErr = pg.autoErr /\ left.manErr = pg.manErr
  BY PageFields DEF Page, SameShown, SameView
<1> HIDE DEF left, q
<1>3. p.here \in BOOLEAN
  BY PageFields DEF Pass
<1>4. CASE ~p.here
  <2>1. /\ q \in Page /\ SameView(q, pg) /\ q.passes = pg.passes \ {p}
        /\ q.dirty = pg.dirty /\ q.fresh = pg.fresh
        /\ q.autoErr = pg.autoErr /\ q.manErr = pg.manErr
        /\ q.ctls \subseteq pg.ctls /\ q.pending = pg.pending
    <3>1. /\ q \in Page /\ SameView(q, left) /\ q.passes = left.passes
          /\ q.dirty = left.dirty /\ q.fresh = left.fresh
          /\ q.autoErr = left.autoErr /\ q.manErr = left.manErr
          /\ q.ctls \subseteq left.ctls /\ q.pending = left.pending
      BY <1>1, <1>2, <1>4, SettleIdleFrees
    <3> QED
      BY <1>2, <3>1 DEF SameShown, SameView
  <2>2. InFlight(q) <=> InFlight(pg)
    BY <1>4, <2>1 DEF InFlight
  <2>3. GateGood(q)
    BY <2>1, <2>2 DEF GateGood, SameView
  <2>4. RowDue(pg, rows) => RowDue(q, rows)
    BY <2>1, <2>2 DEF RowDue, SameView
  <2>5. ListDue(pg, found) => ListDue(q, found)
    BY <1>4, <2>1 DEF ListDue, ListOut, Mine, SameView
  <2> QED
    BY <2>1, <2>2, <2>3, <2>4, <2>5 DEF Progressed, q
<1>5. ASSUME p.here
      PROVE  /\ Mine(p) /\ InFlight(pg) /\ pg.state = "loaded"
             /\ \A o \in left.passes : ~Mine(o)
             /\ ListDue(pg, found) =>
                  pg.dirty = "heavy" \/ pg.fresh = "failed" \/ pg.list.found = found
             /\ RowDue(pg, rows) =>
                  pg.dirty # "none" \/ pg.row \in rows \/ pg.autoErr \/ pg.manErr
  BY <1>2, <1>5 DEF Mine, InFlight, GateGood, ListDue, ListOut, RowDue
<1>6. CASE p.here /\ left.dirty # "none"
  <2>1. /\ clean \in Page /\ SameShown(clean, pg) /\ clean.passes = left.passes
        /\ clean.fresh = pg.fresh /\ clean.state = "loaded"
    BY <1>2, <1>5, <1>6 DEF Page, SameShown, SameView
  <2> HIDE DEF clean
  <2>2. ~InFlight(clean)
    BY <1>5, <1>6, <2>1 DEF InFlight, Mine
  <2>3. left.dirty \in Kinds
    BY <1>2, <1>6, PageFields
  <2>4. /\ q \in Page /\ SameShown(q, clean)
        /\ GateGood(q) /\ InFlight(q) /\ RowDue(q, rows)
        /\ left.dirty = "heavy" \/ clean.fresh = "failed" \/ clean.list.found = found
             => ListDue(q, found)
    BY <1>1, <1>6, <2>1, <2>2, <2>3, PerformRefreshDue
  <2>5. ListDue(pg, found) => ListDue(q, found)
    BY <1>2, <1>5, <1>6, <2>1, <2>4 DEF SameShown, SameView
  <2>6. SameShown(q, pg)
    BY <2>1, <2>4 DEF SameShown, SameView
  <2> HIDE DEF SameView
  <2> QED
    BY <2>4, <2>5, <2>6 DEF Progressed, SameShown, q
<1>7. CASE p.here /\ left.dirty = "none"
  <2>1. /\ quiet \in Page /\ SameShown(quiet, pg) /\ quiet.passes = left.passes
        /\ quiet.fresh = pg.fresh /\ quiet.dirty = "none"
        /\ quiet.autoErr = pg.autoErr /\ quiet.manErr = pg.manErr
    BY <1>2, <1>7 DEF Page, SameShown, SameView
  <2> HIDE DEF quiet
  <2> DEFINE freed == {c \in pg.ctls : c.step = "waiting" /\ c.here}
  <2>2. freed = {c \in quiet.ctls : c.step = "waiting" /\ c.here = TRUE}
    BY <2>1, PageFields DEF SameShown, Control
  <2>3. /\ q \in Page /\ SameView(q, pg) /\ q.passes = left.passes
        /\ q.dirty = "none" /\ q.fresh = pg.fresh
        /\ q.autoErr = pg.autoErr /\ q.manErr = pg.manErr
        /\ q.ctls = pg.ctls \ freed
        /\ q.pending # pg.pending => pg.pending /\ freed # {}
    <3> HIDE DEF freed
    <3>1. /\ q \in Page /\ SameView(q, quiet) /\ q.passes = quiet.passes
          /\ q.dirty = quiet.dirty /\ q.fresh = quiet.fresh
          /\ q.autoErr = quiet.autoErr /\ q.manErr = quiet.manErr
          /\ q.ctls = quiet.ctls \ freed
          /\ q.pending # quiet.pending => quiet.pending /\ freed # {}
      BY <1>1, <1>7, <2>1, <2>2, SettleIdleFrees
    <3> QED
      BY <2>1, <3>1 DEF SameShown, SameView
  <2>4. ~InFlight(q)
    BY <1>5, <1>7, <2>3 DEF InFlight, Mine
  <2>5. GateGood(q)
    BY <1>2, <1>5, <1>7, <2>3 DEF GateGood
  <2>6. RowDue(pg, rows) => RowDue(q, rows)
    BY <1>2, <1>5, <1>7, <2>3, <2>4 DEF RowDue, SameView
  <2>7. ListDue(pg, found) => ListDue(q, found)
    BY <1>2, <1>5, <1>7, <2>3 DEF ListDue, ListOut, SameView
  <2>8. \A c \in freed : c \in pg.ctls \ q.ctls /\ c.here /\ c.step = "waiting"
    BY <2>3
  <2>9. \A c \in q.ctls : ~(c.here /\ c.step = "waiting")
    BY <2>3
  <2> HIDE DEF freed
  <2> QED
    BY <2>3, <2>4, <2>5, <2>6, <2>7, <2>8, <2>9 DEF Progressed, q
<1> QED
  BY <1>3, <1>4, <1>6, <1>7 DEF q

LEMMA ReportTells ==
  ASSUME NEW pg \in Page, NEW p \in Pass
  PROVE  LET q == Report(pg, p) IN
         /\ q \in Page /\ SameShown(q, pg) /\ q.passes = pg.passes
         /\ q.dirty = pg.dirty /\ q.fresh = pg.fresh
         /\ ~p.live => q = pg
         /\ p.live /\ "failed" \in {p.light, p.heavy} => q.autoErr \/ q.manErr
<1>1. pg.loud \in BOOLEAN /\ pg.manErr \in BOOLEAN /\ pg.autoErr \in BOOLEAN
  BY PageFields
<1>2. CASE ~p.live
  BY <1>2 DEF Report, SameShown, SameView
<1>3. CASE p.live /\ "failed" \in {p.light, p.heavy} /\ pg.loud
  BY <1>3 DEF Report, SameShown, SameView, Page
<1>4. CASE p.live /\ "failed" \in {p.light, p.heavy} /\ ~pg.loud
  BY <1>4 DEF Report, SameShown, SameView, Page
<1>5. CASE p.live /\ "failed" \notin {p.light, p.heavy}
  <2> DEFINE m == pg.manErr /\ ~pg.loud
  <2>1. Report(pg, p) = [pg EXCEPT !.autoErr = FALSE, !.manErr = m]
    BY <1>5 DEF Report
  <2>2. m \in BOOLEAN
    OBVIOUS
  <2> HIDE DEF m
  <2> QED
    BY <1>5, <2>1, <2>2 DEF SameShown, SameView, Page
<1> QED
  BY <1>2, <1>3, <1>4, <1>5

(* A part of a request has settled, and with the last one the request.      *)
LEMMA ProgressDue ==
  ASSUME NEW pg \in Page, id \in Runs, NEW old \in pg.passes, NEW p \in Pass,
         GateGood(pg), \A a, b \in pg.passes : a.live /\ b.live => a = b,
         p.live = old.live, p.here = old.here, p.kind = old.kind, p.kind # "initial",
         NEW next, next = [pg EXCEPT !.passes = (pg.passes \ {old}) \cup {p}],
         NEW rows, NEW found
  PROVE  Progressed(Progress(pg, old, p), next, rows, found)
<1> DEFINE told == Report(next, p)
<1>1. /\ next \in Page /\ SameShown(next, pg)
      /\ next.passes = (pg.passes \ {old}) \cup {p} /\ next.dirty = pg.dirty
  BY PageFields DEF Page, SameShown, SameView
<1>2. InFlight(pg) => InFlight(next)
  BY <1>1 DEF InFlight
<1>3. GateGood(next)
  BY <1>1, <1>2 DEF GateGood, Mine, SameShown, SameView
<1>4. \A o \in next.passes : Mine(o) /\ Mine(p) => o = p
  BY <1>1 DEF GateGood, Mine
<1>5. Progress(pg, old, p) = IF "out" \in {p.light, p.heavy} THEN next ELSE Finish(told, p)
  BY DEF Progress
<1>6. CASE "out" \in {p.light, p.heavy}
  BY <1>1, <1>3, <1>5, <1>6 DEF Progressed, SameView
<1>7. CASE "out" \notin {p.light, p.heavy}
  <2>1. /\ told \in Page /\ SameShown(told, next) /\ told.passes = next.passes
        /\ told.dirty = next.dirty /\ told.fresh = next.fresh
        /\ ~p.live => told = next
        /\ p.live /\ "failed" \in {p.light, p.heavy} => told.autoErr \/ told.manErr
    BY <1>1, ReportTells
  <2> HIDE DEF told
  <2>2. p \in told.passes
    BY <1>1, <2>1
  <2>3. (InFlight(told) <=> InFlight(next)) /\ (Mine(p) => p.live /\ InFlight(next))
    BY <1>1, <1>3, <2>1 DEF InFlight, GateGood, Mine
  <2>4. GateGood(told)
    BY <1>3, <2>1, <2>3 DEF GateGood, SameShown, SameView
  <2>5. Progressed(Finish(told, p), told, rows, found)
    BY <1>4, <1>7, <2>1, <2>2, <2>3, <2>4, FinishDue
  <2>6. RowDue(next, rows) => RowDue(told, rows)
    <3>1. p.live => InFlight(next)
      BY <1>1, <1>3 DEF GateGood, InFlight
    <3> QED
      BY <2>1, <2>3, <3>1 DEF RowDue, SameShown, SameView
  <2>7. ListDue(next, found) => ListDue(told, found)
    BY <2>1, ListDueKept DEF SameShown, SameView
  <2> QED
    BY <1>5, <1>7, <2>1, <2>3, <2>5, <2>6, <2>7 DEF Progressed, SameShown, SameView
<1> QED
  BY <1>6, <1>7

-----------------------------------------------------------------------------
(* The stream tells the page of everything it does not show                 *)

Wired ==
  /\ ~rendered.enabled => stream.es = "none"
  /\ stream.sub => stream.es = "open" /\ db[id].status = "running"
  /\ stream.es = "open" /\ ~stream.sub =>
       Len(stream.wire) > 0 /\ stream.wire[Len(stream.wire)] = "settled"

Watched ==
  stream.es = "open" =>
    /\ page.state = "loaded"
    /\ Len(stream.wire) > 0 \/ RowDue(page, {db[id]})
    /\ \/ \E k \in 1 .. Len(stream.wire) : stream.wire[k] # "light"
       \/ ListDue(page, db[id].found)

(* What PendingCoversControl asks of a step                                 *)
Covered ==
  \A c \in page.ctls :
    c.here /\ page.pending /\ ~page'.pending =>
      \/ c.step # "sent" /\ page'.row.ver >= c.ver
      \/ page'.autoErr \/ page'.manErr

DueInv ==
  /\ Wired /\ Watched
  /\ GateGood(page)
  /\ CtlsGood(page, id, db)

SameDue(q, pg) ==
  /\ SameView(q, pg) /\ q.passes = pg.passes
  /\ q.dirty = pg.dirty /\ q.fresh = pg.fresh
  /\ q.autoErr = pg.autoErr /\ q.manErr = pg.manErr

LEMMA SameDueKeeps ==
  ASSUME NEW pg, NEW q, SameDue(q, pg)
  PROVE  /\ InFlight(q) <=> InFlight(pg)
         /\ GateGood(pg) => GateGood(q)
         /\ \A rows : RowDue(pg, rows) => RowDue(q, rows)
         /\ \A found : ListDue(pg, found) => ListDue(q, found)
<1>1. InFlight(q) <=> InFlight(pg)
  BY DEF InFlight, SameDue
<1>2. GateGood(pg) => GateGood(q)
  BY <1>1 DEF GateGood, SameDue, SameView
<1>3. ASSUME NEW rows
      PROVE  RowDue(pg, rows) => RowDue(q, rows)
  BY <1>1 DEF RowDue, SameDue, SameView
<1>4. ASSUME NEW found
      PROVE  ListDue(pg, found) => ListDue(q, found)
  BY ListDueKept DEF SameDue, SameView
<1> QED
  BY <1>1, <1>2, <1>3, <1>4

LEMMA CtlsKept ==
  ASSUME NEW pg, NEW q, NEW i, NEW d, CtlsGood(pg, i, d),
         q.state = pg.state, q.ctls = pg.ctls, q.pending = pg.pending,
         InFlight(pg) => InFlight(q),
         \A c \in pg.ctls : RowDue(pg, NoLess(c.ver)) => RowDue(q, NoLess(c.ver))
  PROVE  CtlsGood(q, i, d)
  BY DEF CtlsGood

LEMMA CtlsProgressed ==
  ASSUME NEW pg, NEW q, NEW i, NEW d, NEW found, CtlsGood(pg, i, d),
         \A rows : Progressed(q, pg, rows, found)
  PROVE  CtlsGood(q, i, d)
<1> SUFFICES ASSUME NEW c \in q.ctls, c.here
             PROVE  /\ c.run = i /\ q.state = "loaded" /\ q.pending
                    /\ c.step # "sent" => c.ver <= d[i].ver
                    /\ c.step = "waiting" => InFlight(q) /\ RowDue(q, NoLess(c.ver))
                    /\ \A e \in q.ctls : e.here => e = c
  BY DEF CtlsGood
<1>1. Progressed(q, pg, NoLess(c.ver), found)
  OBVIOUS
<1>2. /\ c \in pg.ctls /\ c.run = i /\ pg.state = "loaded" /\ pg.pending
      /\ c.step # "sent" => c.ver <= d[i].ver
      /\ c.step = "waiting" => InFlight(pg) /\ RowDue(pg, NoLess(c.ver))
      /\ \A e \in pg.ctls : e.here => e = c
  BY <1>1 DEF Progressed, CtlsGood
<1>3. q.pending
  <2>1. CASE q.pending = pg.pending
    BY <1>2, <2>1
  <2>2. CASE q.pending # pg.pending
    <3>1. PICK e \in pg.ctls \ q.ctls : e.here
      BY <1>1, <2>2 DEF Progressed
    <3> QED
      BY <1>2, <3>1
  <2> QED
    BY <2>1, <2>2
<1>4. c.step = "waiting" => InFlight(q) /\ RowDue(q, NoLess(c.ver))
  BY <1>1, <1>2 DEF Progressed
<1>5. q.state = "loaded" /\ \A e \in q.ctls : e.here => e = c
  BY <1>1, <1>2 DEF Progressed, SameView
<1> QED
  BY <1>2, <1>3, <1>4, <1>5

LEMMA CtlsLater ==
  ASSUME NEW pg \in Page, NEW i \in Runs, NEW d \in [Runs -> Snapshot],
         NEW e \in [Runs -> Snapshot], CtlsGood(pg, i, d), e[i].ver >= d[i].ver
  PROVE  CtlsGood(pg, i, e)
<1>1. \A c \in pg.ctls : c.ver \in Nat
  BY PageFields DEF Control
<1>2. d[i].ver \in Nat /\ e[i].ver \in Nat
  BY DEF Snapshot
<1>3. \A c \in pg.ctls : c.ver <= d[i].ver => c.ver <= e[i].ver
  BY <1>1, <1>2
<1> QED
  BY <1>3 DEF CtlsGood

(* A step of the page alone                                                 *)
LEMMA PageStepDue ==
  ASSUME DueInv, UNCHANGED <<db, stream, id, rendered>>,
         GateGood(page'), CtlsGood(page', id, db),
         stream.es = "open" =>
           /\ page'.state = "loaded"
           /\ RowDue(page, {db[id]}) => RowDue(page', {db[id]})
           /\ ListDue(page, db[id].found) => ListDue(page', db[id].found)
  PROVE  DueInv'
<1>1. Wired'
  BY DEF DueInv, Wired
<1>2. Watched'
  BY DEF DueInv, Watched
<1> QED
  BY <1>1, <1>2 DEF DueInv

LEMMA ProgressStepDue ==
  ASSUME DueInv, UNCHANGED <<db, stream, id, rendered>>,
         NEW next, next.state = page.state, CtlsGood(next, id, db),
         RowDue(page, {db[id]}) => RowDue(next, {db[id]}),
         ListDue(page, db[id].found) => ListDue(next, db[id].found),
         \A rows : Progressed(page', next, rows, db[id].found)
  PROVE  DueInv'
<1>1. CtlsGood(page', id, db)
  BY CtlsProgressed
<1>2. Progressed(page', next, {db[id]}, db[id].found)
  OBVIOUS
<1> QED
  BY <1>1, <1>2, PageStepDue DEF Progressed, SameView, DueInv, Watched

(* A step that leaves what is due as it is                                  *)
LEMMA SameStepDue ==
  ASSUME DueInv, UNCHANGED <<db, stream, id, rendered>>, SameDue(page', page),
         CtlsGood(page', id, db)
  PROVE  DueInv'
<1>1. GateGood(page')
  BY SameDueKeeps DEF DueInv
<1>2. /\ RowDue(page, {db[id]}) => RowDue(page', {db[id]})
      /\ ListDue(page, db[id].found) => ListDue(page', db[id].found)
  BY SameDueKeeps
<1>3. page'.state = page.state
  BY DEF SameDue, SameView
<1> QED
  BY <1>1, <1>2, <1>3, PageStepDue DEF DueInv, Watched

(* A change of a run, and the event that tells of it                        *)
LEMMA EmitDue ==
  ASSUME IInv, DueInv, NEW r \in Runs, NEW event \in {"light", "heavy", "settled"},
         stream' = Emit(r, event), UNCHANGED <<id, rendered>>, SameDue(page', page),
         \A o \in Runs : o # r => db'[o] = db[o],
         event # "settled" => db'[r].status = db[r].status,
         event = "light" => db'[r].found = db[r].found
  PROVE  Wired' /\ Watched' /\ GateGood(page')
<1> DEFINE Events == {"open", "light", "heavy", "settled"}
           wire   == Append(stream.wire, event)
<1>1. stream \in Stream /\ id \in Runs
  BY PageOf
<1>2. GateGood(page') /\ page'.state = page.state
  BY SameDueKeeps DEF DueInv, SameDue, SameView
<1>3. /\ RowDue(page, {db[id]}) => RowDue(page', {db[id]})
      /\ ListDue(page, db[id].found) => ListDue(page', db[id].found)
  BY SameDueKeeps
<1>4. CASE r # id
  <2>1. stream' = stream /\ db'[id] = db[id]
    BY <1>1, <1>4 DEF Emit
  <2> QED
    BY <1>2, <1>3, <2>1 DEF DueInv, Wired, Watched
<1>5. CASE r = id /\ ~stream.sub
  <2>1. stream' = stream
    BY <1>5 DEF Emit
  <2>2. stream.es = "open" =>
          /\ Len(stream.wire) > 0
          /\ \E k \in 1 .. Len(stream.wire) : stream.wire[k] # "light"
    <3>1. stream.wire \in Seq(Events)
      BY <1>1 DEF Stream
    <3>2. Len(stream.wire) \in Nat
      BY <3>1
    <3> QED
      BY <1>5, <3>2 DEF DueInv, Wired
  <2> QED
    BY <1>2, <1>5, <2>1, <2>2 DEF DueInv, Wired, Watched
<1>6. CASE r = id /\ stream.sub
  <2>1. stream.wire \in Seq(Events)
    BY <1>1 DEF Stream
  <2>2. stream' = [stream EXCEPT !.wire = wire, !.sub = event # "settled"]
    BY <1>6 DEF Emit
  <2>3. stream'.es = stream.es /\ stream'.wire = wire /\ stream'.sub = (event # "settled")
    <3> HIDE DEF wire
    <3> QED
      BY <1>1, <2>2 DEF Stream
  <2>4. /\ Len(wire) = Len(stream.wire) + 1 /\ Len(stream.wire) \in Nat
        /\ wire[Len(wire)] = event
        /\ \A k \in 1 .. Len(stream.wire) : wire[k] = stream.wire[k]
    BY <2>1
  <2> HIDE DEF wire
  <2>5. Wired'
    <3>1. /\ stream.es = "open" /\ db[id].status = "running"
          /\ ~rendered'.enabled => stream.es = "none"
      BY <1>6 DEF DueInv, Wired
    <3>2. CASE event = "settled"
      <4>1. stream'.sub = FALSE
        BY <2>3, <3>2
      <4> QED
        BY <2>3, <2>4, <3>1, <3>2, <4>1 DEF Wired
    <3>3. CASE event # "settled"
      <4>1. stream'.sub = TRUE /\ db'[id].status = "running"
        BY <1>6, <2>3, <3>1, <3>3
      <4> QED
        BY <2>3, <3>1, <4>1 DEF Wired
    <3> QED
      BY <3>2, <3>3
  <2>6. CASE event = "light"
    <3>1. db'[id].found = db[id].found
      BY <1>6, <2>6
    <3>2. (\E k \in 1 .. Len(stream.wire) : stream.wire[k] # "light") =>
            \E k \in 1 .. Len(wire) : wire[k] # "light"
      BY <2>4
    <3> QED
      BY <1>2, <1>3, <2>3, <2>4, <2>5, <3>1, <3>2 DEF DueInv, Watched
  <2>7. CASE event # "light"
    <3>1. \E k \in 1 .. Len(wire) : wire[k] # "light"
      BY <2>4, <2>7
    <3> QED
      BY <1>2, <2>3, <2>4, <2>5, <3>1 DEF DueInv, Watched
  <2> QED
    BY <2>6, <2>7
<1> QED
  BY <1>4, <1>5, <1>6

LEMMA InitDue == Init => DueInv
<1> SUFFICES ASSUME Init
             PROVE  DueInv
  OBVIOUS
<1> DEFINE p == NewPass("initial", id)
<1>1. p.kind = "initial" /\ p.here
  BY DEF NewPass
<1>2. page.passes = {p} /\ page.dirty = "none" /\ page.ctls = {}
  BY DEF Init
<1> HIDE DEF p
<1>3. GateGood(page) /\ CtlsGood(page, id, db)
  BY <1>1, <1>2 DEF GateGood, Mine, CtlsGood
<1>4. Wired /\ Watched
  BY DEF Init, NoStream, Wired, Watched
<1> QED
  BY <1>3, <1>4 DEF DueInv

(* What a change leaves of a run's snapshot, besides the list               *)
LEMMA VersionChanged ==
  ASSUME NEW s \in Snapshot
  PROVE  /\ s.ver \in Nat
         /\ Counted(s) \in Snapshot /\ Counted(s).ver = s.ver + 1
         /\ Counted(s).status = s.status /\ Counted(s).found = s.found
         /\ Extended(s) \in Snapshot /\ Extended(s).ver = s.ver + 1
         /\ Extended(s).status = s.status
         /\ AtRest(s) \in Snapshot /\ AtRest(s).ver = s.ver + 1
         /\ Resumed(s) \in Snapshot /\ Resumed(s).ver = s.ver + 1
<1>1. /\ s.ver \in Nat /\ s.found \in Nat
      /\ Counted(s) \in Snapshot /\ Counted(s).ver = s.ver + 1
      /\ Counted(s).status = s.status /\ Counted(s).found = s.found
  BY DEF Snapshot, Counted
<1>2. /\ Extended(s) \in Snapshot /\ Extended(s).ver = s.ver + 1
      /\ Extended(s).status = s.status
  BY <1>1 DEF Snapshot, Extended
<1>3. AtRest(s) \in Snapshot /\ AtRest(s).ver = s.ver + 1
  BY <1>1 DEF Snapshot, AtRest
<1>4. Resumed(s) \in Snapshot /\ Resumed(s).ver = s.ver + 1
  BY <1>1 DEF Snapshot, Resumed
<1> QED
  BY <1>1, <1>2, <1>3, <1>4

LEMMA ChangeDue ==
  ASSUME IInv, DueInv, NEW r \in Runs, Change(r)
  PROVE  DueInv'
<1>1. UNCHANGED <<id, page, rendered>>
  BY DEF Change
<1>2. SameDue(page', page)
  BY <1>1 DEF SameDue, SameView
<1>3. /\ \A q \in Runs : db[q] \in Snapshot
      /\ db[r].ver \in Nat /\ db \in [Runs -> Snapshot]
  BY PageOf DEF Snapshot
<1>4. PICK event \in {"light", "heavy", "settled"} :
        /\ stream' = Emit(r, event)
        /\ db' \in [Runs -> Snapshot]
        /\ \A o \in Runs : o # r => db'[o] = db[o]
        /\ db'[r].ver = db[r].ver + 1
        /\ event # "settled" => db'[r].status = db[r].status
        /\ event = "light" => db'[r].found = db[r].found
  <2>1. CASE db' = [db EXCEPT ![r].ver = @ + 1] /\ stream' = Emit(r, "light")
    BY <1>3, <2>1 DEF Snapshot
  <2>2. CASE /\ db' = [db EXCEPT ![r].ver = @ + 1, ![r].found = @ + 1]
             /\ stream' = Emit(r, "heavy")
    <3>1. db' = [db EXCEPT ![r] = Extended(db[r])]
      BY <1>3, <2>2 DEF Counted, Extended, Snapshot
    <3>2. db' \in [Runs -> Snapshot] /\ db'[r] = Extended(db[r])
      BY <1>3, <3>1, VersionChanged
    <3> QED
      BY <1>3, <2>2, <3>1, <3>2, VersionChanged
  <2>3. CASE /\ db' = [db EXCEPT ![r].ver = @ + 1, ![r].status = "rest"]
             /\ stream' = Emit(r, "settled")
    <3>1. db' = [db EXCEPT ![r] = AtRest(db[r])]
      BY <1>3, <2>3 DEF Counted, AtRest, Snapshot
    <3>2. db' \in [Runs -> Snapshot] /\ db'[r] = AtRest(db[r])
      BY <1>3, <3>1, VersionChanged
    <3> QED
      BY <1>3, <2>3, <3>1, <3>2, VersionChanged
  <2> QED
    BY <2>1, <2>2, <2>3 DEF Change
<1>5. Wired' /\ Watched' /\ GateGood(page')
  BY <1>1, <1>2, <1>4, EmitDue
<1>6. db'[id].ver >= db[id].ver
  BY <1>3, <1>4, PageOf DEF Snapshot
<1>7. CtlsGood(page', id, db')
  BY <1>1, <1>4, <1>6, PageOf, CtlsLater DEF DueInv
<1> QED
  BY <1>1, <1>5, <1>7 DEF DueInv

(* Only the notice about the stream changes.                                *)
LEMMA ConnDue ==
  ASSUME IInv, DueInv,
         \/ page' = page
         \/ \E conn \in {"open", "reconnecting", "closed"} : page' = [page EXCEPT !.conn = conn]
  PROVE  /\ GateGood(page') /\ CtlsGood(page', id, db) /\ page' \in Page
         /\ SameDue(page', page)
<1>1. /\ SameDue(page', page) /\ SameShown(page', page) /\ page' \in Page
  BY PageOf DEF SameDue, SameShown, SameView, Page
<1>2. GateGood(page')
  BY <1>1, SameDueKeeps DEF DueInv
<1>3. /\ InFlight(page) => InFlight(page')
      /\ \A c \in page.ctls : RowDue(page, NoLess(c.ver)) => RowDue(page', NoLess(c.ver))
  BY <1>1, SameDueKeeps
<1>4. CtlsGood(page', id, db)
  BY <1>1, <1>3, CtlsKept DEF DueInv, SameShown, SameView
<1> QED
  BY <1>1, <1>2, <1>4

LEMMA RestartDue ==
  ASSUME IInv, DueInv, Restart
  PROVE  DueInv'
<1>1. UNCHANGED <<id, rendered>>
  BY DEF Restart
<1>2. \/ page' = page
      \/ \E conn \in {"open", "reconnecting", "closed"} : page' = [page EXCEPT !.conn = conn]
  BY DEF Restart
<1>3. GateGood(page') /\ CtlsGood(page', id, db) /\ page' \in Page
  BY <1>2, ConnDue
<1>4. db' \in [Runs -> Snapshot] /\ db'[id].ver >= db[id].ver
  <2> DEFINE Down(q) == IF db[q].status = "rest" THEN db[q] ELSE AtRest(db[q])
  <2>1. db' = [q \in Runs |-> Down(q)]
    BY DEF Restart, AtRest, Counted
  <2>2. ASSUME NEW q \in Runs
        PROVE  Down(q) \in Snapshot /\ Down(q).ver >= db[q].ver
    BY PageOf, VersionChanged
  <2> HIDE DEF Down
  <2> QED
    BY <2>1, <2>2, PageOf
<1>5. CtlsGood(page', id, db')
  BY <1>3, <1>4, PageOf, CtlsLater
<1>6. Wired' /\ Watched'
  <2>1. /\ stream'.es # "open" /\ ~stream'.sub
        /\ ~rendered'.enabled => stream'.es = "none"
    <3>1. CASE stream.es = "open"
      <4>1. stream' = Connecting /\ rendered.enabled
        BY <3>1 DEF Restart, DueInv, Wired
      <4> QED
        BY <1>1, <4>1 DEF Connecting
    <3>2. CASE stream.es # "open"
      <4>1. stream' = stream
        BY <3>2 DEF Restart
      <4> QED
        BY <1>1, <3>2, <4>1 DEF DueInv, Wired
    <3> QED
      BY <3>1, <3>2
  <2> QED
    BY <2>1 DEF Wired, Watched
<1> QED
  BY <1>1, <1>3, <1>5, <1>6 DEF DueInv

LEMMA OneAlive ==
  ASSUME IInv
  PROVE  /\ page \in Page /\ page.passes \in SUBSET Pass
         /\ \A a, b \in page.passes : a.live /\ b.live => a = b
         /\ \A p \in page.passes : p.live => p.run = id
         /\ \A p \in page.passes : p.live /\ p.kind = "initial" => page.state = "loading"
  BY PageOf DEF PageGood, PassesGood, Owned, FirstLoads

LEMMA ReadDue ==
  ASSUME IInv, DueInv, NEW p \in page.passes, NEW part \in {"row", "list"}, Read(p, part)
  PROVE  DueInv'
<1> DEFINE q == [p EXCEPT ![part] = db[p.run]]
<1>1. p \in Pass
  BY OneAlive
<1>2. /\ q.live = p.live /\ q.here = p.here /\ q.kind = p.kind
      /\ q.light = p.light /\ q.heavy = p.heavy
      /\ q.row = p.row \/ q.row = db[p.run]
      /\ q.list = p.list \/ q.list = db[p.run]
  BY <1>1 DEF Pass
<1>3. page' = [page EXCEPT !.passes = (page.passes \ {p}) \cup {q}]
  BY DEF Read
<1> HIDE DEF q
<1>4. /\ SameShown(page', page) /\ page'.passes = (page.passes \ {p}) \cup {q}
      /\ page'.dirty = page.dirty /\ page'.fresh = page.fresh
      /\ page'.autoErr = page.autoErr /\ page'.manErr = page.manErr
  BY <1>3, PageOf DEF Page, SameShown, SameView
<1>5. InFlight(page') <=> InFlight(page)
  BY <1>2, <1>4 DEF InFlight
<1>6. GateGood(page')
  BY <1>2, <1>4, <1>5 DEF DueInv, GateGood, Mine, SameShown, SameView
<1>7. Mine(p) => p.run = id
  BY OneAlive DEF DueInv, GateGood
<1>8. ASSUME NEW rows, db[id] \in rows, RowDue(page, rows)
      PROVE  RowDue(page', rows)
  BY <1>2, <1>4, <1>5, <1>7, <1>8 DEF RowDue, Mine, SameShown, SameView
<1>9. ListDue(page, db[id].found) => ListDue(page', db[id].found)
  BY <1>2, <1>4, <1>7 DEF ListDue, ListOut, Mine, SameShown, SameView
<1>10. \A c \in page.ctls : c.here /\ c.step = "waiting" => db[id] \in NoLess(c.ver)
  <2>1. db[id] \in Snapshot /\ db[id].ver \in Nat /\ \A c \in page.ctls : c.ver \in Nat
    BY PageOf, PageFields DEF Snapshot, Control
  <2> QED
    BY <2>1 DEF DueInv, CtlsGood, NoLess
<1>11. CtlsGood(page', id, db)
  BY <1>4, <1>5, <1>8, <1>10 DEF DueInv, CtlsGood, SameShown, SameView
<1>12. UNCHANGED <<db, stream, id, rendered>>
  BY DEF Read
<1> QED
  BY <1>4, <1>6, <1>8, <1>9, <1>11, <1>12, PageStepDue DEF DueInv, Watched, SameShown, SameView

LEMMA ServeControlDue ==
  ASSUME IInv, DueInv, NEW c \in page.ctls, ServeControl(c)
  PROVE  DueInv'
<1> DEFINE served == [c EXCEPT !.step = "answered", !.ver = db'[c.run].ver]
           ctls == (page.ctls \ {c}) \cup {served}
<1>1. c \in Control /\ c.run \in Runs /\ page.ctls \in SUBSET Control
  BY PageOf, PageFields DEF Control
<1>2. db[c.run] \in Snapshot /\ db[c.run].ver \in Nat /\ db \in [Runs -> Snapshot]
  BY <1>1, PageOf DEF Snapshot
<1>3. UNCHANGED <<id, rendered>> /\ page' = [page EXCEPT !.ctls = ctls]
  BY DEF ServeControl
<1>4. /\ db' \in [Runs -> Snapshot]
      /\ \A o \in Runs : o # c.run => db'[o] = db[o]
      /\ db'[c.run].ver >= db[c.run].ver
      /\ \/ /\ db'[c.run].status = db[c.run].status /\ db'[c.run].found = db[c.run].found
            /\ stream' = Emit(c.run, "light")
         \/ db[c.run].status = "rest" /\ stream' = stream
         \/ db' = db /\ stream' = stream
  <2>1. CASE db' = [db EXCEPT ![c.run].ver = @ + 1] /\ stream' = Emit(c.run, "light")
    BY <1>1, <1>2, <2>1 DEF Snapshot
  <2>2. CASE /\ db[c.run].status = "rest" /\ stream' = stream
             /\ db' = [db EXCEPT ![c.run].ver = @ + 1, ![c.run].status = "running"]
    BY <1>1, <1>2, <2>2 DEF Snapshot
  <2>3. CASE db' = db /\ stream' = stream
    BY <1>2, <2>3
  <2> QED
    BY <2>1, <2>2, <2>3 DEF ServeControl
<1>5. served.here = c.here /\ served.run = c.run /\ served.step = "answered"
      /\ served.ver = db'[c.run].ver /\ served \in Control
  <2>1. db'[c.run].ver \in Nat
    BY <1>1, <1>4 DEF Snapshot
  <2> QED
    BY <1>1, <2>1 DEF Control
<1> HIDE DEF served
<1>6. ctls \in SUBSET Control
  BY <1>1, <1>5
<1>7. /\ SameDue(page', page) /\ page'.ctls = ctls /\ page'.pending = page.pending
      /\ page' \in Page
  <2> HIDE DEF ctls
  <2> QED
    BY <1>3, <1>6, PageOf DEF Page, SameDue, SameView
<1>8. CtlsGood(page, id, db')
  <2>1. db'[id].ver >= db[id].ver
    BY <1>2, <1>4, PageOf DEF Snapshot
  <2> QED
    BY <1>4, <2>1, PageOf, CtlsLater DEF DueInv
<1>9. CtlsGood(page', id, db')
  <2>1. /\ InFlight(page) => InFlight(page')
        /\ \A rows : RowDue(page, rows) => RowDue(page', rows)
        /\ page'.state = page.state
    BY <1>7, SameDueKeeps DEF SameDue, SameView
  <2>2. \A r \in Runs : db'[r].ver <= db'[r].ver
    BY <1>4 DEF Snapshot
  <2>3. /\ c.here => c.run = id /\ page.state = "loaded" /\ page.pending
      /\ \A e \in page.ctls : c.here /\ e.here => e = c
    BY <1>8 DEF CtlsGood
  <2>4. ASSUME NEW e \in page.ctls, e # c, e.here
        PROVE  ~c.here
    BY <2>3, <2>4
  <2>5. ASSUME NEW e \in page'.ctls, e.here
        PROVE  /\ e.run = id /\ page'.state = "loaded" /\ page'.pending
               /\ e.step # "sent" => e.ver <= db'[id].ver
               /\ e.step = "waiting" => InFlight(page') /\ RowDue(page', NoLess(e.ver))
               /\ \A f \in page'.ctls : f.here => f = e
    <3>1. CASE e = served
      BY <1>1, <1>5, <1>7, <2>1, <2>2, <2>3, <2>4, <2>5, <3>1
    <3>2. CASE e \in page.ctls /\ e # c
      BY <1>5, <1>7, <1>8, <2>1, <2>4, <2>5, <3>2 DEF CtlsGood
    <3> QED
      BY <1>7, <2>5, <3>1, <3>2
  <2> QED
    BY <2>5 DEF CtlsGood
<1>10. Wired' /\ Watched' /\ GateGood(page')
  <2>1. CASE /\ db'[c.run].status = db[c.run].status /\ db'[c.run].found = db[c.run].found
             /\ stream' = Emit(c.run, "light")
    BY <1>1, <1>3, <1>4, <1>7, <2>1, EmitDue
  <2>2. CASE db' = db /\ stream' = stream
    <3>1. /\ RowDue(page, {db[id]}) => RowDue(page', {db[id]})
          /\ ListDue(page, db[id].found) => ListDue(page', db[id].found)
          /\ GateGood(page') /\ page'.state = page.state
      BY <1>7, SameDueKeeps DEF DueInv, SameDue, SameView
    <3> QED
      BY <1>3, <2>2, <3>1 DEF DueInv, Wired, Watched
  <2>3. CASE db[c.run].status = "rest" /\ stream' = stream
    <3>1. /\ RowDue(page, {db[id]}) => RowDue(page', {db[id]})
          /\ ListDue(page, db[id].found) => ListDue(page', db[id].found)
          /\ GateGood(page') /\ page'.state = page.state
      BY <1>7, SameDueKeeps DEF DueInv, SameDue, SameView
    <3>2. CASE c.run # id
      <4>1. db'[id] = db[id]
        BY <1>4, <3>2, PageOf
      <4> QED
        BY <1>3, <2>3, <3>1, <4>1 DEF DueInv, Wired, Watched
    <3>3. CASE c.run = id
      <4>1. ~stream.sub
        BY <2>3, <3>3 DEF DueInv, Wired
      <4>2. Len(stream.wire) \in Nat
        BY PageOf DEF Stream
      <4>3. stream.es = "open" => \E k \in 1 .. Len(stream.wire) : stream.wire[k] # "light"
        BY <4>1, <4>2 DEF DueInv, Wired
      <4> QED
        BY <1>3, <2>3, <3>1, <4>1, <4>3 DEF DueInv, Wired, Watched
    <3> QED
      BY <3>2, <3>3
  <2> QED
    BY <1>4, <2>1, <2>2, <2>3
<1> QED
  BY <1>3, <1>9, <1>10 DEF DueInv

LEMMA AcceptDue ==
  ASSUME IInv, DueInv, Accept
  PROVE  DueInv'
<1>1. UNCHANGED <<db, id, page, rendered>> /\ stream.es = "connecting" /\ Rendered
  BY DEF Accept
<1>2. rendered.enabled = Enabled(page)
  BY <1>1 DEF Rendered, Rendering
<1>3. page.state = "loaded" /\ rendered.enabled
  BY <1>1, <1>2 DEF DueInv, Wired, Enabled, Supported
<1>4. /\ stream'.es = "open" /\ Len(stream'.wire) > 0 /\ stream'.wire[1] = "open"
      /\ stream'.sub => db[id].status = "running"
      /\ ~stream'.sub => stream'.wire[Len(stream'.wire)] = "settled"
      /\ Len(stream'.wire) \in Nat
  <2>1. CASE db[id].status = "running"
    BY <2>1 DEF Accept
  <2>2. CASE db[id].status # "running"
    BY <2>2 DEF Accept
  <2> QED
    BY <2>1, <2>2
<1>5. \E k \in 1 .. Len(stream'.wire) : stream'.wire[k] # "light"
  BY <1>4
<1> QED
  BY <1>1, <1>3, <1>4, <1>5 DEF DueInv, Wired, Watched

LEMMA StreamFailsDue ==
  ASSUME IInv, DueInv, StreamFails
  PROVE  DueInv'
<1>1. UNCHANGED <<db, id, rendered>>
  BY DEF StreamFails
<1>2. \E conn \in {"open", "reconnecting", "closed"} : page' = [page EXCEPT !.conn = conn]
  BY DEF StreamFails
<1>3. GateGood(page') /\ CtlsGood(page', id, db)
  BY <1>2, ConnDue
<1>4. stream.es # "none" /\ stream'.es # "open" /\ stream'.sub = FALSE
  BY DEF StreamFails, Connecting
<1>5. Wired' /\ Watched'
  BY <1>1, <1>4 DEF DueInv, Wired, Watched
<1> QED
  BY <1>1, <1>3, <1>5 DEF DueInv

-----------------------------------------------------------------------------
(* The browser's steps, and the user's                                      *)

(* A refresh is asked for                                                   *)
LEMMA RequestStep ==
  ASSUME IInv, DueInv, page.state = "loaded",
         NEW pg \in Page, SameDue(pg, page), pg.ctls = page.ctls, pg.pending = page.pending,
         NEW kind \in Kinds, NEW source, page' = RequestRefresh(pg, kind, source)
  PROVE  /\ GateGood(page') /\ CtlsGood(page', id, db)
         /\ page'.state = "loaded" /\ page'.pending = page.pending
         /\ RowDue(page', {db[id]})
         /\ kind = "heavy" \/ ListDue(page, db[id].found) => ListDue(page', db[id].found)
<1>1. /\ GateGood(pg) /\ pg.state = "loaded"
      /\ ListDue(page, db[id].found) => ListDue(pg, db[id].found)
  BY SameDueKeeps DEF DueInv, SameDue, SameView
<1>2. ASSUME NEW rows
      PROVE  /\ SameShown(page', pg) /\ GateGood(page') /\ InFlight(page') /\ RowDue(page', rows)
             /\ kind = "heavy" \/ ListDue(pg, db[id].found) => ListDue(page', db[id].found)
  BY <1>1, PageOf, RequestRefreshDue
<1>3. CtlsGood(page', id, db)
  BY <1>1, <1>2, CtlsKept DEF DueInv, SameShown, SameView, SameDue
<1> QED
  BY <1>1, <1>2, <1>3 DEF SameShown, SameView

LEMMA DeliverDue ==
  ASSUME IInv, DueInv, Deliver
  PROVE  DueInv' /\ page'.pending = page.pending
<1> DEFINE event  == Head(stream.wire)
           ended  == [page EXCEPT !.ended = TRUE]
           opened == [page EXCEPT !.conn = "open"]
           Events == {"open", "light", "heavy", "settled"}
<1>1. /\ UNCHANGED <<db, id, rendered>>
      /\ stream.es = "open" /\ page.state = "loaded" /\ rendered.enabled
  BY DEF Deliver, DueInv, Watched, Wired
<1>2. stream \in Stream /\ stream.wire \in Seq(Events) /\ stream.wire # <<>>
  BY PageOf DEF Deliver, Stream
<1>3. event \in Events /\ event = stream.wire[1] /\ Len(stream.wire) \in Nat /\ Len(stream.wire) > 0
  BY <1>2
<1>4. /\ page \in Page /\ SameDue(page, page)
      /\ ended \in Page /\ SameDue(ended, page) /\ ended.ctls = page.ctls
      /\ ended.pending = page.pending
      /\ opened \in Page /\ SameDue(opened, page) /\ opened.ctls = page.ctls
      /\ opened.pending = page.pending
  BY PageOf DEF Page, SameDue, SameView
<1>5. /\ page' = IF event = "settled" THEN RequestRefresh(ended, "heavy", "auto")
                 ELSE IF event = "open" THEN RequestRefresh(opened, "heavy", "auto")
                 ELSE RequestRefresh(page, event, "auto")
      /\ stream' = IF event = "settled" THEN NoStream
                   ELSE [stream EXCEPT !.wire = Tail(stream.wire)]
  BY DEF Deliver
<1> HIDE DEF ended, opened, event
<1>6. PICK kind \in Kinds, pg \in {ended, opened, page} :
        /\ page' = RequestRefresh(pg, kind, "auto")
        /\ event # "light" => kind = "heavy"
  BY <1>3, <1>5 DEF Kinds
<1>7. /\ GateGood(page') /\ CtlsGood(page', id, db)
      /\ page'.state = "loaded" /\ page'.pending = page.pending
      /\ RowDue(page', {db[id]})
      /\ kind = "heavy" \/ ListDue(page, db[id].found) => ListDue(page', db[id].found)
  BY <1>1, <1>4, <1>6, RequestStep
<1>8. CASE event = "settled"
  <2>1. Wired' /\ Watched'
    BY <1>1, <1>5, <1>8 DEF NoStream, Wired, Watched
  <2> QED
    BY <1>1, <1>7, <2>1 DEF DueInv
<1>9. CASE event # "settled"
  <2> DEFINE wire == Tail(stream.wire)
  <2>1. /\ Len(wire) = Len(stream.wire) - 1
        /\ \A k \in 1 .. Len(wire) : wire[k] = stream.wire[k + 1]
    BY <1>2, <1>3
  <2>2. stream'.wire = wire /\ stream'.es = "open" /\ stream'.sub = stream.sub
    <3>1. stream' = [stream EXCEPT !.wire = wire]
      BY <1>5, <1>9
    <3> HIDE DEF wire
    <3> QED
      BY <1>1, <1>2, <3>1 DEF Stream
  <2> HIDE DEF wire
  <2>3. Wired'
    <3>1. ASSUME ~stream.sub
          PROVE  Len(wire) > 0 /\ wire[Len(wire)] = "settled"
      <4>1. stream.wire[Len(stream.wire)] = "settled"
        BY <1>1, <3>1 DEF DueInv, Wired
      <4>2. Len(stream.wire) # 1
        BY <1>3, <1>9, <4>1
      <4>3. Len(wire) \in Nat \ {0} /\ Len(wire) + 1 = Len(stream.wire)
        BY <1>3, <2>1, <4>2
      <4>4. PICK n \in Nat \ {0} : n = Len(wire)
        BY <4>3
      <4>5. n \in 1 .. Len(wire)
        BY <4>4
      <4>6. wire[n] = stream.wire[n + 1]
        BY <2>1, <4>5
      <4> QED
        BY <4>1, <4>3, <4>4, <4>6
    <3> QED
      BY <1>1, <2>2, <3>1 DEF DueInv, Wired
  <2>4. \/ \E k \in 1 .. Len(wire) : wire[k] # "light"
        \/ ListDue(page', db[id].found)
    <3>1. CASE event # "light"
      BY <1>6, <1>7, <3>1
    <3>2. CASE event = "light" /\ \E k \in 1 .. Len(stream.wire) : stream.wire[k] # "light"
      <4>1. PICK k \in 1 .. Len(stream.wire) : stream.wire[k] # "light"
        BY <3>2
      <4>2. k # 1
        BY <1>3, <3>2, <4>1
      <4>3. k - 1 \in 1 .. Len(wire) /\ (k - 1) + 1 = k
        BY <1>3, <2>1, <4>2
      <4>4. wire[k - 1] = stream.wire[(k - 1) + 1]
        BY <2>1, <4>3
      <4> QED
        BY <4>1, <4>3, <4>4
    <3>3. CASE ~\E k \in 1 .. Len(stream.wire) : stream.wire[k] # "light"
      BY <1>1, <1>7, <3>3 DEF DueInv, Watched
    <3> QED
      BY <3>1, <3>2, <3>3
  <2>5. Watched'
    BY <1>1, <1>7, <2>2, <2>4 DEF Watched
  <2> QED
    BY <1>1, <1>7, <2>3, <2>5 DEF DueInv
<1> QED
  BY <1>8, <1>9

LEMMA RenderDue ==
  ASSUME IInv, DueInv, Render
  PROVE  DueInv' /\ page'.pending = page.pending
<1>1. UNCHANGED <<db, id>> /\ rendered'.enabled = Enabled(page)
  BY DEF Render, Rendering
<1>2. /\ SameDue(page', page) /\ page'.ctls = page.ctls /\ page'.pending = page.pending
  BY PageOf DEF Render, Page, SameDue, SameView
<1>3. /\ GateGood(page') /\ page'.state = page.state
      /\ InFlight(page) => InFlight(page')
      /\ \A rows : RowDue(page, rows) => RowDue(page', rows)
      /\ ListDue(page, db[id].found) => ListDue(page', db[id].found)
  BY <1>2, SameDueKeeps DEF DueInv, SameDue, SameView
<1>4. CtlsGood(page', id, db)
  BY <1>2, <1>3, CtlsKept DEF DueInv
<1>5. CASE stream' = stream /\ Enabled(page) = rendered.enabled
  BY <1>1, <1>2, <1>3, <1>4, <1>5 DEF DueInv, Wired, Watched
<1>6. CASE stream' = IF Enabled(page) THEN Connecting ELSE NoStream
  <2>1. Wired' /\ Watched'
    BY <1>1, <1>6 DEF Wired, Watched, Connecting, NoStream
  <2> QED
    BY <1>1, <1>2, <1>3, <1>4, <2>1 DEF DueInv
<1> QED
  BY <1>5, <1>6 DEF Render

LEMMA MoveDue ==
  ASSUME IInv, DueInv, NEW r \in Runs, Move(r)
  PROVE  DueInv'
<1> DEFINE ps   == {[p EXCEPT !.here = FALSE] : p \in page.passes}
           ctls == {[c EXCEPT !.here = FALSE] : c \in page.ctls}
           away == [page EXCEPT !.passes = ps, !.ctls = ctls, !.dirty = "none", !.loud = FALSE]
           new  == NewPass("initial", r)
<1>1. /\ rendered'.enabled = Enabled(page) /\ db' = db /\ id' = r
      /\ stream' = IF Enabled(page) THEN Connecting ELSE NoStream
  BY DEF Move, Rendering
<1>2. Wired' /\ Watched'
  BY <1>1 DEF Wired, Watched, Connecting, NoStream
<1>3. page' = FetchInitial(away, r)
  BY DEF Move
<1>4. ASSUME NEW c \in ctls
      PROVE  c.here = FALSE
  <2>1. PICK e \in page.ctls : c = [e EXCEPT !.here = FALSE]
    BY <1>4
  <2>2. e \in Control
    BY PageOf, PageFields
  <2> QED
    BY <2>1, <2>2 DEF Control
<1>5. \A s \in Superseded(ps) : s.live = FALSE /\ s.here = FALSE
  <2>1. ASSUME NEW s \in Superseded(ps)
        PROVE  s.live = FALSE /\ s.here = FALSE
    <3>1. PICK q \in ps : s = [q EXCEPT !.live = FALSE]
      BY <2>1 DEF Superseded
    <3>2. PICK p \in page.passes : q = [p EXCEPT !.here = FALSE]
      BY <3>1
    <3>3. p \in Pass
      BY OneAlive
    <3>4. q \in Pass /\ q.here = FALSE
      BY <3>2, <3>3 DEF Pass
    <3> QED
      BY <3>1, <3>4 DEF Pass
  <2> QED
    BY <2>1
<1>6. new.here /\ new.kind = "initial"
  BY DEF NewPass
<1> HIDE DEF ps, ctls, new
<1>7. /\ page'.passes = Superseded(ps) \cup {new} /\ page'.dirty = "none"
      /\ page'.ctls = ctls
  BY <1>3, PageOf DEF FetchInitial, Page, new
<1>8. GateGood(page') /\ CtlsGood(page', id', db')
  BY <1>4, <1>5, <1>6, <1>7 DEF GateGood, CtlsGood, Mine
<1> QED
  BY <1>2, <1>8 DEF DueInv

LEMMA RetryInitialDue ==
  ASSUME IInv, DueInv, RetryInitial
  PROVE  DueInv' /\ \A c \in page.ctls : ~c.here
<1> DEFINE new == NewPass("initial", id)
<1>1. /\ page.state = "error" /\ page' = FetchInitial(page, id)
      /\ UNCHANGED <<db, stream, id, rendered>>
  BY DEF RetryInitial
<1>2. /\ \A p \in page.passes : ~Mine(p)
      /\ \A c \in page.ctls : ~c.here
      /\ stream.es # "open"
  BY <1>1 DEF DueInv, GateGood, CtlsGood, Watched
<1>3. page.dirty = "none"
  BY <1>2 DEF DueInv, GateGood, InFlight, Mine
<1>4. \A s \in Superseded(page.passes) : s.live = FALSE /\ ~Mine(s)
  <2>1. ASSUME NEW s \in Superseded(page.passes)
        PROVE  s.live = FALSE /\ ~Mine(s)
    <3>1. PICK p \in page.passes : s = [p EXCEPT !.live = FALSE]
      BY <2>1 DEF Superseded
    <3>2. p \in Pass /\ ~Mine(p)
      BY <1>2, OneAlive
    <3> QED
      BY <3>1, <3>2 DEF Pass, Mine
  <2> QED
    BY <2>1
<1>5. new.here /\ new.kind = "initial"
  BY DEF NewPass
<1> HIDE DEF new
<1>6. /\ page'.passes = Superseded(page.passes) \cup {new} /\ page'.dirty = page.dirty
      /\ page'.ctls = page.ctls
  BY <1>1, PageOf DEF FetchInitial, Page, new
<1>7. GateGood(page') /\ CtlsGood(page', id, db)
  BY <1>2, <1>3, <1>4, <1>5, <1>6 DEF GateGood, CtlsGood, Mine
<1> QED
  BY <1>1, <1>2, <1>7, PageStepDue

LEMMA PressRefreshDue ==
  ASSUME IInv, DueInv, PressRefresh
  PROVE  DueInv' /\ page'.pending = page.pending
<1>1. /\ page.state = "loaded" /\ page' = RequestRefresh(page, "heavy", "manual")
      /\ UNCHANGED <<db, stream, id, rendered>>
  BY DEF PressRefresh
<1>2. SameDue(page, page) /\ "heavy" \in Kinds
  BY DEF SameDue, SameView, Kinds
<1>3. /\ GateGood(page') /\ CtlsGood(page', id, db)
      /\ page'.state = "loaded" /\ page'.pending = page.pending
      /\ RowDue(page', {db[id]}) /\ ListDue(page', db[id].found)
  BY <1>1, <1>2, PageOf, RequestStep
<1> QED
  BY <1>1, <1>3, PageStepDue

LEMMA PressControlDue ==
  ASSUME IInv, DueInv, PressControl
  PROVE  DueInv'
<1> DEFINE op   == IF page.row.status = "running" THEN "stop" ELSE "resume"
           c    == [op |-> op, run |-> id, here |-> TRUE, step |-> "sent", ver |-> 0]
<1>1. /\ page.state = "loaded" /\ ~page.pending
      /\ page' = [page EXCEPT !.pending = TRUE, !.ctls = page.ctls \cup {c}]
      /\ UNCHANGED <<db, stream, id, rendered>>
  BY DEF PressControl
<1>2. c.run = id /\ c.step = "sent"
  OBVIOUS
<1>3. \A e \in page.ctls : ~e.here
  BY <1>1 DEF DueInv, CtlsGood
<1> HIDE DEF c
<1>4. /\ SameDue(page', page) /\ page'.ctls = page.ctls \cup {c} /\ page'.pending
  BY <1>1, PageOf DEF Page, SameDue, SameView
<1>5. CtlsGood(page', id, db)
  BY <1>1, <1>2, <1>3, <1>4 DEF CtlsGood, SameDue, SameView
<1> QED
  BY <1>1, <1>4, <1>5, SameStepDue

LEMMA ControlAnsweredDue ==
  ASSUME IInv, DueInv, NEW c \in page.ctls, ControlAnswered(c)
  PROVE  DueInv' /\ page'.pending = page.pending
<1> DEFINE left  == [page EXCEPT !.ctls = page.ctls \ {c}]
           w     == [c EXCEPT !.step = "waiting"]
           ctls  == (page.ctls \ {c}) \cup {w}
           waits == [page EXCEPT !.ctls = ctls]
<1>1. UNCHANGED <<db, stream, id, rendered>> /\ c.step = "answered"
  BY DEF ControlAnswered
<1>2. page.ctls \in SUBSET Control /\ c \in Control
  BY PageOf, PageFields
<1>3. w \in Control /\ w.here = c.here /\ w.run = c.run /\ w.ver = c.ver /\ w.step = "waiting"
  BY <1>2 DEF Control
<1>4. left \in Page /\ SameDue(left, page) /\ left.pending = page.pending
      /\ left.ctls = page.ctls \ {c}
  BY <1>2, PageOf DEF Page, SameDue, SameView
<1>5. page' = IF ~c.here THEN left ELSE RequestRefresh(waits, "heavy", "auto")
  <2>1. [left EXCEPT !.ctls = left.ctls \cup {w}] = waits
    BY PageOf, <1>4 DEF Page
  <2> QED
    BY <2>1 DEF ControlAnswered
<1> HIDE DEF w, left
<1>6. waits \in Page /\ SameDue(waits, page) /\ waits.pending = page.pending
      /\ waits.ctls = ctls
  <2>1. ctls \in SUBSET Control
    BY <1>2, <1>3
  <2> HIDE DEF ctls
  <2> QED
    BY <2>1, PageOf DEF Page, SameDue, SameView
<1> HIDE DEF waits
<1>7. CASE ~c.here
  <2>1. page' = left
    BY <1>5, <1>7
  <2>2. /\ page'.state = page.state /\ (InFlight(page) => InFlight(page'))
        /\ \A rows : RowDue(page, rows) => RowDue(page', rows)
    BY <1>4, <2>1, SameDueKeeps DEF SameDue, SameView
  <2>3. CtlsGood(page', id, db)
    BY <1>4, <2>1, <2>2 DEF DueInv, CtlsGood
  <2> QED
    BY <1>1, <1>4, <2>1, <2>3, SameStepDue
<1>8. CASE c.here
  <2>1. /\ c.run = id /\ page.state = "loaded" /\ page.pending
        /\ c.ver <= db[id].ver /\ \A e \in page.ctls : e.here => e = c
    BY <1>1, <1>8 DEF DueInv, CtlsGood
  <2>2. GateGood(waits) /\ waits.state = "loaded"
    BY <1>6, <2>1, SameDueKeeps DEF DueInv, SameDue, SameView
  <2>3. ASSUME NEW rows
        PROVE  /\ SameShown(page', waits) /\ GateGood(page') /\ InFlight(page')
               /\ RowDue(page', rows) /\ ListDue(page', db[id].found)
    BY <1>5, <1>6, <1>8, <2>2, PageOf, RequestRefreshDue DEF Kinds
  <2>4. /\ page'.ctls = ctls /\ page'.pending = page.pending /\ page'.state = "loaded"
    BY <1>6, <2>2, <2>3 DEF SameShown, SameView
  <2>5. \A e \in ctls : e.here => e = w
    BY <2>1
  <2> HIDE DEF ctls
  <2>6. CtlsGood(page', id, db)
    BY <1>3, <2>1, <2>3, <2>4, <2>5 DEF CtlsGood
  <2> QED
    BY <1>1, <2>3, <2>4, <2>6, PageStepDue
<1> QED
  BY <1>7, <1>8

LEMMA PickDue ==
  ASSUME IInv, DueInv,
         \/ \E f \in Findings : SelectFinding(f)
         \/ \E hidden \in Filters : ChangeFilter(hidden)
  PROVE  DueInv' /\ page'.pending = page.pending
<1>1. UNCHANGED <<db, stream, id, rendered>>
  BY DEF SelectFinding, ChangeFilter
<1>2. \E any : page' = [page EXCEPT !.sel = any] \/ page' = [page EXCEPT !.hidden = any]
  BY DEF SelectFinding, ChangeFilter
<1>3. SameDue(page', page) /\ page'.ctls = page.ctls /\ page'.pending = page.pending
  BY <1>2, PageOf DEF Page, SameDue, SameView
<1>4. /\ page'.state = page.state /\ (InFlight(page) => InFlight(page'))
      /\ \A rows : RowDue(page, rows) => RowDue(page', rows)
  BY <1>3, SameDueKeeps DEF SameDue, SameView
<1>5. CtlsGood(page', id, db)
  BY <1>3, <1>4, CtlsKept DEF DueInv
<1> QED
  BY <1>1, <1>3, <1>5, SameStepDue

LEMMA DetailDue ==
  ASSUME DueInv, UNCHANGED <<db, stream, id, rendered, page>>
  PROVE  DueInv'
  BY DEF DueInv, Wired, Watched

(* One half of a refresh has been answered, or has failed.                  *)
LEMMA HalfDue ==
  ASSUME IInv, DueInv, UNCHANGED <<db, stream, id, rendered>>,
         NEW p \in page.passes, p.kind # "initial",
         NEW shown \in Page, shown.passes = page.passes, shown.state = page.state,
         shown.dirty = page.dirty, shown.ctls = page.ctls, shown.pending = page.pending,
         NEW q \in Pass, q.live = p.live, q.here = p.here, q.kind = p.kind,
         ~Mine(p) => shown = page,
         Mine(p) => \/ q.light = "failed"
                    \/ q.light = "ok" /\ p.light = "out" /\ p.row # None /\ shown.row = p.row
                    \/ q.light = p.light /\ q.row = p.row /\ shown.row = page.row,
         Mine(p) => \/ q.heavy = "failed" /\ shown.fresh = "failed"
                    \/ q.heavy = "ok" /\ ListOut(p) /\ p.list # None /\ shown.list = p.list
                    \/ /\ q.heavy = p.heavy /\ q.list = p.list
                       /\ shown.list = page.list /\ shown.fresh = page.fresh,
         page' = Progress(shown, p, q)
  PROVE  DueInv' /\ Covered
<1> DEFINE ps   == (shown.passes \ {p}) \cup {q}
           next == [shown EXCEPT !.passes = ps]
<1>1. /\ page.passes \in SUBSET Pass /\ id \in Runs
      /\ \A a, b \in page.passes : a.live /\ b.live => a = b
  BY OneAlive, PageOf
<1>2. /\ GateGood(page) /\ GateGood(shown) /\ CtlsGood(page, id, db)
      /\ InFlight(shown) <=> InFlight(page)
  BY DEF DueInv, GateGood, InFlight
<1>3. ps \in SUBSET Pass
  BY <1>1
<1>4. \A rows : Progressed(page', next, rows, db[id].found)
  BY <1>1, <1>2, ProgressDue
<1> HIDE DEF ps
<1>5. /\ next.passes = ps /\ next.state = page.state /\ next.dirty = page.dirty
      /\ next.ctls = page.ctls /\ next.pending = page.pending
      /\ next.row = shown.row /\ next.list = shown.list /\ next.fresh = shown.fresh
      /\ next.autoErr = shown.autoErr /\ next.manErr = shown.manErr
  BY <1>3 DEF Page
<1> HIDE DEF next
<1>6. InFlight(next) <=> InFlight(page)
  BY <1>5 DEF InFlight, ps
<1>7. Mine(p) => InFlight(page) /\ \A o \in ps : Mine(o) => o = q
  BY <1>1, <1>2 DEF InFlight, Mine, GateGood, ps
<1>8. ASSUME NEW rows, RowDue(page, rows)
      PROVE  RowDue(next, rows)
  <2>1. CASE Mine(p)
    <3>1. CASE page.dirty # "none"
      BY <1>5, <3>1 DEF RowDue
    <3>2. CASE page.dirty = "none"
      <4>1. \/ p.light = "failed"
            \/ p.light = "out" /\ p.row \in rows \cup {None}
            \/ p.light = "ok" /\ page.row \in rows
        BY <1>7, <1>8, <2>1, <3>2 DEF RowDue
      <4>2. \/ q.light = "failed"
            \/ q.light = "out" /\ q.row \in rows \cup {None}
            \/ q.light = "ok" /\ next.row \in rows
        BY <1>5, <2>1, <4>1
      <4> QED
        BY <1>5, <1>6, <1>7, <2>1, <4>2 DEF RowDue
    <3> QED
      BY <3>1, <3>2
  <2>2. CASE ~Mine(p)
    <3>1. \A o \in ps : Mine(o) => o \in page.passes
      BY <2>2 DEF ps, Mine
    <3> QED
      BY <1>5, <1>6, <1>8, <2>2, <3>1 DEF RowDue
  <2> QED
    BY <2>1, <2>2
<1>9. ListDue(page, db[id].found) => ListDue(next, db[id].found)
  <2> SUFFICES ASSUME ListDue(page, db[id].found), page.dirty # "heavy"
               PROVE  ListDue(next, db[id].found)
    BY <1>5 DEF ListDue
  <2>1. CASE Mine(p)
    <3>1. q \in ps /\ \A o \in ps : ListOut(o) => o = q
      BY <1>7, <2>1 DEF ListOut, ps
    <3>2. \A o \in page.passes : ListOut(o) => o = p
      BY <1>1, <1>2, <2>1 DEF ListOut, Mine, GateGood
    <3>3. CASE q.heavy = "failed" /\ shown.fresh = "failed"
      BY <1>5, <3>1, <3>3 DEF ListDue, ListOut
    <3>4. CASE q.heavy = "ok" /\ ListOut(p) /\ p.list # None /\ shown.list = p.list
      BY <1>5, <3>1, <3>2, <3>4 DEF ListDue, ListOut
    <3>5. CASE /\ q.heavy = p.heavy /\ q.list = p.list
               /\ shown.list = page.list /\ shown.fresh = page.fresh
      <4>1. ListOut(q) <=> ListOut(p)
        BY <3>5 DEF ListOut, Mine
      <4> QED
        BY <1>5, <3>1, <3>2, <3>5, <4>1 DEF ListDue
    <3> QED
      BY <2>1, <3>3, <3>4, <3>5
  <2>2. CASE ~Mine(p)
    <3>1. \A o : ListOut(o) => (o \in ps <=> o \in page.passes)
      BY <2>2 DEF ps, Mine, ListOut
    <3> QED
      BY <1>5, <2>2, <3>1 DEF ListDue
  <2> QED
    BY <2>1, <2>2
<1>10. CtlsGood(next, id, db)
  BY <1>2, <1>5, <1>6, <1>8, CtlsKept
<1>11. DueInv'
  BY <1>4, <1>5, <1>8, <1>9, <1>10, ProgressStepDue
<1>12. Covered
  <2> SUFFICES ASSUME NEW c \in page.ctls, c.here, page.pending, ~page'.pending
               PROVE  \/ c.step # "sent" /\ page'.row.ver >= c.ver
                      \/ page'.autoErr \/ page'.manErr
    BY DEF Covered
  <2>1. Progressed(page', next, NoLess(c.ver), db[id].found)
    BY <1>4
  <2>2. PICK e \in page.ctls : e.here /\ e.step = "waiting"
    BY <1>5, <2>1 DEF Progressed
  <2>3. c.step = "waiting" /\ RowDue(page, NoLess(c.ver))
    BY <1>2, <2>2 DEF CtlsGood
  <2>4. RowDue(page', NoLess(c.ver)) /\ ~InFlight(page') /\ page'.dirty = "none"
    BY <1>5, <1>8, <2>1, <2>3 DEF Progressed
  <2>5. page'.row \in NoLess(c.ver) \/ page'.autoErr \/ page'.manErr
    BY <2>4 DEF RowDue
  <2> QED
    BY <2>3, <2>5 DEF NoLess
<1> QED
  BY <1>11, <1>12

LEMMA LightAnsweredDue ==
  ASSUME IInv, DueInv, NEW p \in page.passes, LightAnswered(p)
  PROVE  DueInv' /\ Covered
<1> DEFINE q == [p EXCEPT !.light = "ok"]
           shown == ShowLight(page, p)
<1>1. /\ UNCHANGED <<db, stream, id, rendered>> /\ p.kind # "initial"
      /\ p.light = "out" /\ p.row # None /\ page' = Progress(shown, p, q)
  BY DEF LightAnswered
<1>2. p \in Pass /\ page \in Page
  BY OneAlive
<1>3. /\ q \in Pass /\ q.live = p.live /\ q.here = p.here /\ q.kind = p.kind
      /\ q.light = "ok" /\ q.heavy = p.heavy /\ q.row = p.row /\ q.list = p.list
  BY <1>2 DEF Pass
<1>4. PageGood(page, id, db, details.ids)
  BY PageOf
<1>5. shown \in Page
  BY <1>1, <1>4, ShowLightKeeps DEF PageGood
<1>6. /\ shown.passes = page.passes /\ shown.state = page.state
      /\ shown.dirty = page.dirty /\ shown.ctls = page.ctls
      /\ shown.pending = page.pending
      /\ shown.list = page.list /\ shown.fresh = page.fresh
      /\ p.live /\ page.state = "loaded" => shown.row = p.row
      /\ ~p.live => shown = page
  BY <1>2 DEF ShowLight, Page
<1>7. /\ Mine(p) => p.live /\ page.state = "loaded"
      /\ ~Mine(p) => ~p.live
  BY <1>1 DEF DueInv, GateGood, Mine
<1> HIDE DEF q, shown
<1> QED
  BY <1>1, <1>3, <1>5, <1>6, <1>7, HalfDue

LEMMA HeavyAnsweredDue ==
  ASSUME IInv, DueInv, NEW p \in page.passes, HeavyAnswered(p)
  PROVE  DueInv' /\ Covered
<1> DEFINE q == [p EXCEPT !.heavy = "ok"]
           shown == ShowHeavy(page, p)
<1>1. /\ UNCHANGED <<db, stream, id, rendered>> /\ p.kind = "heavy"
      /\ p.heavy = "out" /\ p.list # None /\ page' = Progress(shown, p, q)
  BY DEF HeavyAnswered
<1>2. p \in Pass /\ page \in Page
  BY OneAlive
<1>3. /\ q \in Pass /\ q.live = p.live /\ q.here = p.here /\ q.kind = p.kind
      /\ q.light = p.light /\ q.heavy = "ok" /\ q.row = p.row
  BY <1>2 DEF Pass
<1>4. PageGood(page, id, db, details.ids)
  BY PageOf
<1>5. shown \in Page
  BY <1>1, <1>4, ShowHeavyKeeps DEF PageGood
<1>6. /\ shown.passes = page.passes /\ shown.state = page.state
      /\ shown.dirty = page.dirty /\ shown.ctls = page.ctls
      /\ shown.pending = page.pending /\ shown.row = page.row
      /\ p.live /\ page.state = "loaded" => shown.list = p.list
      /\ ~p.live => shown = page
  BY <1>2 DEF ShowHeavy, Page
<1>7. /\ Mine(p) => p.live /\ page.state = "loaded" /\ ListOut(p)
      /\ ~Mine(p) => ~p.live
  BY <1>1 DEF DueInv, GateGood, Mine, ListOut
<1> HIDE DEF q, shown
<1>8. p.kind # "initial"
  BY <1>1
<1> QED
  BY <1>1, <1>3, <1>5, <1>6, <1>7, <1>8, HalfDue

(* The first load ends: nothing of this visit was asked for before.         *)
LEMMA FirstLoadDue ==
  ASSUME IInv, DueInv, UNCHANGED <<db, stream, id, rendered>>,
         NEW p \in page.passes, p.kind = "initial",
         page'.passes = page.passes \ {p}, page'.ctls = page.ctls,
         page'.dirty = page.dirty, page'.pending = page.pending,
         ~p.live => /\ SameView(page', page) /\ page'.fresh = page.fresh
                    /\ page'.autoErr = page.autoErr /\ page'.manErr = page.manErr
  PROVE  DueInv'
<1>1. InFlight(page') <=> InFlight(page)
  BY DEF InFlight
<1>2. CASE p.live
  <2>1. page.state = "loading"
    BY <1>2, OneAlive
  <2>2. /\ \A o \in page.passes : ~Mine(o)
        /\ \A c \in page.ctls : ~c.here
        /\ stream.es # "open"
    BY <2>1 DEF DueInv, GateGood, CtlsGood, Watched
  <2>3. GateGood(page') /\ CtlsGood(page', id, db)
    BY <1>1, <2>2 DEF DueInv, GateGood, CtlsGood, Mine
  <2> QED
    BY <2>2, <2>3, PageStepDue
<1>3. CASE ~p.live
  <2>1. GateGood(page')
    BY <1>1, <1>3 DEF DueInv, GateGood, SameView
  <2>2. ASSUME NEW rows, RowDue(page, rows)
        PROVE  RowDue(page', rows)
    BY <1>1, <1>3, <2>2 DEF RowDue, SameView
  <2>3. ListDue(page, db[id].found) => ListDue(page', db[id].found)
    BY <1>3 DEF ListDue, ListOut, Mine, SameView
  <2>4. CtlsGood(page', id, db)
    BY <1>1, <1>3, <2>2, CtlsKept DEF DueInv, SameView
  <2> QED
    BY <1>3, <2>1, <2>2, <2>3, <2>4, PageStepDue DEF DueInv, Watched, SameView
<1> QED
  BY <1>2, <1>3

LEMMA InitialAnsweredDue ==
  ASSUME IInv, DueInv, NEW p \in page.passes, InitialAnswered(p)
  PROVE  DueInv' /\ page'.pending = page.pending
<1> DEFINE left == [page EXCEPT !.passes = page.passes \ {p}]
<1>1. /\ UNCHANGED <<db, stream, id, rendered>> /\ p.kind = "initial"
      /\ page' = IF ~p.live THEN left
                 ELSE [left EXCEPT !.state = "loaded", !.row = p.row, !.list = p.list]
  BY DEF InitialAnswered
<1>2. /\ left.passes = page.passes \ {p} /\ left.ctls = page.ctls
      /\ left.dirty = page.dirty /\ left.pending = page.pending
      /\ SameView(left, page) /\ left.fresh = page.fresh
      /\ left.autoErr = page.autoErr /\ left.manErr = page.manErr
      /\ left \in Page
  BY OneAlive DEF Page, SameView
<1> HIDE DEF left
<1>3. /\ page'.passes = page.passes \ {p} /\ page'.ctls = page.ctls
      /\ page'.dirty = page.dirty /\ page'.pending = page.pending
      /\ ~p.live => page' = left
  <2>1. CASE ~p.live
    BY <1>1, <1>2, <2>1
  <2>2. CASE p.live
    <3>1. page' = [left EXCEPT !.state = "loaded", !.row = p.row, !.list = p.list]
      BY <1>1, <2>2
    <3> QED
      BY <1>2, <2>2, <3>1 DEF Page
  <2> QED
    BY <2>1, <2>2
<1> QED
  BY <1>1, <1>2, <1>3, FirstLoadDue

LEMMA PassFailsDue ==
  ASSUME IInv, DueInv, NEW p \in page.passes, PassFails(p)
  PROVE  DueInv' /\ Covered
<1> DEFINE light == [p EXCEPT !.light = "failed"]
           heavy == [p EXCEPT !.heavy = "failed"]
           stale == [page EXCEPT !.fresh = "failed"]
           left  == [page EXCEPT !.passes = page.passes \ {p}]
<1>1. UNCHANGED <<db, stream, id, rendered>>
  BY DEF PassFails
<1>2. p \in Pass /\ page \in Page
  BY OneAlive
<1>3. /\ light \in Pass /\ light.live = p.live /\ light.here = p.here
      /\ light.kind = p.kind /\ light.light = "failed"
      /\ light.heavy = p.heavy /\ light.list = p.list
  BY <1>2 DEF Pass
<1>4. /\ heavy \in Pass /\ heavy.live = p.live /\ heavy.here = p.here
      /\ heavy.kind = p.kind /\ heavy.heavy = "failed"
      /\ heavy.light = p.light /\ heavy.row = p.row
  BY <1>2 DEF Pass
<1>5. /\ stale \in Page /\ stale.passes = page.passes /\ stale.state = page.state
      /\ stale.dirty = page.dirty /\ stale.ctls = page.ctls
      /\ stale.pending = page.pending /\ stale.row = page.row /\ stale.fresh = "failed"
  BY <1>2 DEF Page
<1>6. p.kind # "initial" => /\ Mine(p) => p.live
                            /\ ~Mine(p) => ~p.live
  BY DEF DueInv, GateGood, Mine
<1>7. CASE p.kind # "initial" /\ page' = Progress(page, p, light)
  <2> HIDE DEF light
  <2> QED
    BY <1>1, <1>2, <1>3, <1>7, HalfDue
<1>8. CASE /\ p.kind = "heavy"
           /\ page' = Progress(IF p.live THEN stale ELSE page, p, heavy)
  <2> HIDE DEF heavy, stale
  <2>1. p.kind # "initial"
    BY <1>8
  <2>2. CASE p.live
    <3>1. page' = Progress(stale, p, heavy) /\ Mine(p)
      BY <1>6, <1>8, <2>1, <2>2
    <3> QED
      BY <1>1, <1>4, <1>5, <2>1, <3>1, HalfDue
  <2>3. CASE ~p.live
    <3>1. page' = Progress(page, p, heavy) /\ ~Mine(p)
      BY <1>6, <1>8, <2>1, <2>3
    <3> QED
      BY <1>1, <1>2, <1>4, <2>1, <3>1, HalfDue
  <2> QED
    BY <2>2, <2>3
<1>9. CASE /\ p.kind = "initial"
           /\ page' = [page EXCEPT !.passes = page.passes \ {p},
                                   !.state = IF p.live THEN "error" ELSE page.state]
  <2>1. /\ page'.passes = page.passes \ {p} /\ page'.ctls = page.ctls
        /\ page'.dirty = page.dirty /\ page'.pending = page.pending
        /\ ~p.live => /\ SameView(page', page) /\ page'.fresh = page.fresh
                      /\ page'.autoErr = page.autoErr /\ page'.manErr = page.manErr
    BY <1>2, <1>9 DEF Page, SameView
  <2> QED
    BY <1>1, <1>9, <2>1, FirstLoadDue DEF Covered
<1> QED
  BY <1>7, <1>8, <1>9 DEF PassFails

LEMMA NextDue ==
  IInv /\ DueInv /\ [Next]_vars => DueInv' /\ (id' = id => Covered)
<1> SUFFICES ASSUME IInv, DueInv, [Next]_vars
             PROVE  DueInv' /\ (id' = id => Covered)
  OBVIOUS
<1>1. CASE UNCHANGED vars
  BY <1>1 DEF vars, DueInv, Wired, Watched, Covered
<1>2. ASSUME page'.pending = page.pending \/ page'.pending
      PROVE  Covered
  BY <1>2 DEF Covered
<1>3. ASSUME NEW r \in Runs, Change(r) \/ Move(r)
      PROVE  DueInv' /\ (id' = id => Covered)
  <2>1. Change(r) => page' = page
    BY DEF Change
  <2>2. Move(r) => id' # id
    BY DEF Move
  <2> QED
    BY <1>2, <1>3, <2>1, <2>2, ChangeDue, MoveDue
<1>4. CASE Restart \/ Accept \/ StreamFails
  <2>1. \/ page' = page
        \/ \E conn \in {"open", "reconnecting", "closed"} : page' = [page EXCEPT !.conn = conn]
    BY <1>4 DEF Restart, Accept, StreamFails
  <2>2. page'.pending = page.pending
    BY <2>1, PageOf DEF Page
  <2> QED
    BY <1>2, <1>4, <2>2, RestartDue, AcceptDue, StreamFailsDue
<1>5. CASE Deliver \/ Render \/ PressRefresh
  BY <1>2, <1>5, DeliverDue, RenderDue, PressRefreshDue
<1>6. CASE RetryInitial
  BY <1>6, RetryInitialDue DEF Covered
<1>7. CASE PressControl
  <2>1. ~page.pending
    BY <1>7 DEF PressControl
  <2> QED
    BY <1>7, <2>1, PressControlDue DEF Covered
<1>8. ASSUME NEW p \in page.passes,
             \/ \E part \in {"row", "list"} : Read(p, part)
             \/ LightAnswered(p) \/ HeavyAnswered(p) \/ InitialAnswered(p) \/ PassFails(p)
      PROVE  DueInv' /\ Covered
  <2>1. ASSUME NEW part \in {"row", "list"}, Read(p, part)
        PROVE  DueInv' /\ page'.pending = page.pending
    <3>1. page' = [page EXCEPT !.passes =
                     (page.passes \ {p}) \cup {[p EXCEPT ![part] = db[p.run]]}]
      BY <2>1 DEF Read
    <3> QED
      BY <2>1, <3>1, PageOf, ReadDue DEF Page
  <2> QED
    BY <1>2, <1>8, <2>1, LightAnsweredDue, HeavyAnsweredDue, InitialAnsweredDue, PassFailsDue
<1>9. ASSUME NEW c \in page.ctls, ServeControl(c) \/ ControlAnswered(c)
      PROVE  DueInv' /\ Covered
  <2>1. ASSUME ServeControl(c)
        PROVE  page'.pending = page.pending
    <3>1. \E ctls : page' = [page EXCEPT !.ctls = ctls]
      BY <2>1 DEF ServeControl
    <3> QED
      BY <3>1, PageOf DEF Page
  <2> QED
    BY <1>2, <1>9, <2>1, ServeControlDue, ControlAnsweredDue
<1>10. CASE \/ \E f \in Findings : SelectFinding(f)
            \/ \E hidden \in Filters : ChangeFilter(hidden)
  BY <1>2, <1>10, PickDue
<1>11. CASE \E c \in details.calls : ReadDetail(c) \/ DetailArrives(c) \/ DetailFails(c)
  <2>1. UNCHANGED <<db, stream, id, rendered, page>>
    BY <1>11 DEF ReadDetail, DetailArrives, DetailFails
  <2> QED
    BY <1>2, <2>1, DetailDue
<1> QED
  BY <1>1, <1>3, <1>4, <1>5, <1>6, <1>7, <1>8, <1>9, <1>10, <1>11 DEF Next

(* What a watched page does not show, an event tells it or it is already    *)
(* reading, and a waiting control holds the buttons meanwhile.              *)
THEOREM WatchInvariance == Spec => []DueInv
  BY InitKeeps, NextKeeps, InitDue, NextDue, PTL DEF Spec

(* A watched page at which nothing is under way is not behind, unless it    *)
(* shows a notice (requestRefresh and the events of the stream).            *)
THEOREM QuietIsCurrent == Spec => []QuietPageIsCurrent
<1>1. DueInv => QuietPageIsCurrent
  <2> SUFFICES ASSUME DueInv, Quiet, stream.es = "open"
               PROVE  /\ page.row = db[id]
                      /\ page.list.found = db[id].found \/ page.fresh = "failed"
    BY DEF QuietPageIsCurrent
  <2>1. Len(stream.wire) = 0 /\ ~InFlight(page) /\ page.dirty = "none"
    BY DEF Quiet, DueInv, GateGood
  <2>2. RowDue(page, {db[id]}) /\ ListDue(page, db[id].found)
    BY <2>1 DEF DueInv, Watched
  <2> QED
    BY <2>1, <2>2 DEF RowDue, ListDue, ListOut, Mine, InFlight, Quiet, Notice
<1> QED
  BY <1>1, WatchInvariance, PTL

(* The buttons come back only with a state read after the control took      *)
(* effect, or with a notice that it could not be read (settleIdle).         *)
THEOREM PendingCovers == Spec => PendingCoversControl
<1>1. IInv /\ DueInv /\ [Next]_vars =>
        [\A c \in page.ctls :
           c.here /\ page.pending /\ ~page'.pending /\ id' = id =>
             \/ c.step # "sent" /\ page'.row.ver >= c.ver
             \/ page'.autoErr \/ page'.manErr]_vars
  BY NextDue DEF Covered
<1> QED
  BY <1>1, Invariance, WatchInvariance, PTL DEF Spec, PendingCoversControl
=============================================================================
