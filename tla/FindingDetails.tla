---------------------------- MODULE FindingDetails ----------------------------
(***************************************************************************)
(* The details of findings on the results page: which findings of the      *)
(* list are shown together when one of them is selected, and the hook that *)
(* fetches the details of each (useFindingDetails).  A hook is a record,   *)
(* and an operator maps it to what it becomes.                             *)
(*                                                                         *)
(* A finding has a place in the server's order and a range in the text,    *)
(* "none" when it was not located; since is the version of its run's       *)
(* findings that brought it.  Of what the server says in detail the model  *)
(* keeps the version it was read at.                                       *)
(***************************************************************************)
EXTENDS Naturals

CONSTANTS Runs,      \* ids of runs
          Findings   \* findings that the runs may come to have

None == [run |-> "none"]

ASSUME RunsAssumption == Runs # {}

ASSUME FindingsAssumption ==
  /\ Findings \subseteq [run : Runs, n : Nat, range : STRING, since : Nat]
  /\ \A f, g \in Findings : f.run = g.run /\ f.n = g.n => f = g

(* What getFindings answers for a run at a version                          *)
Listed(list) == {f \in Findings : f.run = list.run /\ f.since <= list.found}

SameRange(f, g) == f = g \/ (f.range = g.range /\ f.range # "none")

(* groupFindings, groupContaining and nextSelection: those of the visible   *)
(* findings that have the range of the selected one, which need not itself  *)
(* be visible.                                                              *)
SelectedGroup(selected, all, visible) ==
  IF selected \in all THEN {f \in visible : SameRange(selected, f)} ELSE {}

First(group) ==
  IF group = {} THEN None ELSE CHOOSE f \in group : \A g \in group : f.n <= g.n

-----------------------------------------------------------------------------
(* useFindingDetails *)

(* A getFinding under way; it is live when its token is the latest of its   *)
(* finding.                                                                 *)
Call == [finding : Findings, live : BOOLEAN, read : BOOLEAN, ver : Nat]

Entry == [has : BOOLEAN, ver : Nat, error : BOOLEAN]
PendingDetail == [has |-> FALSE, ver |-> 0, error |-> FALSE]

Hook == [ids : SUBSET Findings,              \* idsRef.current
         asked : SUBSET Findings,            \* the keys of latestRef.current
         entries : [Findings -> Entry],
         calls : SUBSET Call]

NoDetails == [ids |-> {}, asked |-> {}, entries |-> [f \in Findings |-> PendingDetail],
              calls |-> {}]

(* The answers of what is under way for these findings will be dropped.     *)
Forgotten(calls, fs) ==
  {[c EXCEPT !.live = @ /\ c.finding \notin fs] : c \in calls}

(* fetchOne, for each of fs                                                 *)
Fetch(hook, fs) ==
  [hook EXCEPT !.asked = @ \cup fs,
               !.calls = Forgotten(@, fs) \cup
                   {[finding |-> f, live |-> TRUE, read |-> FALSE, ver |-> 0] : f \in fs}]

(* What is kept of the hook when only the findings of ids remain            *)
Kept(hook, ids) ==
  [hook EXCEPT !.ids = ids,
               !.asked = @ \cap ids,
               !.entries = [f \in Findings |-> IF f \in ids THEN @[f] ELSE PendingDetail],
               !.calls = Forgotten(@, Findings \ ids)]

(* The effect on memberIds: another group begins anew, the same group keeps *)
(* what it has and fetches what is missing.                                 *)
Follow(hook, ids) ==
  IF ids = hook.ids THEN hook
  ELSE LET kept == Kept(hook, ids \cap hook.ids)
       IN Fetch([kept EXCEPT !.ids = ids], ids \ kept.asked)

(* refresh()                                                                *)
Refresh(hook) == Fetch(hook, hook.ids)

(* The handler of GET /findings/:id                                         *)
Answered(hook, c, ver) ==
  [hook EXCEPT !.calls = (@ \ {c}) \cup {[c EXCEPT !.read = TRUE, !.ver = ver]}]

MutantAnyAnswer(hook, c) ==
  [hook EXCEPT !.calls = @ \ {c},
               !.entries[c.finding] = [has |-> TRUE, ver |-> c.ver, error |-> FALSE]]

(* The answer is shown if it is the latest that was asked for.              *)
Arrived(hook, c) ==
  LET left == [hook EXCEPT !.calls = @ \ {c}]
  IN IF ~c.live THEN left
     ELSE [left EXCEPT !.entries[c.finding] = [has |-> TRUE, ver |-> c.ver, error |-> FALSE]]

(* It failed: what is shown stays, with a line that it may be old.          *)
Failed(hook, c) ==
  LET left == [hook EXCEPT !.calls = @ \ {c}]
  IN IF ~c.live THEN left ELSE [left EXCEPT !.entries[c.finding].error = TRUE]

(* An answer for the finding is awaited.                                    *)
Awaited(hook, f) == \E c \in hook.calls : c.finding = f /\ c.live
=============================================================================
